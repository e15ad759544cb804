----------------------- MODULE ThreadSessionsProofs -----------------------
(***************************************************************************)
(* Proofs about agents in threads, for any number of calls, memberships,   *)
(* processes and restarts: the state keeps its types, the pool holds no    *)
(* closed client, no prompt reaches an agent that was told to leave, and a *)
(* process is lost in three places only.                                   *)
(***************************************************************************)
EXTENDS ThreadSessions, TLAPS

USE ThreadAssumption DEF Rows, Sessions, Statuses, Goto, Takes, Unlock, rowVars, sessionVars

Call(r) == Starts(r) \/ Continues(r)

LEMMA InitType == Init => TypeOK
  BY DEF Init, TypeOK, Locations

LEMMA WriteType ==
  ASSUME status \in [Rows -> Statuses \cup {"none", "deleted"}], NEW i \in Rows, NEW s \in Statuses, Write(i, s)
  PROVE  status' \in [Rows -> Statuses \cup {"none", "deleted"}]
  BY DEF Write

RowUsers == {"resuming", "checking", "booting", "booted", "joining", "noting", "taking", "asking",
             "leaving", "writing"}
SessionUsers == {"booted", "joining", "locking", "prompting", "noting", "asking", "leaving"}
Holders == {"prompting", "noting", "leaving"}

\* The clauses of TypeOK about one call.
Settled(r) ==
  /\ pc[r] \in RowUsers => row[r] # None /\ copy[r] # None
  /\ pc[r] \in SessionUsers => sess[r] # None
  /\ pc[r] \in Holders => lock[sess[r]] = r

\* A call that moves, when the mutex of nobody else is touched.
LEMMA Moved ==
  ASSUME TypeOK, NEW r \in Callers, NEW l \in Locations,
         pc' = [pc EXCEPT ![r] = l],
         row' = row \/ (\E i \in Rows : row' = [row EXCEPT ![r] = i]),
         copy' = copy \/ (\E s \in Statuses : copy' = [copy EXCEPT ![r] = s]),
         sess' = sess \/ sess' = [sess EXCEPT ![r] = None] \/ (\E s \in 1..started : sess' = [sess EXCEPT ![r] = s]),
         \A q \in Callers \ {r} : pc[q] \in Holders => lock'[sess[q]] = lock[sess[q]],
         Settled(r)'
  PROVE  /\ pc' \in [Callers -> Locations]
         /\ row' \in [Callers -> Rows \cup {None}] /\ copy' \in [Callers -> Statuses \cup {None}]
         /\ sess' \in [Callers -> 1..started \cup {None}]
         /\ \A q \in Callers : Settled(q)'
  <1>1. pc' \in [Callers -> Locations]
    BY DEF TypeOK
  <1>2. row' \in [Callers -> Rows \cup {None}]
    BY DEF TypeOK
  <1>3. copy' \in [Callers -> Statuses \cup {None}]
    BY DEF TypeOK
  <1>4. sess' \in [Callers -> 1..started \cup {None}]
    BY DEF TypeOK
  <1>5. \A q \in Callers \ {r} : /\ pc'[q] = pc[q] /\ row'[q] = row[q]
                                /\ copy'[q] = copy[q] /\ sess'[q] = sess[q]
    BY DEF TypeOK
  <1>6. \A q \in Callers \ {r} : Settled(q)
    BY DEF TypeOK, Settled, RowUsers, SessionUsers, Holders
  <1>7. \A q \in Callers \ {r} : Settled(q)'
    BY <1>5, <1>6 DEF Settled
  <1> QED BY <1>1, <1>2, <1>3, <1>4, <1>7

LEMMA CallType ==
  ASSUME TypeOK, NEW r \in Callers, Call(r) PROVE TypeOK'
  <1> USE DEF RowsIn, Firsts, Lasts, Reusable, Locations
  <1>1. CASE InviteReads(r)
    <2>1. PICK l \in {"adding", "resuming", "checking"} : pc' = [pc EXCEPT ![r] = l]
      BY <1>1 DEF InviteReads
    <2>2. Settled(r)'
      <3>1. pc'[r] = l
        BY <2>1 DEF TypeOK
      <3>2. l \in RowUsers => row'[r] # None /\ copy'[r] # None
        <4>1. CASE Reusable = {}
          <5>1. pc'[r] = "adding"
            BY <1>1, <4>1 DEF TypeOK, InviteReads
          <5> QED BY <3>1, <5>1 DEF RowUsers
        <4>2. CASE \E i \in Reusable : Takes(r, i, status[i])
          BY <4>2 DEF TypeOK
        <4> QED BY <1>1, <4>1, <4>2 DEF InviteReads
      <3>3. l \in SessionUsers => sess'[r] # None
        BY <1>1, <2>1, <3>1 DEF TypeOK, SessionUsers, InviteReads
      <3>4. l \in Holders => lock'[sess'[r]] = r
        BY <1>1, <2>1, <3>1 DEF TypeOK, Holders, InviteReads
      <3> QED BY <3>1, <3>2, <3>3, <3>4 DEF Settled
    <2>3. \A q \in Callers \ {r} : pc[q] \in Holders => lock'[sess[q]] = lock[sess[q]]
      BY <1>1 DEF TypeOK, Holders, InviteReads
    <2>4. row' = row \/ (\E i \in Rows : row' = [row EXCEPT ![r] = i])
      BY <1>1 DEF TypeOK, InviteReads
    <2>5. copy' = copy \/ (\E s \in Statuses : copy' = [copy EXCEPT ![r] = s])
      BY <1>1 DEF TypeOK, InviteReads
    <2>6. sess' = sess \/ sess' = [sess EXCEPT ![r] = None] \/ (\E s \in 1..started : sess' = [sess EXCEPT ![r] = s])
      BY <1>1 DEF TypeOK, InviteReads
    <2>7. /\ pc' \in [Callers -> Locations]
          /\ row' \in [Callers -> Rows \cup {None}] /\ copy' \in [Callers -> Statuses \cup {None}]
          /\ sess' \in [Callers -> 1..started \cup {None}]
          /\ \A q \in Callers : Settled(q)'
      BY <2>1, <2>2, <2>3, <2>4, <2>5, <2>6, Moved
    <2>8. status' \in [Rows -> Statuses \cup {"none", "deleted"}] /\ lock' \in [Sessions -> Callers \cup {None}]
      BY <1>1 DEF TypeOK, InviteReads
    <2> QED BY <1>1, <2>7, <2>8 DEF TypeOK, Settled, RowUsers, SessionUsers, Holders, InviteReads
  <1>2. CASE Resume(r)
    <2>1. PICK l \in {"booting"} : pc' = [pc EXCEPT ![r] = l]
      BY <1>2 DEF Resume
    <2>2. Settled(r)'
      <3>1. pc'[r] = l
        BY <2>1 DEF TypeOK
      <3>2. l \in RowUsers => row'[r] # None /\ copy'[r] # None
        BY <1>2, <2>1, <3>1 DEF TypeOK, RowUsers, Resume
      <3>3. l \in SessionUsers => sess'[r] # None
        BY <1>2, <2>1, <3>1 DEF TypeOK, SessionUsers, Resume
      <3>4. l \in Holders => lock'[sess'[r]] = r
        BY <1>2, <2>1, <3>1 DEF TypeOK, Holders, Resume
      <3> QED BY <3>1, <3>2, <3>3, <3>4 DEF Settled
    <2>3. \A q \in Callers \ {r} : pc[q] \in Holders => lock'[sess[q]] = lock[sess[q]]
      BY <1>2 DEF TypeOK, Holders, Resume
    <2>4. row' = row \/ (\E i \in Rows : row' = [row EXCEPT ![r] = i])
      BY <1>2 DEF TypeOK, Resume
    <2>5. copy' = copy \/ (\E s \in Statuses : copy' = [copy EXCEPT ![r] = s])
      BY <1>2 DEF TypeOK, Resume
    <2>6. sess' = sess \/ sess' = [sess EXCEPT ![r] = None] \/ (\E s \in 1..started : sess' = [sess EXCEPT ![r] = s])
      BY <1>2 DEF TypeOK, Resume
    <2>7. /\ pc' \in [Callers -> Locations]
          /\ row' \in [Callers -> Rows \cup {None}] /\ copy' \in [Callers -> Statuses \cup {None}]
          /\ sess' \in [Callers -> 1..started \cup {None}]
          /\ \A q \in Callers : Settled(q)'
      BY <2>1, <2>2, <2>3, <2>4, <2>5, <2>6, Moved
    <2>8. status' \in [Rows -> Statuses \cup {"none", "deleted"}] /\ lock' \in [Sessions -> Callers \cup {None}]
      BY <1>2, WriteType DEF TypeOK, Resume
    <2> QED BY <1>2, <2>7, <2>8 DEF TypeOK, Settled, RowUsers, SessionUsers, Holders, Resume
  <1>3. CASE CheckReady(r)
    <2>1. PICK l \in {"ended", "booting"} : pc' = [pc EXCEPT ![r] = l]
      BY <1>3 DEF CheckReady
    <2>2. Settled(r)'
      <3>1. pc'[r] = l
        BY <2>1 DEF TypeOK
      <3>2. l \in RowUsers => row'[r] # None /\ copy'[r] # None
        BY <1>3, <2>1, <3>1 DEF TypeOK, RowUsers, CheckReady
      <3>3. l \in SessionUsers => sess'[r] # None
        BY <1>3, <2>1, <3>1 DEF TypeOK, SessionUsers, CheckReady
      <3>4. l \in Holders => lock'[sess'[r]] = r
        BY <1>3, <2>1, <3>1 DEF TypeOK, Holders, CheckReady
      <3> QED BY <3>1, <3>2, <3>3, <3>4 DEF Settled
    <2>3. \A q \in Callers \ {r} : pc[q] \in Holders => lock'[sess[q]] = lock[sess[q]]
      BY <1>3 DEF TypeOK, Holders, CheckReady
    <2>4. row' = row \/ (\E i \in Rows : row' = [row EXCEPT ![r] = i])
      BY <1>3 DEF TypeOK, CheckReady
    <2>5. copy' = copy \/ (\E s \in Statuses : copy' = [copy EXCEPT ![r] = s])
      BY <1>3 DEF TypeOK, CheckReady
    <2>6. sess' = sess \/ sess' = [sess EXCEPT ![r] = None] \/ (\E s \in 1..started : sess' = [sess EXCEPT ![r] = s])
      BY <1>3 DEF TypeOK, CheckReady
    <2>7. /\ pc' \in [Callers -> Locations]
          /\ row' \in [Callers -> Rows \cup {None}] /\ copy' \in [Callers -> Statuses \cup {None}]
          /\ sess' \in [Callers -> 1..started \cup {None}]
          /\ \A q \in Callers : Settled(q)'
      BY <2>1, <2>2, <2>3, <2>4, <2>5, <2>6, Moved
    <2>8. status' \in [Rows -> Statuses \cup {"none", "deleted"}] /\ lock' \in [Sessions -> Callers \cup {None}]
      BY <1>3 DEF TypeOK, CheckReady
    <2> QED BY <1>3, <2>7, <2>8 DEF TypeOK, Settled, RowUsers, SessionUsers, Holders, CheckReady
  <1>4. CASE AddMember(r)
    <2>1. PICK l \in {"booting"} : pc' = [pc EXCEPT ![r] = l]
      BY <1>4 DEF AddMember
    <2>2. Settled(r)'
      <3>1. pc'[r] = l
        BY <2>1 DEF TypeOK
      <3>2. l \in RowUsers => row'[r] # None /\ copy'[r] # None
        BY <1>4, <2>1, <3>1 DEF TypeOK, RowUsers, AddMember
      <3>3. l \in SessionUsers => sess'[r] # None
        BY <1>4, <2>1, <3>1 DEF TypeOK, SessionUsers, AddMember
      <3>4. l \in Holders => lock'[sess'[r]] = r
        BY <1>4, <2>1, <3>1 DEF TypeOK, Holders, AddMember
      <3> QED BY <3>1, <3>2, <3>3, <3>4 DEF Settled
    <2>3. \A q \in Callers \ {r} : pc[q] \in Holders => lock'[sess[q]] = lock[sess[q]]
      BY <1>4 DEF TypeOK, Holders, AddMember
    <2>4. row' = row \/ (\E i \in Rows : row' = [row EXCEPT ![r] = i])
      BY <1>4 DEF TypeOK, AddMember
    <2>5. copy' = copy \/ (\E s \in Statuses : copy' = [copy EXCEPT ![r] = s])
      BY <1>4 DEF TypeOK, AddMember
    <2>6. sess' = sess \/ sess' = [sess EXCEPT ![r] = None] \/ (\E s \in 1..started : sess' = [sess EXCEPT ![r] = s])
      BY <1>4 DEF TypeOK, AddMember
    <2>7. /\ pc' \in [Callers -> Locations]
          /\ row' \in [Callers -> Rows \cup {None}] /\ copy' \in [Callers -> Statuses \cup {None}]
          /\ sess' \in [Callers -> 1..started \cup {None}]
          /\ \A q \in Callers : Settled(q)'
      BY <2>1, <2>2, <2>3, <2>4, <2>5, <2>6, Moved
    <2>8. status' \in [Rows -> Statuses \cup {"none", "deleted"}] /\ lock' \in [Sessions -> Callers \cup {None}]
      BY <1>4 DEF TypeOK, AddMember
    <2> QED BY <1>4, <2>7, <2>8 DEF TypeOK, Settled, RowUsers, SessionUsers, Holders, AddMember
  <1>5. CASE Boot(r)
    BY <1>5 DEF TypeOK, Boot
  <1>6. CASE BootFails(r)
    BY <1>6, WriteType DEF TypeOK, BootFails
  <1>7. CASE PoolSession(r)
    BY <1>7 DEF TypeOK, PoolSession
  <1>8. CASE Join(r)
    BY <1>8, WriteType DEF TypeOK, Join
  <1>9. CASE Lookup(r)
    <2>1. PICK l \in {"locking", "recovering", "ended"} : pc' = [pc EXCEPT ![r] = l] /\ (l = "locking" => pooled # None)
      BY <1>9 DEF Lookup
    <2>2. sess' = [sess EXCEPT ![r] = pooled] /\ pooled \in 1..started \cup {None}
      BY <1>9 DEF TypeOK, Lookup
    <2>3. Settled(r)'
      <3>1. pc'[r] = l /\ sess'[r] = pooled
        BY <2>1, <2>2 DEF TypeOK
      <3> QED BY <2>1, <3>1 DEF Settled, RowUsers, SessionUsers, Holders
    <2>4. /\ pc' \in [Callers -> Locations] /\ sess' \in [Callers -> 1..started \cup {None}]
          /\ \A q \in Callers : Settled(q)'
      BY <1>9, <2>1, <2>2, <2>3, Moved DEF Lookup
    <2> QED BY <1>9, <2>4 DEF TypeOK, Settled, RowUsers, SessionUsers, Holders, Lookup
  <1>10. CASE Recover(r)
    <2>1. PICK l \in {"retrying", "ended", "resuming", "booting"} : pc' = [pc EXCEPT ![r] = l]
      BY <1>10 DEF Recover
    <2>2. Settled(r)'
      <3>1. pc'[r] = l
        BY <2>1 DEF TypeOK
      <3>2. l \in RowUsers => row'[r] # None /\ copy'[r] # None
        <4>1. CASE pc' = [pc EXCEPT ![r] = "retrying"] \/ pc' = [pc EXCEPT ![r] = "ended"]
          <5>1. pc'[r] \in {"retrying", "ended"}
            BY <4>1 DEF TypeOK
          <5> QED BY <3>1, <5>1 DEF RowUsers
        <4>2. CASE \E i \in Reusable : Takes(r, i, status[i])
          BY <4>2 DEF TypeOK
        <4> QED BY <1>10, <4>1, <4>2 DEF Recover
      <3>3. l \in SessionUsers => sess'[r] # None
        BY <1>10, <2>1, <3>1 DEF TypeOK, SessionUsers, Recover
      <3>4. l \in Holders => lock'[sess'[r]] = r
        BY <1>10, <2>1, <3>1 DEF TypeOK, Holders, Recover
      <3> QED BY <3>1, <3>2, <3>3, <3>4 DEF Settled
    <2>3. \A q \in Callers \ {r} : pc[q] \in Holders => lock'[sess[q]] = lock[sess[q]]
      BY <1>10 DEF TypeOK, Holders, Recover
    <2>4. row' = row \/ (\E i \in Rows : row' = [row EXCEPT ![r] = i])
      BY <1>10 DEF TypeOK, Recover
    <2>5. copy' = copy \/ (\E s \in Statuses : copy' = [copy EXCEPT ![r] = s])
      BY <1>10 DEF TypeOK, Recover
    <2>6. sess' = sess \/ sess' = [sess EXCEPT ![r] = None] \/ (\E s \in 1..started : sess' = [sess EXCEPT ![r] = s])
      BY <1>10 DEF TypeOK, Recover
    <2>7. /\ pc' \in [Callers -> Locations]
          /\ row' \in [Callers -> Rows \cup {None}] /\ copy' \in [Callers -> Statuses \cup {None}]
          /\ sess' \in [Callers -> 1..started \cup {None}]
          /\ \A q \in Callers : Settled(q)'
      BY <2>1, <2>2, <2>3, <2>4, <2>5, <2>6, Moved
    <2>8. status' \in [Rows -> Statuses \cup {"none", "deleted"}] /\ lock' \in [Sessions -> Callers \cup {None}]
      BY <1>10 DEF TypeOK, Recover
    <2> QED BY <1>10, <2>7, <2>8 DEF TypeOK, Settled, RowUsers, SessionUsers, Holders, Recover
  <1>11. CASE BeginPrompt(r)
    <2>1. PICK l \in {"ended", "prompting"} : pc' = [pc EXCEPT ![r] = l]
      BY <1>11 DEF BeginPrompt
    <2>2. Settled(r)'
      BY <1>11, <2>1 DEF TypeOK, Settled, RowUsers, SessionUsers, Holders, BeginPrompt
    <2>3. \A q \in Callers \ {r} : pc[q] \in Holders => lock'[sess[q]] = lock[sess[q]]
      BY <1>11 DEF TypeOK, Holders, BeginPrompt
    <2>4. row' = row \/ (\E i \in Rows : row' = [row EXCEPT ![r] = i])
      BY <1>11 DEF TypeOK, BeginPrompt
    <2>5. copy' = copy \/ (\E s \in Statuses : copy' = [copy EXCEPT ![r] = s])
      BY <1>11 DEF TypeOK, BeginPrompt
    <2>6. sess' = sess \/ sess' = [sess EXCEPT ![r] = None] \/ (\E s \in 1..started : sess' = [sess EXCEPT ![r] = s])
      BY <1>11 DEF TypeOK, BeginPrompt
    <2>7. /\ pc' \in [Callers -> Locations]
          /\ row' \in [Callers -> Rows \cup {None}] /\ copy' \in [Callers -> Statuses \cup {None}]
          /\ sess' \in [Callers -> 1..started \cup {None}]
          /\ \A q \in Callers : Settled(q)'
      BY <2>1, <2>2, <2>3, <2>4, <2>5, <2>6, Moved
    <2>8. status' \in [Rows -> Statuses \cup {"none", "deleted"}]
      BY <1>11 DEF TypeOK, BeginPrompt
    <2>9. lock' \in [Sessions -> Callers \cup {None}]
      BY <1>11 DEF TypeOK, BeginPrompt
    <2> QED BY <1>11, <2>7, <2>8, <2>9 DEF TypeOK, Settled, RowUsers, SessionUsers, Holders, BeginPrompt
  <1>12. CASE EndPrompt(r)
    <2>1. PICK l \in {"ended", "noting"} : pc' = [pc EXCEPT ![r] = l]
      BY <1>12 DEF EndPrompt
    <2>2. Settled(r)'
      <3>1. pc'[r] = l
        BY <2>1 DEF TypeOK
      <3>2. l \in RowUsers => row'[r] # None /\ copy'[r] # None
        BY <1>12, <2>1, <3>1 DEF TypeOK, RowUsers, EndPrompt
      <3>3. l \in SessionUsers => sess'[r] # None
        BY <1>12, <2>1, <3>1 DEF TypeOK, SessionUsers, EndPrompt
      <3>4. l \in Holders => lock'[sess'[r]] = r
        BY <1>12, <2>1, <3>1 DEF TypeOK, Holders, EndPrompt
      <3> QED BY <3>1, <3>2, <3>3, <3>4 DEF Settled
    <2>3. \A q \in Callers \ {r} : pc[q] \in Holders => lock'[sess[q]] = lock[sess[q]]
      BY <1>12 DEF TypeOK, Holders, EndPrompt
    <2>4. row' = row \/ (\E i \in Rows : row' = [row EXCEPT ![r] = i])
      BY <1>12 DEF TypeOK, EndPrompt
    <2>5. copy' = copy \/ (\E s \in Statuses : copy' = [copy EXCEPT ![r] = s])
      BY <1>12 DEF TypeOK, EndPrompt
    <2>6. sess' = sess \/ sess' = [sess EXCEPT ![r] = None] \/ (\E s \in 1..started : sess' = [sess EXCEPT ![r] = s])
      BY <1>12 DEF TypeOK, EndPrompt
    <2>7. /\ pc' \in [Callers -> Locations]
          /\ row' \in [Callers -> Rows \cup {None}] /\ copy' \in [Callers -> Statuses \cup {None}]
          /\ sess' \in [Callers -> 1..started \cup {None}]
          /\ \A q \in Callers : Settled(q)'
      BY <2>1, <2>2, <2>3, <2>4, <2>5, <2>6, Moved
    <2>8. status' \in [Rows -> Statuses \cup {"none", "deleted"}] /\ lock' \in [Sessions -> Callers \cup {None}]
      BY <1>12 DEF TypeOK, EndPrompt
    <2> QED BY <1>12, <2>7, <2>8 DEF TypeOK, Settled, RowUsers, SessionUsers, Holders, EndPrompt
  <1>13. CASE NoteUsage(r)
    <2>1. PICK l \in {"ended"} : pc' = [pc EXCEPT ![r] = l]
      BY <1>13 DEF NoteUsage
    <2>2. Settled(r)'
      BY <1>13, <2>1 DEF TypeOK, Settled, RowUsers, SessionUsers, Holders, NoteUsage
    <2>3. \A q \in Callers \ {r} : pc[q] \in Holders => lock'[sess[q]] = lock[sess[q]]
      BY <1>13 DEF TypeOK, Holders, NoteUsage
    <2>4. row' = row \/ (\E i \in Rows : row' = [row EXCEPT ![r] = i])
      BY <1>13 DEF TypeOK, NoteUsage
    <2>5. copy' = copy \/ (\E s \in Statuses : copy' = [copy EXCEPT ![r] = s])
      BY <1>13 DEF TypeOK, NoteUsage
    <2>6. sess' = sess \/ sess' = [sess EXCEPT ![r] = None] \/ (\E s \in 1..started : sess' = [sess EXCEPT ![r] = s])
      BY <1>13 DEF TypeOK, NoteUsage
    <2>7. /\ pc' \in [Callers -> Locations]
          /\ row' \in [Callers -> Rows \cup {None}] /\ copy' \in [Callers -> Statuses \cup {None}]
          /\ sess' \in [Callers -> 1..started \cup {None}]
          /\ \A q \in Callers : Settled(q)'
      BY <2>1, <2>2, <2>3, <2>4, <2>5, <2>6, Moved
    <2>8. status' \in [Rows -> Statuses \cup {"none", "deleted"}]
      <3>1. row[r] \in Rows /\ copy[r] \in Statuses
        BY <1>13 DEF TypeOK, NoteUsage
      <3> QED BY <1>13, <3>1, WriteType DEF TypeOK, NoteUsage
    <2>9. lock' \in [Sessions -> Callers \cup {None}]
      BY <1>13 DEF TypeOK, NoteUsage
    <2> QED BY <1>13, <2>7, <2>8, <2>9 DEF TypeOK, Settled, RowUsers, SessionUsers, Holders, NoteUsage
  <1>14. CASE GetMember(r)
    <2>1. PICK l \in {"taking"} : pc' = [pc EXCEPT ![r] = l]
      BY <1>14 DEF GetMember
    <2>2. Settled(r)'
      <3>1. pc'[r] = l
        BY <2>1 DEF TypeOK
      <3>2. l \in RowUsers => row'[r] # None /\ copy'[r] # None
        BY <1>14, <2>1, <3>1 DEF TypeOK, RowUsers, GetMember
      <3>3. l \in SessionUsers => sess'[r] # None
        BY <1>14, <2>1, <3>1 DEF TypeOK, SessionUsers, GetMember
      <3>4. l \in Holders => lock'[sess'[r]] = r
        BY <1>14, <2>1, <3>1 DEF TypeOK, Holders, GetMember
      <3> QED BY <3>1, <3>2, <3>3, <3>4 DEF Settled
    <2>3. \A q \in Callers \ {r} : pc[q] \in Holders => lock'[sess[q]] = lock[sess[q]]
      BY <1>14 DEF TypeOK, Holders, GetMember
    <2>4. row' = row \/ (\E i \in Rows : row' = [row EXCEPT ![r] = i])
      BY <1>14 DEF TypeOK, GetMember
    <2>5. copy' = copy \/ (\E s \in Statuses : copy' = [copy EXCEPT ![r] = s])
      BY <1>14 DEF TypeOK, GetMember
    <2>6. sess' = sess \/ sess' = [sess EXCEPT ![r] = None] \/ (\E s \in 1..started : sess' = [sess EXCEPT ![r] = s])
      BY <1>14 DEF TypeOK, GetMember
    <2>7. /\ pc' \in [Callers -> Locations]
          /\ row' \in [Callers -> Rows \cup {None}] /\ copy' \in [Callers -> Statuses \cup {None}]
          /\ sess' \in [Callers -> 1..started \cup {None}]
          /\ \A q \in Callers : Settled(q)'
      BY <2>1, <2>2, <2>3, <2>4, <2>5, <2>6, Moved
    <2>8. status' \in [Rows -> Statuses \cup {"none", "deleted"}] /\ lock' \in [Sessions -> Callers \cup {None}]
      BY <1>14 DEF TypeOK, GetMember
    <2> QED BY <1>14, <2>7, <2>8 DEF TypeOK, Settled, RowUsers, SessionUsers, Holders, GetMember
  <1>15. CASE TakeSession(r)
    <2>1. PICK l \in {"writing", "asking"} : pc' = [pc EXCEPT ![r] = l]
      BY <1>15 DEF TakeSession
    <2>2. Settled(r)'
      <3>1. pc'[r] = l
        BY <2>1 DEF TypeOK
      <3>2. l \in RowUsers => row'[r] # None /\ copy'[r] # None
        BY <1>15, <2>1, <3>1 DEF TypeOK, RowUsers, TakeSession
      <3>3. l \in SessionUsers => sess'[r] # None
        BY <1>15, <2>1, <3>1 DEF TypeOK, SessionUsers, TakeSession
      <3>4. l \in Holders => lock'[sess'[r]] = r
        BY <1>15, <2>1, <3>1 DEF TypeOK, Holders, TakeSession
      <3> QED BY <3>1, <3>2, <3>3, <3>4 DEF Settled
    <2>3. \A q \in Callers \ {r} : pc[q] \in Holders => lock'[sess[q]] = lock[sess[q]]
      BY <1>15 DEF TypeOK, Holders, TakeSession
    <2>4. row' = row \/ (\E i \in Rows : row' = [row EXCEPT ![r] = i])
      BY <1>15 DEF TypeOK, TakeSession
    <2>5. copy' = copy \/ (\E s \in Statuses : copy' = [copy EXCEPT ![r] = s])
      BY <1>15 DEF TypeOK, TakeSession
    <2>6. sess' = sess \/ sess' = [sess EXCEPT ![r] = None] \/ (\E s \in 1..started : sess' = [sess EXCEPT ![r] = s])
      BY <1>15 DEF TypeOK, TakeSession
    <2>7. /\ pc' \in [Callers -> Locations]
          /\ row' \in [Callers -> Rows \cup {None}] /\ copy' \in [Callers -> Statuses \cup {None}]
          /\ sess' \in [Callers -> 1..started \cup {None}]
          /\ \A q \in Callers : Settled(q)'
      BY <2>1, <2>2, <2>3, <2>4, <2>5, <2>6, Moved
    <2>8. status' \in [Rows -> Statuses \cup {"none", "deleted"}] /\ lock' \in [Sessions -> Callers \cup {None}]
      BY <1>15 DEF TypeOK, TakeSession
    <2> QED BY <1>15, <2>7, <2>8 DEF TypeOK, Settled, RowUsers, SessionUsers, Holders, TakeSession
  <1>16. CASE BeginLeave(r)
    <2>1. PICK l \in {"leaving"} : pc' = [pc EXCEPT ![r] = l]
      BY <1>16 DEF BeginLeave
    <2>2. Settled(r)'
      BY <1>16, <2>1 DEF TypeOK, Settled, RowUsers, SessionUsers, Holders, BeginLeave
    <2>3. \A q \in Callers \ {r} : pc[q] \in Holders => lock'[sess[q]] = lock[sess[q]]
      BY <1>16 DEF TypeOK, Holders, BeginLeave
    <2>4. row' = row \/ (\E i \in Rows : row' = [row EXCEPT ![r] = i])
      BY <1>16 DEF TypeOK, BeginLeave
    <2>5. copy' = copy \/ (\E s \in Statuses : copy' = [copy EXCEPT ![r] = s])
      BY <1>16 DEF TypeOK, BeginLeave
    <2>6. sess' = sess \/ sess' = [sess EXCEPT ![r] = None] \/ (\E s \in 1..started : sess' = [sess EXCEPT ![r] = s])
      BY <1>16 DEF TypeOK, BeginLeave
    <2>7. /\ pc' \in [Callers -> Locations]
          /\ row' \in [Callers -> Rows \cup {None}] /\ copy' \in [Callers -> Statuses \cup {None}]
          /\ sess' \in [Callers -> 1..started \cup {None}]
          /\ \A q \in Callers : Settled(q)'
      BY <2>1, <2>2, <2>3, <2>4, <2>5, <2>6, Moved
    <2>8. status' \in [Rows -> Statuses \cup {"none", "deleted"}] /\ lock' \in [Sessions -> Callers \cup {None}]
      BY <1>16 DEF TypeOK, BeginLeave
    <2>9. open' \in SUBSET (1..started) /\ closing' \in SUBSET (1..started)
      BY <1>16 DEF TypeOK, BeginLeave
    <2>10. started' = started /\ pooled' = pooled /\ recovers' = recovers /\ restarts' = restarts
      BY <1>16 DEF BeginLeave
    <2> QED BY <2>7, <2>8, <2>9, <2>10 DEF TypeOK, Settled, RowUsers, SessionUsers, Holders
  <1>17. CASE Leave(r)
    <2>1. PICK l \in {"writing", "ended"} : pc' = [pc EXCEPT ![r] = l]
      BY <1>17 DEF Leave
    <2>2. Settled(r)'
      <3>1. pc'[r] = l
        BY <2>1 DEF TypeOK
      <3>2. l \in RowUsers => row'[r] # None /\ copy'[r] # None
        BY <1>17, <2>1, <3>1 DEF TypeOK, RowUsers, Leave
      <3>3. l \in SessionUsers => sess'[r] # None
        BY <1>17, <2>1, <3>1 DEF TypeOK, SessionUsers, Leave
      <3>4. l \in Holders => lock'[sess'[r]] = r
        BY <1>17, <2>1, <3>1 DEF TypeOK, Holders, Leave
      <3> QED BY <3>1, <3>2, <3>3, <3>4 DEF Settled
    <2>3. \A q \in Callers \ {r} : pc[q] \in Holders => lock'[sess[q]] = lock[sess[q]]
      BY <1>17 DEF TypeOK, Holders, Leave
    <2>4. row' = row \/ (\E i \in Rows : row' = [row EXCEPT ![r] = i])
      BY <1>17 DEF TypeOK, Leave
    <2>5. copy' = copy \/ (\E s \in Statuses : copy' = [copy EXCEPT ![r] = s])
      BY <1>17 DEF TypeOK, Leave
    <2>6. sess' = sess \/ sess' = [sess EXCEPT ![r] = None] \/ (\E s \in 1..started : sess' = [sess EXCEPT ![r] = s])
      BY <1>17 DEF TypeOK, Leave
    <2>7. /\ pc' \in [Callers -> Locations]
          /\ row' \in [Callers -> Rows \cup {None}] /\ copy' \in [Callers -> Statuses \cup {None}]
          /\ sess' \in [Callers -> 1..started \cup {None}]
          /\ \A q \in Callers : Settled(q)'
      BY <2>1, <2>2, <2>3, <2>4, <2>5, <2>6, Moved
    <2>8. status' \in [Rows -> Statuses \cup {"none", "deleted"}] /\ lock' \in [Sessions -> Callers \cup {None}]
      BY <1>17 DEF TypeOK, Leave
    <2>9. open' \in SUBSET (1..started) /\ closing' \in SUBSET (1..started)
      BY <1>17 DEF TypeOK, Leave
    <2>10. started' = started /\ pooled' = pooled /\ recovers' = recovers /\ restarts' = restarts
      BY <1>17 DEF Leave
    <2> QED BY <2>7, <2>8, <2>9, <2>10 DEF TypeOK, Settled, RowUsers, SessionUsers, Holders
  <1>18. CASE WriteMember(r)
    <2>1. row[r] \in Rows /\ copy[r] \in Statuses
      BY <1>18 DEF TypeOK, WriteMember
    <2>2. status' \in [Rows -> Statuses \cup {"none", "deleted"}]
      BY <1>18, <2>1, WriteType DEF TypeOK, WriteMember
    <2> QED BY <1>18, <2>2 DEF TypeOK, WriteMember
  <1>19. CASE Cleanup(r)
    BY <1>19 DEF TypeOK, Cleanup
  <1>20. CASE CloseAll(r)
    BY <1>20 DEF TypeOK, CloseAll
  <1>21. CASE DeleteRows(r)
    BY <1>21 DEF TypeOK, DeleteRows
  <1> QED BY <1>1, <1>2, <1>3, <1>4, <1>5, <1>6, <1>7, <1>8, <1>9, <1>10, <1>11, <1>12, <1>13, <1>14, <1>15, <1>16, <1>17, <1>18, <1>19, <1>20, <1>21 DEF Call, Starts, Continues

LEMMA StepType == TypeOK /\ [Next]_vars => TypeOK'
  <1> SUFFICES ASSUME TypeOK, [Next]_vars PROVE TypeOK'
    OBVIOUS
  <1>1. CASE UNCHANGED vars
    BY <1>1 DEF TypeOK, vars, callVars
  <1>2. CASE Restart
    BY <1>2 DEF TypeOK, Restart, Locations
  <1>3. CASE \E r \in Callers : Call(r)
    BY <1>3, CallType
  <1> QED BY <1>1, <1>2, <1>3 DEF Next, Call

\* The state of the pool, the rows and the calls keeps its types, and who talks
\* to an agent holds the mutex of its session.
THEOREM ThreadsTypeCorrect == Spec => []TypeOK
  BY InitType, StepType, PTL DEF Spec

----------------------------------------------------------------------------
LEMMA CallPrompts ==
  ASSUME TypeOK, NoPromptWhileLeaving, NEW r \in Callers, Call(r) PROVE NoPromptWhileLeaving'
  <1>1. CASE InviteReads(r)
    BY <1>1 DEF TypeOK, NoPromptWhileLeaving, InviteReads
  <1>2. CASE Resume(r)
    BY <1>2 DEF TypeOK, NoPromptWhileLeaving, Resume
  <1>3. CASE CheckReady(r)
    BY <1>3 DEF TypeOK, NoPromptWhileLeaving, CheckReady
  <1>4. CASE AddMember(r)
    BY <1>4 DEF TypeOK, NoPromptWhileLeaving, AddMember
  <1>5. CASE Boot(r)
    BY <1>5 DEF TypeOK, NoPromptWhileLeaving, Boot
  <1>6. CASE BootFails(r)
    BY <1>6 DEF TypeOK, NoPromptWhileLeaving, BootFails
  <1>7. CASE PoolSession(r)
    BY <1>7 DEF TypeOK, NoPromptWhileLeaving, PoolSession
  <1>8. CASE Join(r)
    BY <1>8 DEF TypeOK, NoPromptWhileLeaving, Join
  <1>9. CASE Lookup(r)
    BY <1>9 DEF TypeOK, NoPromptWhileLeaving, Lookup
  <1>10. CASE Recover(r)
    BY <1>10 DEF TypeOK, NoPromptWhileLeaving, Recover
  <1>11. CASE BeginPrompt(r)
    BY <1>11 DEF TypeOK, NoPromptWhileLeaving, BeginPrompt
  <1>12. CASE EndPrompt(r)
    BY <1>12 DEF TypeOK, NoPromptWhileLeaving, EndPrompt
  <1>13. CASE NoteUsage(r)
    BY <1>13 DEF TypeOK, NoPromptWhileLeaving, NoteUsage
  <1>14. CASE GetMember(r)
    BY <1>14 DEF TypeOK, NoPromptWhileLeaving, GetMember
  <1>15. CASE TakeSession(r)
    BY <1>15 DEF TypeOK, NoPromptWhileLeaving, TakeSession
  <1>16. CASE BeginLeave(r)
    BY <1>16 DEF TypeOK, NoPromptWhileLeaving, BeginLeave
  <1>17. CASE Leave(r)
    BY <1>17 DEF TypeOK, NoPromptWhileLeaving, Leave
  <1>18. CASE WriteMember(r)
    BY <1>18 DEF TypeOK, NoPromptWhileLeaving, WriteMember
  <1>19. CASE Cleanup(r)
    BY <1>19 DEF TypeOK, NoPromptWhileLeaving, Cleanup
  <1>20. CASE CloseAll(r)
    BY <1>20 DEF TypeOK, NoPromptWhileLeaving, CloseAll
  <1>21. CASE DeleteRows(r)
    BY <1>21 DEF TypeOK, NoPromptWhileLeaving, DeleteRows
  <1> QED BY <1>1, <1>2, <1>3, <1>4, <1>5, <1>6, <1>7, <1>8, <1>9, <1>10, <1>11, <1>12, <1>13, <1>14, <1>15, <1>16, <1>17, <1>18, <1>19, <1>20, <1>21 DEF Call, Starts, Continues

LEMMA StepPrompts == TypeOK /\ NoPromptWhileLeaving /\ [Next]_vars => NoPromptWhileLeaving'
  <1> SUFFICES ASSUME TypeOK, NoPromptWhileLeaving, [Next]_vars PROVE NoPromptWhileLeaving'
    OBVIOUS
  <1>1. CASE UNCHANGED vars
    BY <1>1 DEF NoPromptWhileLeaving, vars, callVars
  <1>2. CASE Restart
    BY <1>2 DEF TypeOK, NoPromptWhileLeaving, Restart
  <1>3. CASE \E r \in Callers : Call(r)
    BY <1>3, CallPrompts
  <1> QED BY <1>1, <1>2, <1>3 DEF Next, Call

\* A call that prompts holds the mutex and has seen that the agent is not leaving;
\* who tells it to leave waits for the mutex first.
THEOREM NoPromptWhileLeavingCorrect == Spec => []NoPromptWhileLeaving
  <1>1. Init => NoPromptWhileLeaving
    BY DEF Init, NoPromptWhileLeaving
  <1> QED BY <1>1, InitType, StepType, StepPrompts, PTL DEF Spec

----------------------------------------------------------------------------
\* A session that is about to be closed is not pooled, and a booted one belongs
\* to the call that booted it and to nobody else yet.
Closers == {"asking", "leaving", "cleaning"}
PoolInv ==
  /\ PooledIsOpen
  /\ pooled # None => \A r \in Callers : pc[r] \in Closers => sess[r] # pooled
  /\ \A r \in Callers : pc[r] = "booted" =>
       /\ sess[r] \in open /\ sess[r] # pooled
       /\ \A q \in Callers \ {r} : pc[q] \in Closers \cup {"booted"} => sess[q] # sess[r]

LEMMA CallPool ==
  ASSUME TypeOK, PoolInv, NEW r \in Callers, Call(r) PROVE PoolInv'
  <1> USE DEF PooledIsOpen, Closers
  <1>1. CASE InviteReads(r)
    BY <1>1 DEF TypeOK, PoolInv, InviteReads
  <1>2. CASE Resume(r)
    BY <1>2 DEF TypeOK, PoolInv, Resume
  <1>3. CASE CheckReady(r)
    BY <1>3 DEF TypeOK, PoolInv, CheckReady
  <1>4. CASE AddMember(r)
    BY <1>4 DEF TypeOK, PoolInv, AddMember
  <1>5. CASE Boot(r)
    <2>1. started + 1 \notin 1..started /\ pc'[r] = "booted" /\ sess'[r] = started + 1 /\ pooled' = pooled
      BY <1>5 DEF TypeOK, Boot
    <2>2. \A q \in Callers \ {r} : pc'[q] = pc[q] /\ sess'[q] = sess[q] /\ sess[q] \in 1..started \cup {None}
      BY <1>5 DEF TypeOK, Boot
    <2>3. started + 1 \notin 1..started \cup {None} /\ pooled \in 1..started \cup {None}
      BY <1>5 DEF TypeOK, Boot
    <2>4. open \subseteq open' /\ started + 1 \in open'
      BY <1>5 DEF Boot
    <2> QED BY <2>1, <2>2, <2>3, <2>4 DEF PoolInv
  <1>6. CASE BootFails(r)
    BY <1>6 DEF TypeOK, PoolInv, BootFails
  <1>7. CASE PoolSession(r)
    BY <1>7 DEF TypeOK, PoolInv, PoolSession
  <1>8. CASE Join(r)
    BY <1>8 DEF TypeOK, PoolInv, Join
  <1>9. CASE Lookup(r)
    BY <1>9 DEF TypeOK, PoolInv, Lookup
  <1>10. CASE Recover(r)
    BY <1>10 DEF TypeOK, PoolInv, Recover
  <1>11. CASE BeginPrompt(r)
    BY <1>11 DEF TypeOK, PoolInv, BeginPrompt
  <1>12. CASE EndPrompt(r)
    BY <1>12 DEF TypeOK, PoolInv, EndPrompt
  <1>13. CASE NoteUsage(r)
    BY <1>13 DEF TypeOK, PoolInv, NoteUsage
  <1>14. CASE GetMember(r)
    BY <1>14 DEF TypeOK, PoolInv, GetMember
  <1>15. CASE TakeSession(r)
    BY <1>15 DEF TypeOK, PoolInv, TakeSession
  <1>16. CASE BeginLeave(r)
    BY <1>16 DEF TypeOK, PoolInv, BeginLeave
  <1>17. CASE Leave(r)
    BY <1>17 DEF TypeOK, PoolInv, Leave
  <1>18. CASE WriteMember(r)
    BY <1>18 DEF TypeOK, PoolInv, WriteMember
  <1>19. CASE Cleanup(r)
    BY <1>19 DEF TypeOK, PoolInv, Cleanup
  <1>20. CASE CloseAll(r)
    BY <1>20 DEF TypeOK, PoolInv, CloseAll
  <1>21. CASE DeleteRows(r)
    BY <1>21 DEF TypeOK, PoolInv, DeleteRows
  <1> QED BY <1>1, <1>2, <1>3, <1>4, <1>5, <1>6, <1>7, <1>8, <1>9, <1>10, <1>11, <1>12, <1>13, <1>14, <1>15, <1>16, <1>17, <1>18, <1>19, <1>20, <1>21 DEF Call, Starts, Continues

LEMMA StepPool == TypeOK /\ PoolInv /\ [Next]_vars => PoolInv'
  <1> SUFFICES ASSUME TypeOK, PoolInv, [Next]_vars PROVE PoolInv'
    OBVIOUS
  <1>1. CASE UNCHANGED vars
    BY <1>1 DEF PoolInv, PooledIsOpen, vars, callVars
  <1>2. CASE Restart
    BY <1>2 DEF TypeOK, PoolInv, PooledIsOpen, Closers, Restart
  <1>3. CASE \E r \in Callers : Call(r)
    BY <1>3, CallPool
  <1> QED BY <1>1, <1>2, <1>3 DEF Next, Call

\* Sessions leave the pool before they are closed, whatever calls overlap.
THEOREM PooledIsOpenCorrect == Spec => []PooledIsOpen
  <1>1. Init => PoolInv
    BY DEF Init, PoolInv, PooledIsOpen, Closers
  <1>2. PoolInv => PooledIsOpen
    BY DEF PoolInv
  <1> QED BY <1>1, <1>2, InitType, StepType, StepPool, PTL DEF Spec

----------------------------------------------------------------------------
\* Where a process of the agent can be lost.

\* In the pool, or in the hands of a call that will pool or close it.
Owned(s) ==
  \/ pooled = s
  \/ \E r \in Callers : sess[r] = s /\ pc[r] \in {"booted", "asking", "leaving", "cleaning"}
NoOrphan == \A s \in open : Owned(s)

\* The session of another boot is replaced; a row that has failed or left is removed
\* while the agent runs for a later one; the transition is refused after the session
\* has left the pool.
Displaces(r) == PoolSession(r) /\ pooled \in open \ {sess[r]}
RemovesStale(r) == TakeSession(r) /\ copy[r] \in {"failed", "left"} /\ pooled # None
LeavesOpen(r) == Leave(r) /\ sess[r] \in open'
Orphans(r) == Displaces(r) \/ RemovesStale(r) \/ LeavesOpen(r)

\* A step that moves one call, opens nothing and keeps what it owned owned.
LEMMA KeepsOwned ==
  ASSUME NEW r \in Callers, NoOrphan, open' \subseteq open,
         \A q \in Callers \ {r} : pc'[q] = pc[q] /\ sess'[q] = sess[q],
         \A s \in open' :
           \/ pooled = s
           \/ sess[r] = s /\ pc[r] \in {"booted", "asking", "leaving", "cleaning"}
           => \/ pooled' = s
              \/ sess'[r] = s /\ pc'[r] \in {"booted", "asking", "leaving", "cleaning"}
  PROVE  NoOrphan'
  BY DEF NoOrphan, Owned

LEMMA OthersStay ==
  ASSUME TypeOK, NEW r \in Callers, Call(r)
  PROVE  \A q \in Callers \ {r} : pc'[q] = pc[q] /\ sess'[q] = sess[q]
  BY DEF TypeOK, Call, Starts, Continues, InviteReads, Resume, CheckReady, AddMember, Boot,
     BootFails, PoolSession, Join, Lookup, Recover, BeginPrompt, EndPrompt, NoteUsage, GetMember,
     TakeSession, BeginLeave, Leave, WriteMember, Cleanup, CloseAll, DeleteRows

LEMMA CallOrphans ==
  ASSUME TypeOK, NoOrphan, NEW r \in Callers, Call(r), ~Orphans(r)
  PROVE  NoOrphan'
  <1>1. \A q \in Callers \ {r} : pc'[q] = pc[q] /\ sess'[q] = sess[q]
    BY OthersStay
  <1>2. CASE InviteReads(r) \/ Resume(r) \/ CheckReady(r) \/ AddMember(r)
    <2>1. open' = open /\ pooled' = pooled
          /\ pc[r] \notin {"booted", "asking", "leaving", "cleaning"}
      BY <1>2 DEF InviteReads, Resume, CheckReady, AddMember
    <2> QED BY <1>1, <2>1, KeepsOwned
  <1>3. CASE Boot(r)
    <2>1. open' = open \cup {started + 1} /\ pooled' = pooled /\ pc[r] = "booting"
      BY <1>3 DEF Boot
    <2>2. pc'[r] = "booted" /\ sess'[r] = started + 1
      BY <1>3 DEF Boot, TypeOK
    <2> QED BY <1>1, <2>1, <2>2 DEF NoOrphan, Owned
  <1>4. CASE BootFails(r) \/ Join(r) \/ Lookup(r) \/ Recover(r) \/ BeginPrompt(r) \/ EndPrompt(r)
             \/ NoteUsage(r) \/ GetMember(r) \/ WriteMember(r) \/ DeleteRows(r)
    <2>1. open' = open /\ pooled' = pooled
          /\ pc[r] \notin {"booted", "asking", "leaving", "cleaning"}
      BY <1>4 DEF BootFails, Join, Lookup, Recover, BeginPrompt, EndPrompt, NoteUsage,
         GetMember, WriteMember, DeleteRows
    <2> QED BY <1>1, <2>1, KeepsOwned
  <1>5. CASE PoolSession(r)
    <2>1. pooled' = sess[r] /\ open' = open /\ sess' = sess
      BY <1>5 DEF PoolSession
    <2>2. pooled \notin open \ {sess[r]}
      BY <1>5 DEF Orphans, Displaces
    <2> QED BY <1>1, <2>1, <2>2, KeepsOwned
  <1>6. CASE TakeSession(r)
    <2>1. open' = open /\ pooled' = None /\ pc[r] = "taking"
      BY <1>6 DEF TakeSession
    <2>2. None \notin open
      <3>1. open \subseteq 1..started /\ started \in 0..MaxSessions
        BY DEF TypeOK
      <3>2. \A n \in 1..started : n \in Nat
        BY <3>1
      <3> QED BY <3>1, <3>2, ThreadAssumption
    <2>3. CASE pooled = None
      BY <1>1, <2>1, <2>2, <2>3, KeepsOwned
    <2>4. CASE pooled # None
      <3>1. copy[r] \notin {"failed", "left"}
        BY <1>6, <2>4 DEF Orphans, RemovesStale
      <3>2. sess'[r] = pooled /\ pc'[r] = "asking"
        BY <1>6, <2>4, <3>1 DEF TakeSession, TypeOK
      <3> QED BY <1>1, <2>1, <3>2, KeepsOwned
    <2> QED BY <2>3, <2>4
  <1>7. CASE BeginLeave(r)
    <2>1. open' = open /\ pooled' = pooled /\ sess' = sess /\ pc'[r] = "leaving"
      BY <1>7 DEF BeginLeave, TypeOK
    <2> QED BY <1>1, <2>1, KeepsOwned
  <1>8. CASE Leave(r)
    <2>1. open' \subseteq open /\ pooled' = pooled /\ sess[r] \notin open'
      BY <1>8 DEF Leave, Orphans, LeavesOpen
    <2> QED BY <1>1, <2>1, KeepsOwned
  <1>9. CASE Cleanup(r)
    <2>1. open' = open /\ pc[r] = "idle" /\ pc'[r] = "cleaning" /\ sess'[r] = pooled
      BY <1>9 DEF Cleanup, TypeOK
    <2> QED BY <1>1, <2>1, KeepsOwned
  <1>10. CASE CloseAll(r)
    <2>1. open' = open \ {sess[r]} /\ pooled' = pooled
      BY <1>10 DEF CloseAll
    <2> QED BY <1>1, <2>1, KeepsOwned
  <1> QED BY <1>2, <1>3, <1>4, <1>5, <1>6, <1>7, <1>8, <1>9, <1>10 DEF Call, Starts, Continues

\* A process is lost in three places only, whatever invitations, prompts, removals,
\* cleanups and restarts overlap: when a boot puts its session over another's
\* (bootSession), when a membership that is over is removed while the agent runs for
\* another one, and when RemoveAgent returns the error of a refused transition.
OrphansOnlyThere == [][NoOrphan => NoOrphan' \/ \E r \in Callers : Orphans(r)]_vars

\* There is none to begin with, and every step that first makes one is of the three
\* kinds; without such steps every process is pooled or about to be pooled or closed
\* (ThreadSessionPool.sessions and its callers).
THEOREM ProcessesLostInThreePlaces ==
  /\ Spec => OrphansOnlyThere
  /\ Spec /\ [][\A r \in Callers : ~Orphans(r)]_vars => []NoOrphan
  <1>1. Init => NoOrphan
    BY DEF Init, NoOrphan
  <1>2. TypeOK /\ NoOrphan /\ [Next]_vars
        => NoOrphan' \/ \E r \in Callers : Orphans(r)
    <2> SUFFICES ASSUME TypeOK, NoOrphan, [Next]_vars, \A r \in Callers : ~Orphans(r)
                 PROVE  NoOrphan'
      OBVIOUS
    <2>1. CASE UNCHANGED vars
      BY <2>1 DEF NoOrphan, Owned, vars, callVars
    <2>2. CASE Restart
      BY <2>2 DEF NoOrphan, Restart
    <2>3. CASE \E r \in Callers : Call(r)
      BY <2>3, CallOrphans
    <2> QED BY <2>1, <2>2, <2>3 DEF Next, Call
  <1>3. TypeOK /\ [Next]_vars
        => [NoOrphan => NoOrphan' \/ \E r \in Callers : Orphans(r)]_vars
    BY <1>2
  <1>4. /\ TypeOK /\ NoOrphan /\ [Next]_vars /\ [\A r \in Callers : ~Orphans(r)]_vars
        => NoOrphan'
    <2>1. UNCHANGED vars => (NoOrphan <=> NoOrphan')
      BY DEF NoOrphan, Owned, vars, callVars
    <2> QED BY <1>2, <2>1
  <1>5. Spec => []TypeOK
    BY InitType, StepType, PTL DEF Spec
  <1>6. Spec => OrphansOnlyThere
    BY <1>3, <1>5, PTL DEF Spec, OrphansOnlyThere
  <1>7. Spec /\ [][\A r \in Callers : ~Orphans(r)]_vars => []NoOrphan
    BY <1>1, <1>4, <1>5, PTL DEF Spec
  <1> QED BY <1>6, <1>7
=============================================================================
