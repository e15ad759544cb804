------------------------- MODULE ConfigReloadProofs -------------------------
(***************************************************************************)
(* Proofs about the configuration at run time, for any number of calls and *)
(* any drivers: its state keeps its types, the newest snapshot wins, and   *)
(* the snapshot in use is that of the file unless an error is reported.    *)
(***************************************************************************)
EXTENDS ConfigReload, TLAPS

USE ConfigAssumption DEF Versions, Actors, Goto, fileVars, snapshotVars, callVars

LEMMA EmptyType == Empty \in Contents
  BY DEF Empty, Contents

LEMMA InitType == Init => TypeOK
  <1> SUFFICES ASSUME Init PROVE TypeOK
    OBVIOUS
  <1>1. file \in Contents
    BY DEF Init
  <1>2. built \in [Versions -> Contents] /\ shown \in [Versions -> Contents]
    BY <1>1, EmptyType DEF Init
  <1>3. text \in [Calls -> Contents] /\ saved \in [Calls -> Contents]
    BY EmptyType DEF Init
  <1>4. alias \in [Calls -> 1..versions \cup {None}] /\ pc \in [Actors -> Locations]
    BY DEF Init, Locations
  <1>5. snap \in [Actors -> 1..versions \cup {None}]
    BY DEF Init
  <1>6. versions \in Versions /\ current \in 1..versions /\ edits \in 0..MaxEdits
    BY DEF Init
  <1>7. \A a \in Actors : pc[a] = "idle"
    BY DEF Init
  <1>8. event \in BOOLEAN /\ failed \in BOOLEAN /\ lock \in Actors \cup {None}
    BY DEF Init
  <1> QED BY <1>1, <1>2, <1>3, <1>4, <1>5, <1>6, <1>7, <1>8 DEF TypeOK

LEMMA CallType ==
  ASSUME TypeOK, NEW c \in Calls, Call(c) PROVE TypeOK'
  <1>1. CASE AddOrDelete(c)
    <2>1. shown[current] \in Contents
      BY DEF TypeOK
    <2>2. PICK d \in Drivers, x \in {"absent", "good", "secret", "bad"} :
            text' = [text EXCEPT ![c] = [shown[current] EXCEPT ![d] = x]]
      BY <1>1 DEF AddOrDelete
    <2>3. [shown[current] EXCEPT ![d] = x] \in Contents
      BY <2>1 DEF Contents
    <2>4. text' \in [Calls -> Contents]
      BY <2>2, <2>3 DEF TypeOK
    <2> QED BY <1>1, <2>4 DEF TypeOK, Locations, AddOrDelete
  <1>2. CASE Assign(c)
    <2>1. shown[current] \in Contents
      BY DEF TypeOK
    <2>2. PICK d \in Drivers, x \in {"good", "secret", "bad"} :
            shown' = [shown EXCEPT ![current] = [@ EXCEPT ![d] = x]]
      BY <1>2 DEF Assign
    <2>3. [shown[current] EXCEPT ![d] = x] \in Contents
      BY <2>1 DEF Contents
    <2>4. shown' \in [Versions -> Contents]
      BY <2>2, <2>3 DEF TypeOK
    <2>5. alias' \in [Calls -> 1..versions \cup {None}] /\ alias'[c] = current /\ current # None
      BY <1>2 DEF TypeOK, Assign
    <2> QED BY <1>2, <2>4, <2>5 DEF TypeOK, Locations, Assign
  <1>3. CASE Touch(c)
    BY <1>3 DEF TypeOK, Locations, Touch
  <1>4. CASE Clone(c)
    BY <1>4 DEF TypeOK, Locations, Clone
  <1>5. CASE Refuse(c)
    BY <1>5 DEF TypeOK, Locations, Refuse
  <1>6. CASE Lock(c)
    BY <1>6 DEF TypeOK, Locations, Lock
  <1>7. CASE Write(c)
    BY <1>7 DEF TypeOK, Locations, Write
  <1>8. CASE Undo(c)
    BY <1>8 DEF TypeOK, Locations, Undo
  <1> QED BY <1>1, <1>2, <1>3, <1>4, <1>5, <1>6, <1>7, <1>8 DEF Call

LEMMA LoadsType ==
  ASSUME TypeOK, NEW a \in Actors, Loads(a) PROVE TypeOK'
  <1>1. CASE Build(a)
    BY <1>1 DEF TypeOK, Locations, Build
  <1>2. CASE Store(a)
    BY <1>2 DEF TypeOK, Locations, Store
  <1>3. CASE BuildFails(a)
    BY <1>3 DEF TypeOK, Locations, BuildFails
  <1> QED BY <1>1, <1>2, <1>3 DEF Loads

LEMMA StepType == TypeOK /\ [Next]_vars => TypeOK'
  <1> SUFFICES ASSUME TypeOK, [Next]_vars PROVE TypeOK'
    OBVIOUS
  <1>1. CASE UNCHANGED vars
    BY <1>1 DEF TypeOK, Locations, vars
  <1>2. CASE Edit
    BY <1>2 DEF TypeOK, Locations, Edit
  <1>3. CASE Watch
    BY <1>3 DEF TypeOK, Locations, Watch
  <1>4. CASE \E a \in Actors : Loads(a)
    BY <1>4, LoadsType
  <1>5. CASE \E c \in Calls : Call(c)
    BY <1>5, CallType
  <1> QED BY <1>1, <1>2, <1>3, <1>4, <1>5 DEF Next

\* The driver, profile and configuration calls, and the watcher, keep the state
\* within its types, and whoever stores has built a snapshot.
THEOREM ConfigTypeCorrect == Spec => []TypeOK
  BY InitType, StepType, PTL DEF Spec

----------------------------------------------------------------------------
\* reloadMu: what is between the read of the file and the store is done by one.
Mutex == \A a \in Actors : lock = a <=> pc[a] \in AtWork

\* What is to be stored is the last snapshot that was built, and it was built from
\* the file as it is, unless a change has been noticed since.
Fresh ==
  \A a \in Actors :
    pc[a] \in {"storing", "restoring"} =>
      snap[a] = versions /\ (event \/ built[snap[a]] = file)

LEMMA CallMutex ==
  ASSUME TypeOK, Mutex, NEW c \in Calls, Call(c) PROVE Mutex'
  <1>1. CASE AddOrDelete(c)
    BY <1>1 DEF TypeOK, Mutex, AtWork, AddOrDelete
  <1>2. CASE Assign(c)
    BY <1>2 DEF TypeOK, Mutex, AtWork, Assign
  <1>3. CASE Touch(c)
    BY <1>3 DEF TypeOK, Mutex, AtWork, Touch
  <1>4. CASE Clone(c)
    BY <1>4 DEF TypeOK, Mutex, AtWork, Clone
  <1>5. CASE Refuse(c)
    BY <1>5 DEF TypeOK, Mutex, AtWork, Refuse
  <1>6. CASE Lock(c)
    BY <1>6 DEF TypeOK, Mutex, AtWork, Lock
  <1>7. CASE Write(c)
    BY <1>7 DEF TypeOK, Mutex, AtWork, Write
  <1>8. CASE Undo(c)
    BY <1>8 DEF TypeOK, Mutex, AtWork, Undo
  <1> QED BY <1>1, <1>2, <1>3, <1>4, <1>5, <1>6, <1>7, <1>8 DEF Call

LEMMA LoadsMutex ==
  ASSUME TypeOK, Mutex, NEW a \in Actors, Loads(a) PROVE Mutex'
  <1>1. CASE Build(a)
    BY <1>1 DEF TypeOK, Mutex, AtWork, Build
  <1>2. CASE Store(a)
    BY <1>2 DEF TypeOK, Mutex, AtWork, Store
  <1>3. CASE BuildFails(a)
    BY <1>3 DEF TypeOK, Mutex, AtWork, BuildFails
  <1> QED BY <1>1, <1>2, <1>3 DEF Loads

LEMMA StepMutex == TypeOK /\ Mutex /\ [Next]_vars => Mutex'
  <1> SUFFICES ASSUME TypeOK, Mutex, [Next]_vars PROVE Mutex'
    OBVIOUS
  <1>1. CASE UNCHANGED vars
    BY <1>1 DEF TypeOK, Mutex, AtWork, vars
  <1>2. CASE Edit
    BY <1>2 DEF TypeOK, Mutex, AtWork, Edit
  <1>3. CASE Watch
    BY <1>3 DEF TypeOK, Mutex, AtWork, Watch
  <1>4. CASE \E a \in Actors : Loads(a)
    BY <1>4, LoadsMutex
  <1>5. CASE \E c \in Calls : Call(c)
    BY <1>5, CallMutex
  <1> QED BY <1>1, <1>2, <1>3, <1>4, <1>5 DEF Next

LEMMA CallFresh ==
  ASSUME TypeOK, Mutex, Fresh, NEW c \in Calls, Call(c) PROVE Fresh'
  <1>1. CASE AddOrDelete(c)
    BY <1>1 DEF TypeOK, Mutex, Fresh, AtWork, AddOrDelete
  <1>2. CASE Assign(c)
    BY <1>2 DEF TypeOK, Mutex, Fresh, AtWork, Assign
  <1>3. CASE Touch(c)
    BY <1>3 DEF TypeOK, Mutex, Fresh, AtWork, Touch
  <1>4. CASE Clone(c)
    BY <1>4 DEF TypeOK, Mutex, Fresh, AtWork, Clone
  <1>5. CASE Refuse(c)
    BY <1>5 DEF TypeOK, Mutex, Fresh, AtWork, Refuse
  <1>6. CASE Lock(c)
    BY <1>6 DEF TypeOK, Mutex, Fresh, AtWork, Lock
  <1>7. CASE Write(c)
    BY <1>7 DEF TypeOK, Mutex, Fresh, AtWork, Write
  <1>8. CASE Undo(c)
    BY <1>8 DEF TypeOK, Mutex, Fresh, AtWork, Undo
  <1> QED BY <1>1, <1>2, <1>3, <1>4, <1>5, <1>6, <1>7, <1>8 DEF Call

LEMMA LoadsFresh ==
  ASSUME TypeOK, Mutex, Fresh, NEW a \in Actors, Loads(a) PROVE Fresh'
  <1>1. CASE Build(a)
    BY <1>1 DEF TypeOK, Mutex, Fresh, AtWork, Build
  <1>2. CASE Store(a)
    BY <1>2 DEF TypeOK, Mutex, Fresh, AtWork, Store
  <1>3. CASE BuildFails(a)
    BY <1>3 DEF TypeOK, Mutex, Fresh, AtWork, BuildFails
  <1> QED BY <1>1, <1>2, <1>3 DEF Loads

LEMMA StepFresh == TypeOK /\ Mutex /\ Fresh /\ [Next]_vars => Fresh'
  <1> SUFFICES ASSUME TypeOK, Mutex, Fresh, [Next]_vars PROVE Fresh'
    OBVIOUS
  <1>1. CASE UNCHANGED vars
    BY <1>1 DEF TypeOK, Mutex, Fresh, AtWork, vars
  <1>2. CASE Edit
    BY <1>2 DEF TypeOK, Mutex, Fresh, AtWork, Edit
  <1>3. CASE Watch
    BY <1>3 DEF TypeOK, Mutex, Fresh, AtWork, Watch
  <1>4. CASE \E a \in Actors : Loads(a)
    BY <1>4, LoadsFresh
  <1>5. CASE \E c \in Calls : Call(c)
    BY <1>5, CallFresh
  <1> QED BY <1>1, <1>2, <1>3, <1>4, <1>5 DEF Next

LEMMA CallSync ==
  ASSUME TypeOK, Mutex, Fresh, InSyncOrReported, NEW c \in Calls, Call(c) PROVE InSyncOrReported'
  <1>1. CASE AddOrDelete(c)
    BY <1>1 DEF TypeOK, Mutex, Fresh, InSyncOrReported, AtWork, AddOrDelete
  <1>2. CASE Assign(c)
    BY <1>2 DEF TypeOK, Mutex, Fresh, InSyncOrReported, AtWork, Assign
  <1>3. CASE Touch(c)
    BY <1>3 DEF TypeOK, Mutex, Fresh, InSyncOrReported, AtWork, Touch
  <1>4. CASE Clone(c)
    BY <1>4 DEF TypeOK, Mutex, Fresh, InSyncOrReported, AtWork, Clone
  <1>5. CASE Refuse(c)
    BY <1>5 DEF TypeOK, Mutex, Fresh, InSyncOrReported, AtWork, Refuse
  <1>6. CASE Lock(c)
    BY <1>6 DEF TypeOK, Mutex, Fresh, InSyncOrReported, AtWork, Lock
  <1>7. CASE Write(c)
    BY <1>7 DEF TypeOK, Mutex, Fresh, InSyncOrReported, AtWork, Write
  <1>8. CASE Undo(c)
    BY <1>8 DEF TypeOK, Mutex, Fresh, InSyncOrReported, AtWork, Undo
  <1> QED BY <1>1, <1>2, <1>3, <1>4, <1>5, <1>6, <1>7, <1>8 DEF Call

LEMMA LoadsSync ==
  ASSUME TypeOK, Mutex, Fresh, InSyncOrReported, NEW a \in Actors, Loads(a) PROVE InSyncOrReported'
  <1>1. CASE Build(a)
    BY <1>1 DEF TypeOK, Mutex, Fresh, InSyncOrReported, AtWork, Build
  <1>2. CASE Store(a)
    BY <1>2 DEF TypeOK, Mutex, Fresh, InSyncOrReported, AtWork, Store
  <1>3. CASE BuildFails(a)
    BY <1>3 DEF TypeOK, Mutex, Fresh, InSyncOrReported, AtWork, BuildFails
  <1> QED BY <1>1, <1>2, <1>3 DEF Loads

LEMMA StepSync == TypeOK /\ Mutex /\ Fresh /\ InSyncOrReported /\ [Next]_vars => InSyncOrReported'
  <1> SUFFICES ASSUME TypeOK, Mutex, Fresh, InSyncOrReported, [Next]_vars PROVE InSyncOrReported'
    OBVIOUS
  <1>1. CASE UNCHANGED vars
    BY <1>1 DEF TypeOK, Mutex, Fresh, InSyncOrReported, AtWork, vars
  <1>2. CASE Edit
    BY <1>2 DEF TypeOK, Mutex, Fresh, InSyncOrReported, AtWork, Edit
  <1>3. CASE Watch
    BY <1>3 DEF TypeOK, Mutex, Fresh, InSyncOrReported, AtWork, Watch
  <1>4. CASE \E a \in Actors : Loads(a)
    BY <1>4, LoadsSync
  <1>5. CASE \E c \in Calls : Call(c)
    BY <1>5, CallSync
  <1> QED BY <1>1, <1>2, <1>3, <1>4, <1>5 DEF Next

ConfigInv == TypeOK /\ Mutex /\ Fresh /\ InSyncOrReported

LEMMA ConfigInvariant == Spec => []ConfigInv
  <1>1. Init => ConfigInv
    <2>1. Init => Mutex /\ Fresh /\ InSyncOrReported
      BY DEF Init, Mutex, Fresh, InSyncOrReported, AtWork
    <2> QED BY <2>1, InitType DEF ConfigInv
  <1>2. ConfigInv /\ [Next]_vars => ConfigInv'
    BY StepType, StepMutex, StepFresh, StepSync DEF ConfigInv
  <1> QED BY <1>1, <1>2, PTL DEF Spec

\* Whoever edits the file and whichever write is undone: when all is quiet, the
\* snapshot in use is that of the file, or status.LastError says that it is not.
THEOREM InSyncCorrect == Spec => []InSyncOrReported
  BY ConfigInvariant, PTL DEF ConfigInv

LEMMA StoreNewest ==
  ASSUME TypeOK, Fresh, NEW a \in Actors, Store(a) PROVE current' >= current
  <1>1. snap[a] = versions /\ current \in 1..versions /\ versions \in Nat
    BY DEF Store, TypeOK, Fresh
  <1> QED BY <1>1 DEF Store

\* m.current only moves on: a reload of the watcher and the write of a call never
\* store their snapshots in another order than they were built.
THEOREM NewestWinsCorrect == Spec => NewestWins
  <1>1. ConfigInv /\ [Next]_vars => [current' >= current]_vars
    <2> SUFFICES ASSUME ConfigInv, Next PROVE current' >= current
      BY DEF vars
    <2>1. current \in Nat
      BY DEF ConfigInv, TypeOK
    <2>2. CASE \E a \in Actors : Store(a)
      BY <2>2, StoreNewest DEF ConfigInv
    <2>3. CASE current' = current
      BY <2>1, <2>3
    <2>4. Next => current' = current \/ \E a \in Actors : Store(a)
      BY DEF Next, Call, Loads, Edit, Watch, Build, BuildFails, AddOrDelete, Assign, Touch,
             Clone, Refuse, Lock, Write, Undo
    <2> QED BY <2>2, <2>3, <2>4
  <1> QED BY <1>1, ConfigInvariant, PTL DEF Spec, NewestWins
=============================================================================
