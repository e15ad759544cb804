---------------------------- MODULE ConfigReload ----------------------------
(***************************************************************************)
(* The configuration at run time (platform/configruntime/manager.go):      *)
(* config.toml, the snapshots built from it, the calls that change a       *)
(* driver or a profile and write the file back, an editor that changes the *)
(* file by hand, and the watcher that reloads it.  A configuration is the  *)
(* state of its drivers; TOML, secrets and the derived MCP servers are     *)
(* left out but for whether they let a snapshot be built.                  *)
(***************************************************************************)
EXTENDS Naturals

CONSTANTS
  Calls,         \* concurrent create, update and delete requests
  Drivers,
  MaxVersions,   \* bound: snapshots built
  MaxEdits,      \* bound: edits by hand
  Watcher, None

Versions == 1..MaxVersions

ASSUME ConfigAssumption ==
  /\ MaxVersions \in Nat \ {0} /\ MaxEdits \in Nat
  /\ Watcher \notin Calls /\ None \notin Calls \cup {Watcher} \cup Nat

\* "bad" is refused by config.LoadGlobal; "secret" refers to a token that is not
\* there, which only building a snapshot finds out.
Contents == [Drivers -> {"absent", "good", "secret", "bad"}]
Valid(f) == \A d \in Drivers : f[d] # "bad"
Loadable(f) == \A d \in Drivers : f[d] \notin {"bad", "secret"}

VARIABLES
  file,      \* config.toml
  event,     \* the watcher has been told of a change and its timer is set
  built,     \* built[v]: the contents snapshot v was built from
  shown,     \* shown[v]: the drivers its Config has now
  versions,  \* m.nextVersion
  current,   \* m.current
  failed,    \* status.LastError is set
  lock,      \* reloadMu: a call, the watcher, or None
  pc,
  alias,     \* alias[c]: the snapshot whose slice the call works on
  text,      \* text[c]: what it is going to write
  saved,     \* saved[c]: the file before it wrote
  snap,      \* snap[a]: the snapshot a has built and not stored
  edits

fileVars == <<file, event, edits>>
snapshotVars == <<built, shown, versions, current, snap>>
callVars == <<alias, text, saved>>
vars == <<fileVars, snapshotVars, failed, lock, pc, callVars>>

Empty == [d \in Drivers |-> "absent"]
Actors == Calls \cup {Watcher}

\* NewManager has loaded the first snapshot and Start has the watcher going.
Init ==
  /\ file \in {f \in Contents : \A d \in Drivers : f[d] \in {"absent", "good"}}
  /\ event = FALSE /\ edits = 0
  /\ built = [v \in Versions |-> IF v = 1 THEN file ELSE Empty] /\ shown = built
  /\ versions = 1 /\ current = 1 /\ snap = [a \in Actors |-> None]
  /\ failed = FALSE /\ lock = None
  /\ pc = [a \in Actors |-> "idle"]
  /\ alias = [c \in Calls |-> None]
  /\ text = [c \in Calls |-> Empty] /\ saved = [c \in Calls |-> Empty]

Goto(a, l) == pc' = [pc EXCEPT ![a] = l]

----------------------------------------------------------------------------
(* CreateDriverConfig, UpdateDriverConfig and DeleteDriverConfig; the      *)
(* profiles, the language models and the sandbox are changed the same way. *)

\* GetRuntime copies the structure and not the slices.  Create appends, at most
\* into capacity beyond what the snapshot's readers see; Delete fills another slice.
AddOrDelete(c) ==
  /\ pc[c] = "idle"
  /\ \E d \in Drivers, x \in {"absent", "good", "secret", "bad"} :
       /\ (shown[current][d] = "absent") # (x = "absent")
       /\ text' = [text EXCEPT ![c] = [shown[current] EXCEPT ![d] = x]]
  /\ Goto(c, "locking")
  /\ UNCHANGED <<fileVars, snapshotVars, failed, lock, alias, saved>>

\* Update assigns to an element of the slice the snapshot has.
Assign(c) ==
  /\ pc[c] = "idle"
  /\ \E d \in Drivers, x \in {"good", "secret", "bad"} :
       /\ shown[current][d] # "absent"
       /\ shown' = [shown EXCEPT ![current] = [@ EXCEPT ![d] = x]]
  /\ alias' = [alias EXCEPT ![c] = current]
  /\ Goto(c, "cloning")
  /\ UNCHANGED <<fileVars, built, versions, current, snap, failed, lock, text, saved>>

\* A change of another section: the drivers are those of the snapshot.
Touch(c) ==
  /\ pc[c] = "idle"
  /\ alias' = [alias EXCEPT ![c] = current] /\ Goto(c, "cloning")
  /\ UNCHANGED <<fileVars, snapshotVars, failed, lock, text, saved>>

\* UpdateRuntime: what the slice holds by now goes into the text.
Clone(c) ==
  /\ pc[c] = "cloning"
  /\ text' = [text EXCEPT ![c] = shown[alias[c]]]
  /\ alias' = [alias EXCEPT ![c] = None] /\ Goto(c, "locking")
  /\ UNCHANGED <<fileVars, snapshotVars, failed, lock, saved>>

----------------------------------------------------------------------------
(* WriteRaw and reloadLocked. *)

\* The text is not valid: nothing is written.
Refuse(c) ==
  /\ pc[c] = "locking" /\ lock = None /\ ~Valid(text[c])
  /\ failed' = TRUE /\ Goto(c, "refused")
  /\ UNCHANGED <<fileVars, snapshotVars, lock, callVars>>

Lock(c) ==
  /\ pc[c] = "locking" /\ lock = None /\ Valid(text[c])
  /\ lock' = c /\ saved' = [saved EXCEPT ![c] = file] /\ Goto(c, "writing")
  /\ UNCHANGED <<fileVars, snapshotVars, failed, alias, text>>

Write(c) ==
  /\ pc[c] = "writing"
  /\ file' = text[c] /\ event' = TRUE /\ Goto(c, "loading")
  /\ UNCHANGED <<edits, snapshotVars, failed, lock, callVars>>

\* buildSnapshotFromPaths; m.current is not changed before onReload has returned.
Build(a) ==
  /\ pc[a] \in {"loading", "rolling"} /\ Loadable(file) /\ versions < MaxVersions
  /\ versions' = versions + 1 /\ snap' = [snap EXCEPT ![a] = versions + 1]
  /\ built' = [built EXCEPT ![versions + 1] = file]
  /\ shown' = [shown EXCEPT ![versions + 1] = file]
  /\ Goto(a, IF pc[a] = "loading" THEN "storing" ELSE "restoring")
  /\ UNCHANGED <<fileVars, current, failed, lock, callVars>>

\* m.current.Store, setSuccess and unlock; after a rollback the call has failed.
Store(a) ==
  /\ pc[a] \in {"storing", "restoring"}
  /\ current' = snap[a] /\ snap' = [snap EXCEPT ![a] = None] /\ failed' = FALSE /\ lock' = None
  /\ Goto(a, IF a = Watcher THEN "idle" ELSE IF pc[a] = "storing" THEN "done" ELSE "refused")
  /\ UNCHANGED <<fileVars, built, shown, versions, callVars>>

BuildFailsSilently(a) ==   \* (mutant) reloadLocked returns its error and does not note it
  /\ pc[a] \in {"loading", "rolling"} /\ ~Loadable(file)
  /\ IF a = Watcher \/ pc[a] = "rolling"
       THEN lock' = None /\ Goto(a, IF a = Watcher THEN "idle" ELSE "refused")
       ELSE UNCHANGED lock /\ Goto(a, "undoing")
  /\ UNCHANGED <<fileVars, snapshotVars, failed, callVars>>

BuildFailsStores(a) ==   \* (mutant) reloadLocked goes on after its error
  /\ pc[a] \in {"loading", "rolling"} /\ ~Loadable(file)
  /\ failed' = TRUE /\ Goto(a, IF pc[a] = "loading" THEN "storing" ELSE "restoring")
  /\ UNCHANGED <<fileVars, snapshotVars, lock, callVars>>

\* setError; a write is undone, a failed reload or rollback leaves things as they are.
BuildFails(a) ==
  /\ pc[a] \in {"loading", "rolling"} /\ ~Loadable(file)
  /\ failed' = TRUE
  /\ IF a = Watcher \/ pc[a] = "rolling"
       THEN lock' = None /\ Goto(a, IF a = Watcher THEN "idle" ELSE "refused")
       ELSE UNCHANGED lock /\ Goto(a, "undoing")
  /\ UNCHANGED <<fileVars, snapshotVars, callVars>>

\* The file gets its old contents, whoever has changed it since.
Undo(c) ==
  /\ pc[c] = "undoing"
  /\ file' = saved[c] /\ event' = TRUE /\ Goto(c, "rolling")
  /\ UNCHANGED <<edits, snapshotVars, failed, lock, callVars>>

----------------------------------------------------------------------------
\* Somebody edits the file; the directory is watched.
Edit ==
  /\ edits < MaxEdits /\ edits' = edits + 1
  /\ file' \in Contents /\ file' # file
  /\ event' = TRUE
  /\ UNCHANGED <<snapshotVars, failed, lock, pc, callVars>>

WatchUnlocked ==   \* (mutant) the watcher reloads without the mutex
  /\ pc[Watcher] = "idle" /\ event
  /\ event' = FALSE /\ Goto(Watcher, "loading")
  /\ UNCHANGED <<file, edits, lock, snapshotVars, failed, callVars>>

\* The debounce timer of watchLoop: Reload.
Watch ==
  /\ pc[Watcher] = "idle" /\ event /\ lock = None
  /\ event' = FALSE /\ lock' = Watcher /\ Goto(Watcher, "loading")
  /\ UNCHANGED <<file, edits, snapshotVars, failed, callVars>>

----------------------------------------------------------------------------
Call(c) ==
  \/ AddOrDelete(c) \/ Assign(c) \/ Touch(c) \/ Clone(c)
  \/ Refuse(c) \/ Lock(c) \/ Write(c) \/ Undo(c)
Loads(a) == Build(a) \/ Store(a) \/ BuildFails(a)

Next == Edit \/ Watch \/ (\E a \in Actors : Loads(a)) \/ \E c \in Calls : Call(c)

Spec == Init /\ [][Next]_vars

----------------------------------------------------------------------------
Locations ==
  {"idle", "cloning", "locking", "writing", "loading", "storing", "undoing", "rolling",
   "restoring", "done", "refused"}

\* Inside WriteRaw or reloadLocked.
AtWork == {"writing", "loading", "storing", "undoing", "rolling", "restoring"}

\* Types; who stores has a snapshot.
TypeOK ==
  /\ file \in Contents /\ event \in BOOLEAN /\ edits \in 0..MaxEdits
  /\ built \in [Versions -> Contents] /\ shown \in [Versions -> Contents]
  /\ versions \in Versions /\ current \in 1..versions /\ snap \in [Actors -> 1..versions \cup {None}]
  /\ failed \in BOOLEAN /\ lock \in Actors \cup {None}
  /\ pc \in [Actors -> Locations]
  /\ alias \in [Calls -> 1..versions \cup {None}]
  /\ text \in [Calls -> Contents] /\ saved \in [Calls -> Contents]
  /\ \A a \in Actors : pc[a] \in {"storing", "restoring"} => snap[a] # None
  /\ \A c \in Calls : pc[c] = "cloning" => alias[c] # None

\* When nobody is at work and no change is waiting to be noticed, the snapshot in
\* use was built from the file as it is, or the status tells that it was not.
InSyncOrReported ==
  ~event /\ (\A a \in Actors : pc[a] \notin AtWork) => built[current] = file \/ failed

\* A snapshot is never replaced by one that was built before it, whichever of the
\* watcher and the calls builds first and stores last.
NewestWins == [][current' >= current]_vars

----------------------------------------------------------------------------
\* "RejectsInvalidAndKeepsCurrent" (configruntime/manager_test.go:13): what the
\* readers of the current snapshot see is what it was built from.  Expected to
\* fail: UpdateDriverConfig assigns to the snapshot before anything is validated.
CurrentIsKept == shown[current] = built[current]
=============================================================================
