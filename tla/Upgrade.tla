------------------------------ MODULE Upgrade ------------------------------
(***************************************************************************)
(* The tasks of the GUI that change or run the COSMOS install: install,    *)
(* run, stop and upgrade (run, stop and upgrade_cosmos in src/commands.rs, *)
(* cosmos and setup_cosmos in src/install.rs), one at a time (run_task).   *)
(*                                                                         *)
(* The folder is replaced entry by entry: compose.yaml, which makes it an  *)
(* installed one, and .env, which names its version; the rest behaves as   *)
(* the latter.  The user's files, which an upgrade carries across, are one *)
(* revision, 0 if there is none.                                           *)
(***************************************************************************)
EXTENDS Integers, FiniteSets

CONSTANTS
  Editions,
  Newest,       (* bound: the last release of each edition                    *)
  MaxFaults,    (* bound: failed downloads, file operations and commands      *)
  MaxTasks,     (* bound: tasks the user starts                               *)
  MaxEnds,      (* bound: ends of the app                                     *)
  MaxEdits      (* bound: revisions of the user's files                       *)

ASSUME UpgradeAssumption ==
  /\ Newest \in [Editions -> Nat \ {0}]
  /\ {MaxFaults, MaxTasks, MaxEnds, MaxEdits} \subseteq Nat

VARIABLES
  published,    (* the newest release of each edition                         *)
  folder,       (* the release each entry of the install belongs to           *)
  local,        (* .env.local and compose.override.yaml                       *)
  containers,   (* the release COSMOS runs                                    *)
  task,         (* the running task and where it is                           *)
  faults, tasks, ends,
  edited        (* history: the user's files as the user last left them       *)

disk   == <<folder, local, containers>>
bounds == <<tasks, ends>>
vars   == <<published, disk, task, faults, bounds, edited>>

Entries == {"compose.yaml", ".env"}

\* A release: its edition and version.
None     == [edition |-> "none", version |-> 0]
Versions == UNION {1..Newest[e] : e \in Editions}
Releases == [edition : Editions, version : Versions]

\* dev is its copy of the context's development folder being set, kept what an
\* upgrade read into memory, todo what is still to be moved.
Idle == [kind |-> "none", step |-> "none", release |-> None, dev |-> FALSE, kept |-> 0, todo |-> {}]
Task ==
  [kind    : {"none", "install", "run", "stop", "upgrade"},
   step    : {"none", "read", "stop", "wipe", "check", "download", "move", "setup", "restore", "up"},
   release : Releases \cup {None},
   dev     : BOOLEAN,
   kept    : Nat,
   todo    : SUBSET Entries]

UpgradeTypeOK ==
  /\ published \in [Editions -> Versions]
  /\ folder \in [Entries -> Releases \cup {None}]
  /\ local \in Nat
  /\ containers \in Releases \cup {None}
  /\ task \in Task
  /\ task.kind = "none" <=> task.step = "none"
  /\ task.todo # {} <=> task.step = "move"
  /\ faults \in 0..MaxFaults /\ tasks \in 0..MaxTasks /\ ends \in 0..MaxEnds
  /\ edited \in 0..MaxEdits

\* COSMOS may have been installed before.
Init ==
  /\ published = [e \in Editions |-> 1]
  /\ \E release \in {None} \cup [edition : Editions, version : {1}] :
       folder = [f \in Entries |-> release]
  /\ local = 0
  /\ containers = None
  /\ task = Idle
  /\ faults = 0 /\ tasks = 0 /\ ends = 0
  /\ edited = 0

CosmosInstalled        == folder["compose.yaml"] # None
InstalledCosmosVersion == folder[".env"].version

Busy == task # Idle

Fail == faults < MaxFaults /\ faults' = faults + 1

\* run_task refuses a second task.
Begin(kind, step, release, dev) ==
  /\ ~Busy
  /\ tasks < MaxTasks /\ tasks' = tasks + 1
  /\ task' = [kind |-> kind, step |-> step, release |-> release, dev |-> dev, kept |-> 0,
              todo |-> {}]
  /\ UNCHANGED <<published, disk, faults, ends, edited>>

At(step)   == task.step = step
Goto(step) == task' = [task EXCEPT !.step = step]
Ends       == task' = Idle

------------------------------------------------------------------------------
(* The steps.                                                              *)

\* The files to preserve are read into memory; one that cannot be read is left
\* out.
ReadPreserved ==
  /\ At("read")
  /\ \/ task' = [task EXCEPT !.step = "stop", !.kept = local] /\ UNCHANGED faults
     \/ Fail /\ Goto("stop")
  /\ UNCHANGED <<published, disk>>

\* stop: in development mode it stops what was started from the checkout; an
\* upgrade goes on if it fails ("best-effort").
StopContainers ==
  /\ At("stop")
  /\ \/ containers' = (IF task.dev THEN containers ELSE None) /\ UNCHANGED faults
     \/ Fail /\ UNCHANGED containers
  /\ IF task.kind = "upgrade" THEN Goto("wipe") ELSE Ends
  /\ UNCHANGED <<published, folder, local>>

\* remove_dir_all: a failure ends the upgrade with any part of it removed, and
\* that there is no such folder, of which nothing may be left, is a failure.
WipeIgnored ==   \* slip
  /\ At("wipe")
  /\ \/ folder' = [f \in Entries |-> None] /\ local' = 0 /\ UNCHANGED faults
     \/ Fail /\ UNCHANGED <<folder, local>>
  /\ Goto("check")
  /\ UNCHANGED <<published, containers>>
Wipe ==
  /\ At("wipe")
  /\ \/ /\ folder' = [f \in Entries |-> None] /\ local' = 0
        /\ Goto("check")
        /\ UNCHANGED faults
     \/ /\ \A f \in Entries : folder[f] = None
        /\ local = 0
        /\ Ends
        /\ UNCHANGED <<folder, local, faults>>
     \/ /\ Fail
        /\ \E gone \in SUBSET Entries :
             folder' = [f \in Entries |-> IF f \in gone THEN None ELSE folder[f]]
        /\ local' \in {0, local}
        /\ Ends
  /\ UNCHANGED <<published, containers>>

\* install::cosmos: whatever has a compose.yaml is installed already.
Check ==
  /\ At("check")
  /\ Goto(IF CosmosInstalled THEN "setup" ELSE "download")
  /\ UNCHANGED <<published, folder, local, containers, faults>>

\* Fetch and extract the archive of the release, if the edition has it.
Download ==
  /\ At("download")
  /\ \/ /\ task.release.version <= published[task.release.edition]
        /\ task' = [task EXCEPT !.step = "move", !.todo = Entries]
        /\ UNCHANGED faults
     \/ /\ IF task.release.version > published[task.release.edition]
           THEN UNCHANGED faults
           ELSE Fail
        /\ Ends
  /\ UNCHANGED <<published, folder, local, containers>>

\* One turn of move_dir_contents.
MoveEntry(f) ==
  /\ At("move") /\ f \in task.todo
  /\ \/ /\ folder' = [folder EXCEPT ![f] = task.release]
        /\ task' = [task EXCEPT !.todo = @ \ {f},
                                !.step = IF task.todo = {f} THEN "setup" ELSE @]
        /\ UNCHANGED faults
     \/ Fail /\ Ends /\ UNCHANGED folder
  /\ UNCHANGED <<published, local, containers>>

\* setup_cosmos: a certificate bundle has to be fetched.
AfterSetup ==
  IF task.kind = "upgrade" THEN "restore" ELSE "up"
Setup ==
  /\ At("setup")
  /\ \/ /\ IF task.kind = "install" THEN Ends ELSE Goto(AfterSetup)
        /\ UNCHANGED faults
     \/ Fail /\ Ends
  /\ UNCHANGED <<published, folder, local, containers>>

\* What was read is written over the fresh install.
RestoreNothing ==   \* slip
  /\ At("restore")
  /\ Goto("up")
  /\ UNCHANGED <<published, folder, local, containers, faults>>
Restore ==
  /\ At("restore")
  /\ \/ /\ local' = IF task.kept # 0 THEN task.kept ELSE local
        /\ Goto("up")
        /\ UNCHANGED faults
     \/ Fail /\ Ends /\ UNCHANGED local
  /\ UNCHANGED <<published, folder, containers>>

\* docker compose up; run() has made sure of the certificates again.
Up ==
  /\ At("up")
  /\ \/ /\ CosmosInstalled /\ ~task.dev
        /\ containers' = folder["compose.yaml"]
        /\ UNCHANGED faults
     \/ /\ IF CosmosInstalled /\ ~task.dev THEN Fail ELSE UNCHANGED faults
        /\ UNCHANGED containers
  /\ Ends
  /\ UNCHANGED <<published, folder, local>>

RunTask ==
  /\ \/ ReadPreserved \/ StopContainers \/ Wipe \/ Check \/ Download \/ Setup \/ Restore \/ Up
     \/ \E f \in Entries : MoveEntry(f)
  /\ UNCHANGED <<bounds, edited>>

------------------------------------------------------------------------------
(* The user and the world.                                                 *)

InstallCosmos(edition, dev) ==
  Begin("install", "check", [edition |-> edition, version |-> published[edition]], dev)

\* In development mode the checkout's own script runs and stops COSMOS.
StartCosmos(dev) == Begin("run", IF dev THEN "up" ELSE "setup", None, dev)
StopCosmos(dev)  == Begin("stop", "stop", None, dev)

\* The user takes an offered release: the edition is that of the settings, which
\* need not be the one the release was found for.
InstallCosmosUpdate(release, dev) ==
  /\ release.version > InstalledCosmosVersion
  /\ \E e \in Editions : release.version <= published[e]
  /\ Begin("upgrade", "read", release, dev)

\* The app quits, which does not wait for a task, or dies, and is launched
\* again.
Relaunch ==
  /\ ends < MaxEnds /\ ends' = ends + 1
  /\ task' = Idle
  /\ UNCHANGED <<published, disk, faults, tasks, edited>>

Publish(edition) ==
  /\ published[edition] < Newest[edition]
  /\ published' = [published EXCEPT ![edition] = @ + 1]
  /\ UNCHANGED <<disk, task, faults, bounds, edited>>

\* The user edits the files beside an install.
EditLocal ==
  /\ CosmosInstalled /\ edited < MaxEdits
  /\ edited' = edited + 1
  /\ local' = edited'
  /\ UNCHANGED <<published, folder, containers, task, faults, bounds>>

Next ==
  \/ RunTask \/ Relaunch \/ EditLocal
  \/ \E dev \in BOOLEAN :
       \/ StartCosmos(dev) \/ StopCosmos(dev)
       \/ \E edition \in Editions : InstallCosmos(edition, dev)
       \/ \E release \in Releases : InstallCosmosUpdate(release, dev)
  \/ \E edition \in Editions : Publish(edition)

Spec == Init /\ [][Next]_vars

\* The task's thread runs.
FairSpec == Spec /\ WF_vars(RunTask)

------------------------------------------------------------------------------
(* Properties.                                                             *)

\* An upgrade that starts COSMOS again starts the whole of the release it was
\* asked for, with the files it read when it began or the user edited since
\* (upgrade_cosmos): leftovers of a failed upgrade or install never pass for the
\* new release.
UpgradeDelivers ==
  [][At("up") /\ task.kind = "upgrade" /\ ~Busy' /\ containers' # containers =>
       /\ containers' = task.release
       /\ \A f \in Entries : folder[f] = task.release
       /\ task.kept # 0 => local \in {task.kept, edited}]_vars

\* "Your ... local config (.env.local, compose.override.yaml) are preserved"
\* (the prompt), they "must survive an upgrade" (upgrade_cosmos): when no task
\* runs, the user's files are as the user left them.
LocalConfigSurvives == ~Busy => local = edited
=============================================================================
