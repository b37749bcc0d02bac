---------------------------- MODULE UpgradeProofs ----------------------------
(***************************************************************************)
(* Theorems about Upgrade, for any editions, releases of them and bounds.  *)
(***************************************************************************)
EXTENDS Upgrade, TLAPS

\* What an upgrade has made of the install at each of its steps.
Replaced ==
  task.kind = "upgrade" =>
    /\ At("check") \/ At("download") => \A f \in Entries : folder[f] = None
    /\ At("move") => \A f \in Entries \ task.todo : folder[f] = task.release
    /\ At("setup") \/ At("restore") \/ At("up") => \A f \in Entries : folder[f] = task.release
    /\ At("up") /\ task.kept # 0 => local \in {task.kept, edited}

UpgradeInv == UpgradeTypeOK /\ Replaced

LEMMA ReleasesAreTyped ==
  /\ \A e \in Editions : 1 \in Versions
  /\ [edition : Editions, version : {1}] \subseteq Releases
<1>1. ASSUME NEW e \in Editions PROVE 1 \in Versions
  <2>1. 1 \in 1..Newest[e]
    BY UpgradeAssumption
  <2> QED  BY <2>1 DEF Versions
<1> QED  BY <1>1 DEF Releases

LEMMA InitInv == Init => UpgradeInv
<1> SUFFICES ASSUME Init PROVE UpgradeInv
  OBVIOUS
<1>1. task = Idle /\ Idle \in Task
  BY DEF Init, Idle, Task
<1>2. task.kind = "none" /\ task.step = "none" /\ task.todo = {}
  BY <1>1 DEF Idle
<1>3. published \in [Editions -> Versions]
  BY ReleasesAreTyped DEF Init
<1>4. folder \in [Entries -> Releases \cup {None}]
  BY ReleasesAreTyped DEF Init
<1>5. /\ local \in Nat /\ containers \in Releases \cup {None}
      /\ faults \in 0..MaxFaults /\ tasks \in 0..MaxTasks /\ ends \in 0..MaxEnds
      /\ edited \in 0..MaxEdits
  BY UpgradeAssumption DEF Init
<1>6. Replaced
  BY <1>2 DEF Replaced
<1> QED  BY <1>1, <1>2, <1>3, <1>4, <1>5, <1>6 DEF UpgradeInv, UpgradeTypeOK

\* What a step does to the running task.
LEMMA TaskFields ==
  ASSUME task \in Task, NEW s \in {"read", "stop", "wipe", "check", "download", "setup", "restore", "up"}
  PROVE  LET t == [task EXCEPT !.step = s]
         IN  /\ t \in Task /\ t.step = s /\ t.kind = task.kind /\ t.todo = task.todo
             /\ t.release = task.release /\ t.kept = task.kept /\ t.dev = task.dev
BY DEF Task

LEMMA IdleFields == Idle \in Task /\ Idle.kind = "none" /\ Idle.step = "none" /\ Idle.todo = {}
BY DEF Idle, Task

LEMMA ReadStep ==
  ASSUME UpgradeInv, ReadPreserved, UNCHANGED <<bounds, edited>>
  PROVE  UpgradeInv'
<1> USE DEF UpgradeInv, UpgradeTypeOK
<1>1. faults' \in 0..MaxFaults
  BY UpgradeAssumption DEF ReadPreserved, Fail
<1>2. /\ UNCHANGED <<published, folder, local, containers, tasks, ends, edited>>
      /\ task.step = "read" /\ task.todo = {} /\ task.kind # "none"
  BY DEF ReadPreserved, disk, bounds, At
<1>3. /\ task' \in Task /\ task'.step = "stop" /\ task'.kind = task.kind /\ task'.todo = {}
  <2>1. task' = [task EXCEPT !.step = "stop"] \/ task' = [task EXCEPT !.step = "stop", !.kept = local]
    BY DEF ReadPreserved, Goto
  <2> QED  BY <1>2, <2>1 DEF Task
<1> QED  BY <1>1, <1>2, <1>3 DEF Replaced, At

LEMMA StopStep ==
  ASSUME UpgradeInv, StopContainers, UNCHANGED <<bounds, edited>>
  PROVE  UpgradeInv'
<1> USE DEF UpgradeInv, UpgradeTypeOK
<1>1. faults' \in 0..MaxFaults /\ containers' \in Releases \cup {None}
  BY UpgradeAssumption DEF StopContainers, Fail
<1>2. /\ UNCHANGED <<published, folder, local, tasks, ends, edited>>
      /\ task.step = "stop" /\ task.todo = {} /\ task.kind # "none"
  BY DEF StopContainers, bounds, At
<1>3. CASE task' = [task EXCEPT !.step = "wipe"]
  <2>1. /\ task' \in Task /\ task'.step = "wipe" /\ task'.kind = task.kind /\ task'.todo = {}
    BY <1>2, <1>3, TaskFields
  <2> QED  BY <1>1, <1>2, <2>1 DEF Replaced, At
<1>4. CASE task' = Idle
  BY <1>1, <1>2, <1>4, IdleFields DEF Replaced, At
<1> QED  BY <1>3, <1>4 DEF StopContainers, Goto, Ends

LEMMA WipeStep ==
  ASSUME UpgradeInv, Wipe, UNCHANGED <<bounds, edited>>
  PROVE  UpgradeInv'
<1> USE DEF UpgradeInv, UpgradeTypeOK
<1>1. faults' \in 0..MaxFaults /\ folder' \in [Entries -> Releases \cup {None}] /\ local' \in Nat
  BY UpgradeAssumption DEF Wipe, Fail
<1>2. /\ UNCHANGED <<published, containers, tasks, ends, edited>>
      /\ task.step = "wipe" /\ task.todo = {} /\ task.kind # "none"
  BY DEF Wipe, bounds, At
<1>3. CASE (\A f \in Entries : folder'[f] = None) /\ task' = [task EXCEPT !.step = "check"]
  <2>1. /\ task' \in Task /\ task'.step = "check" /\ task'.kind = task.kind /\ task'.todo = {}
    BY <1>2, <1>3, TaskFields
  <2> QED  BY <1>1, <1>2, <1>3, <2>1 DEF Replaced, At
<1>4. CASE task' = Idle
  BY <1>1, <1>2, <1>4, IdleFields DEF Replaced, At
<1> QED  BY <1>3, <1>4 DEF Wipe, Goto, Ends

LEMMA CheckStep ==
  ASSUME UpgradeInv, Check, UNCHANGED <<bounds, edited>>
  PROVE  UpgradeInv'
<1> USE DEF UpgradeInv, UpgradeTypeOK
<1>1. /\ UNCHANGED <<published, folder, local, containers, faults, tasks, ends, edited>>
      /\ task.step = "check" /\ task.todo = {} /\ task.kind # "none"
  BY DEF Check, bounds, At
<1>2. CASE ~CosmosInstalled /\ task' = [task EXCEPT !.step = "download"]
  <2>1. /\ task' \in Task /\ task'.step = "download" /\ task'.kind = task.kind /\ task'.todo = {}
    BY <1>1, <1>2, TaskFields
  <2> QED  BY <1>1, <2>1 DEF Replaced, At
<1>3. CASE CosmosInstalled /\ task' = [task EXCEPT !.step = "setup"]
  <2>1. task.kind # "upgrade"
    BY <1>1, <1>3 DEF Replaced, At, CosmosInstalled, Entries
  <2>2. /\ task' \in Task /\ task'.step = "setup" /\ task'.kind = task.kind /\ task'.todo = {}
    BY <1>1, <1>3, TaskFields
  <2> QED  BY <1>1, <2>1, <2>2 DEF Replaced
<1> QED  BY <1>2, <1>3 DEF Check, Goto

LEMMA DownloadStep ==
  ASSUME UpgradeInv, Download, UNCHANGED <<bounds, edited>>
  PROVE  UpgradeInv'
<1> USE DEF UpgradeInv, UpgradeTypeOK
<1>1. faults' \in 0..MaxFaults
  BY UpgradeAssumption DEF Download, Fail
<1>2. /\ UNCHANGED <<published, folder, local, containers, tasks, ends, edited>>
      /\ task.step = "download" /\ task.todo = {} /\ task.kind # "none"
  BY DEF Download, bounds, At
<1>3. CASE task' = [task EXCEPT !.step = "move", !.todo = Entries]
  <2>1. /\ task' \in Task /\ task'.step = "move" /\ task'.kind = task.kind
        /\ task'.todo = Entries
    BY <1>3 DEF Task
  <2>2. Entries # {}
    BY DEF Entries
  <2> QED  BY <1>1, <1>2, <2>1, <2>2 DEF Replaced, At
<1>4. CASE task' = Idle
  BY <1>1, <1>2, <1>4, IdleFields DEF Replaced, At
<1> QED  BY <1>3, <1>4 DEF Download, Ends

\* The entries moved so far are those of the release.
LEMMA MoveStep ==
  ASSUME UpgradeInv, NEW f \in Entries, MoveEntry(f), UNCHANGED <<bounds, edited>>
  PROVE  UpgradeInv'
<1> USE DEF UpgradeInv, UpgradeTypeOK
<1>1. faults' \in 0..MaxFaults
  BY UpgradeAssumption DEF MoveEntry, Fail
<1>2. /\ UNCHANGED <<published, local, containers, tasks, ends, edited>>
      /\ task.step = "move" /\ f \in task.todo /\ task.kind # "none"
  BY DEF MoveEntry, bounds, At
<1>3. CASE /\ folder' = [folder EXCEPT ![f] = task.release]
           /\ task' = [task EXCEPT !.todo = @ \ {f},
                                   !.step = IF task.todo = {f} THEN "setup" ELSE @]
  <2>1. folder' \in [Entries -> Releases \cup {None}]
    BY <1>3 DEF Task
  <2>2. /\ task' \in Task /\ task'.kind = task.kind /\ task'.release = task.release
        /\ task'.todo = task.todo \ {f}
        /\ task'.step = IF task.todo = {f} THEN "setup" ELSE "move"
    BY <1>2, <1>3 DEF Task
  <2>3. task'.todo # {} <=> task'.step = "move"
    BY <1>2, <2>2
  <2>4. folder'[f] = task.release /\ \A g \in Entries \ {f} : folder'[g] = folder[g]
    BY <1>3
  <2>5. Replaced'
    <3>1. CASE task.kind = "upgrade"
      <4>1. \A g \in Entries \ task.todo : folder[g] = task.release
        BY <1>2, <3>1 DEF Replaced, At
      <4>2. \A g \in Entries \ task'.todo : folder'[g] = task.release
        BY <2>2, <2>4, <4>1
      <4> QED  BY <2>2, <2>3, <4>2 DEF Replaced, At
    <3>2. CASE task.kind # "upgrade"
      BY <2>2, <3>2 DEF Replaced
    <3> QED  BY <3>1, <3>2
  <2> QED  BY <1>1, <1>2, <2>1, <2>2, <2>3, <2>5
<1>4. CASE task' = Idle /\ folder' = folder
  BY <1>1, <1>2, <1>4, IdleFields DEF Replaced, At
<1> QED  BY <1>3, <1>4 DEF MoveEntry, Ends

LEMMA SetupStep ==
  ASSUME UpgradeInv, Setup, UNCHANGED <<bounds, edited>>
  PROVE  UpgradeInv'
<1> USE DEF UpgradeInv, UpgradeTypeOK
<1>1. faults' \in 0..MaxFaults
  BY UpgradeAssumption DEF Setup, Fail
<1>2. /\ UNCHANGED <<published, folder, local, containers, tasks, ends, edited>>
      /\ task.step = "setup" /\ task.todo = {} /\ task.kind # "none"
  BY DEF Setup, bounds, At
<1>3. CASE task' = [task EXCEPT !.step = AfterSetup]
  <2>1. AfterSetup = IF task.kind = "upgrade" THEN "restore" ELSE "up"
    BY DEF AfterSetup
  <2>2. /\ task' \in Task /\ task'.step = AfterSetup /\ task'.kind = task.kind
        /\ task'.todo = {} /\ task'.release = task.release
    BY <1>2, <1>3, <2>1, TaskFields
  <2> QED  BY <1>1, <1>2, <2>1, <2>2 DEF Replaced, At
<1>4. CASE task' = Idle
  BY <1>1, <1>2, <1>4, IdleFields DEF Replaced, At
<1> QED  BY <1>3, <1>4 DEF Setup, Goto, Ends

LEMMA RestoreStep ==
  ASSUME UpgradeInv, Restore, UNCHANGED <<bounds, edited>>
  PROVE  UpgradeInv'
<1> USE DEF UpgradeInv, UpgradeTypeOK
<1>1. faults' \in 0..MaxFaults
  BY UpgradeAssumption DEF Restore, Fail
<1>2. /\ UNCHANGED <<published, folder, containers, tasks, ends, edited>>
      /\ task.step = "restore" /\ task.todo = {} /\ task.kind # "none" /\ task.kept \in Nat
  BY DEF Restore, bounds, At, Task
<1>3. CASE /\ local' = (IF task.kept # 0 THEN task.kept ELSE local)
           /\ task' = [task EXCEPT !.step = "up"]
  <2>1. /\ task' \in Task /\ task'.step = "up" /\ task'.kind = task.kind /\ task'.todo = {}
        /\ task'.release = task.release /\ task'.kept = task.kept
    BY <1>2, <1>3, TaskFields
  <2>2. local' \in Nat /\ (task'.kept # 0 => local' = task'.kept)
    BY <1>2, <1>3, <2>1
  <2> QED  BY <1>1, <1>2, <2>1, <2>2 DEF Replaced, At
<1>4. CASE task' = Idle /\ local' = local
  BY <1>1, <1>2, <1>4, IdleFields DEF Replaced, At
<1> QED  BY <1>3, <1>4 DEF Restore, Goto, Ends

LEMMA UpStep ==
  ASSUME UpgradeInv, Up, UNCHANGED <<bounds, edited>>
  PROVE  UpgradeInv'
<1> USE DEF UpgradeInv, UpgradeTypeOK
<1>1. faults' \in 0..MaxFaults
  BY UpgradeAssumption DEF Up, Fail
<1>2. containers' \in Releases \cup {None}
  BY DEF Up, Entries
<1>3. UNCHANGED <<published, folder, local, tasks, ends, edited>> /\ task' = Idle
  BY DEF Up, Ends, bounds
<1> QED  BY <1>1, <1>2, <1>3, IdleFields DEF Replaced, At

LEMMA BeginStep ==
  ASSUME UpgradeInv, NEW kind \in {"install", "run", "stop", "upgrade"},
         NEW step \in {"read", "stop", "check", "setup", "up"},
         kind = "upgrade" => step = "read",
         NEW release \in Releases \cup {None}, NEW dev \in BOOLEAN,
         Begin(kind, step, release, dev)
  PROVE  UpgradeInv'
<1> USE DEF UpgradeInv, UpgradeTypeOK
<1>1. tasks' \in 0..MaxTasks
  BY UpgradeAssumption DEF Begin
<1>2. UNCHANGED <<published, folder, local, containers, faults, ends, edited>>
  BY DEF Begin, disk
<1>3. /\ task' \in Task /\ task'.kind = kind /\ task'.step = step /\ task'.todo = {}
  BY DEF Begin, Task
<1> QED  BY <1>1, <1>2, <1>3 DEF Replaced, At

LEMMA UserStep ==
  ASSUME UpgradeInv, NEW dev \in BOOLEAN,
         \/ StartCosmos(dev) \/ StopCosmos(dev)
         \/ \E edition \in Editions : InstallCosmos(edition, dev)
         \/ \E release \in Releases : InstallCosmosUpdate(release, dev)
  PROVE  UpgradeInv'
<1>1. CASE StartCosmos(dev)
  <2>1. CASE dev
    BY <1>1, <2>1, BeginStep DEF StartCosmos
  <2>2. CASE ~dev
    BY <1>1, <2>2, BeginStep DEF StartCosmos
  <2> QED  BY <2>1, <2>2
<1>2. CASE StopCosmos(dev)
  BY <1>2, BeginStep DEF StopCosmos
<1>3. ASSUME NEW edition \in Editions, InstallCosmos(edition, dev) PROVE UpgradeInv'
  <2>1. [edition |-> edition, version |-> published[edition]] \in Releases
    BY DEF UpgradeInv, UpgradeTypeOK, Releases
  <2> QED  BY <1>3, <2>1, BeginStep DEF InstallCosmos
<1>4. ASSUME NEW release \in Releases, InstallCosmosUpdate(release, dev) PROVE UpgradeInv'
  BY <1>4, BeginStep DEF InstallCosmosUpdate
<1> QED  BY <1>1, <1>2, <1>3, <1>4

LEMMA WorldStep ==
  ASSUME UpgradeInv,
         \/ Relaunch \/ EditLocal \/ UNCHANGED vars
         \/ \E edition \in Editions : Publish(edition)
  PROVE  UpgradeInv'
<1> USE DEF UpgradeInv, UpgradeTypeOK
<1>1. CASE Relaunch
  <2>1. ends' \in 0..MaxEnds
    BY <1>1, UpgradeAssumption DEF Relaunch
  <2>2. UNCHANGED <<published, folder, local, containers, faults, tasks, edited>> /\ task' = Idle
    BY <1>1 DEF Relaunch, disk
  <2> QED  BY <2>1, <2>2, IdleFields DEF Replaced
<1>2. CASE EditLocal
  <2>1. edited' \in 0..MaxEdits /\ local' = edited' /\ local' \in Nat
    BY <1>2, UpgradeAssumption DEF EditLocal
  <2>2. UNCHANGED <<published, folder, containers, task, faults, tasks, ends>>
    BY <1>2 DEF EditLocal, bounds
  <2> QED  BY <2>1, <2>2 DEF Replaced, At
<1>3. CASE UNCHANGED vars
  BY <1>3 DEF vars, disk, bounds, Replaced, At
<1>4. ASSUME NEW edition \in Editions, Publish(edition) PROVE UpgradeInv'
  <2>1. published[edition] \in Nat /\ Newest[edition] \in Nat
    BY UpgradeAssumption DEF Versions
  <2>2. published[edition] + 1 \in 1..Newest[edition]
    BY <1>4, <2>1 DEF Publish
  <2>3. published' \in [Editions -> Versions]
    BY <1>4, <2>2 DEF Publish, Versions
  <2>4. UNCHANGED <<folder, local, containers, task, faults, tasks, ends, edited>>
    BY <1>4 DEF Publish, disk, bounds
  <2> QED  BY <2>3, <2>4 DEF Replaced, At
<1> QED  BY <1>1, <1>2, <1>3, <1>4

LEMMA StepInv == UpgradeInv /\ [Next]_vars => UpgradeInv'
BY ReadStep, StopStep, WipeStep, CheckStep, DownloadStep, MoveStep, SetupStep, RestoreStep, UpStep,
   UserStep, WorldStep DEF Next, RunTask

\* Only the last step of an upgrade starts containers, from what is installed.
LEMMA UpDelivers ==
  ASSUME UpgradeInv, Next, At("up"), task.kind = "upgrade", containers' # containers
  PROVE  /\ containers' = task.release
         /\ \A f \in Entries : folder[f] = task.release
         /\ task.kept # 0 => local \in {task.kept, edited}
<1>1. Up
  <2>1. ~ (ReadPreserved \/ StopContainers \/ Wipe \/ Check \/ Download \/ Setup \/ Restore)
    BY DEF At, ReadPreserved, StopContainers, Wipe, Check, Download, Setup, Restore
  <2>2. ~ \E f \in Entries : MoveEntry(f)
    BY DEF At, MoveEntry
  <2>3. Busy
    BY DEF At, Busy, Idle
  <2> QED  BY <2>1, <2>2, <2>3 DEF Next, RunTask, Relaunch, EditLocal, Publish, StartCosmos,
         StopCosmos, InstallCosmos, InstallCosmosUpdate, Begin, disk
<1>2. containers' = folder["compose.yaml"]
  BY <1>1 DEF Up
<1> QED  BY <1>2 DEF UpgradeInv, Replaced, Entries

THEOREM UpgradeInvariant == Spec => []UpgradeInv
BY InitInv, StepInv, PTL DEF Spec

\* Every state is well typed, for any editions, releases and bounds.
THEOREM UpgradeTypeCorrect == Spec => []UpgradeTypeOK
BY UpgradeInvariant, PTL DEF UpgradeInv

\* An upgrade that starts COSMOS starts the whole release, with the user's files
\* (upgrade_cosmos), whatever failed before it.
THEOREM UpgradeStartsItsRelease == Spec => UpgradeDelivers
<1>1. UpgradeInv /\ [Next]_vars =>
        [At("up") /\ task.kind = "upgrade" /\ ~Busy' /\ containers' # containers =>
           /\ containers' = task.release
           /\ \A f \in Entries : folder[f] = task.release
           /\ task.kept # 0 => local \in {task.kept, edited}]_vars
  BY UpDelivers
<1> QED  BY UpgradeInvariant, <1>1, PTL DEF Spec, UpgradeDelivers
=============================================================================
