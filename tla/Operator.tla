------------------------------ MODULE Operator ------------------------------
(***************************************************************************)
(* The supervision loop of the host operator: MicroserviceOperator in      *)
(* src/operator.rs, one thread that each cycle pairs with the hub          *)
(* (BridgePairing), fetches the desired host microservices, diffs them     *)
(* against the previous set, and stops, restarts, starts and revives child *)
(* processes.                                                              *)
(*                                                                         *)
(* pc names the method of run()'s loop the thread is in.  A method that    *)
(* only touches the operator's own state is one step; one that asks the    *)
(* hub, blocks in a spawn or rereads a shared flag is cut there, so that   *)
(* the hub, the user, a dying child and a shutdown request fall between.   *)
(*                                                                         *)
(* Specifications come from the hub, which never sets a parent, a shard,   *)
(* enabled = false or ignore_changes (host_specs_to_configs): of           *)
(* compute_changes only the standalone, enabled rules are reachable, and   *)
(* they are what Diff models.                                              *)
(*                                                                         *)
(* A definition marked "slip" is the next one with a plausible bug.  No    *)
(* action uses a slip: substituted for that definition it shows that the   *)
(* properties notice.                                                      *)
(***************************************************************************)
EXTENDS BridgePairing, SequencesExt

CONSTANTS
  Services,   (* names of host microservices                                  *)
  MaxStart,   (* max_start_per_cycle; 0 means no limit                        *)
  MaxEdits,   (* bound: changes of the hub's specifications or files          *)
  MaxFaults   (* bound: child deaths, failed spawns, syncs, authorizations    *)

ASSUME OperatorAssumption ==
  /\ IsFiniteSet(Services)
  /\ MaxStart \in Nat /\ MaxEdits \in Nat /\ MaxFaults \in Nat

VARIABLES
  hubSpecs,     (* the hub's specification of each service, 0 if none         *)
  hubFiles,     (* revision of the plugin files the hub serves for it         *)
  authorized,   (* services whose present identity the hub lets in            *)
  edits, faults,
  shutdown,     (* the flag that asks run() to stop                           *)
  pc,
  specs,        (* the hub's answer to the last successful poll               *)
  desired,      (* self.microservices                                         *)
  synced,       (* self.synced_host_configs                                   *)
  files,        (* self.last_sync: revisions on disk                          *)
  haveFiles,    (* self.last_sync.is_some()                                   *)
  syncDue,      (* now >= self.next_file_sync                                 *)
  hostKeys,     (* keys of self.host_keys                                     *)
  newNames, changedNames, removedNames,
  batch,        (* names drained into a method's local list                   *)
  supervised,   (* keys of self.processes                                     *)
  process,      (* each OperatorProcess: what its next start will use         *)
  child,        (* the child a process holds, if it is alive                  *)
  strays,       (* live children whose handle was dropped                     *)
  spawned,      (* provision_and_start is between its spawn and registry.add  *)
  recorded,     (* services whose last child is in self.registry.pids         *)
  former,       (* self.registry.pids holds pids of earlier children as well  *)
  owners,       (* services whose last child is in the owners file            *)
  unsaved       (* history: the last write of the owners file failed          *)

hubState   == <<hubSpecs, hubFiles, authorized>>
bounds     == <<edits, faults>>
fetchState == <<specs, synced, files, haveFiles, syncDue, hostKeys>>
queues     == <<newNames, changedNames, removedNames>>
children   == <<child, strays>>
registry   == <<spawned, recorded, former, owners, unsaved>>
procState  == <<supervised, process, children, registry>>
opVars     == <<hubState, bounds, shutdown, pc, fetchState, desired, queues, batch, procState>>
vars       == <<pairingVars, opVars>>

\* A configuration is the specification revision it was built from and the
\* revision of the plugin files its dependencies were read from.
Config   == [spec : Nat, files : Nat]
NoConfig == [spec |-> 0, files |-> 0]
Present(configs) == {s \in Services : configs[s].spec # 0}

\* A child runs the configuration and the ticket its process had at start.
Process == [cfg : Config, ticket : Nat]
Child   == [live : BOOLEAN, cfg : Config, ticket : Nat]
NoChild == [live |-> FALSE, cfg |-> NoConfig, ticket |-> NoClient]

Phases == {"connect", "pairing", "fetch", "prepare", "remove", "changed", "restarting",
           "start", "starting", "dead", "reviving", "publish", "sleep", "stopping", "stopped"}

OperatorTypeOK ==
  /\ hubSpecs \in [Services -> Nat] /\ hubFiles \in [Services -> Nat]
  /\ authorized \subseteq Services
  /\ edits \in Nat /\ faults \in Nat
  /\ shutdown \in BOOLEAN
  /\ pc \in Phases
  /\ specs \in [Services -> Nat]
  /\ desired \in [Services -> Config]
  /\ synced \in [Services -> Nat] /\ files \in [Services -> Nat]
  /\ haveFiles \in BOOLEAN /\ syncDue \in BOOLEAN
  /\ hostKeys \subseteq Services
  /\ newNames \in Seq(Services) /\ changedNames \in Seq(Services)
  /\ removedNames \subseteq Services
  /\ batch \in Seq(Services)
  /\ supervised \subseteq Services
  /\ process \in [Services -> Process]
  /\ child \in [Services -> Child]
  /\ strays \in [Services -> Nat]
  /\ spawned \in BOOLEAN /\ former \in BOOLEAN /\ unsaved \in BOOLEAN
  /\ recorded \subseteq Services /\ owners \subseteq Services

TypeOK == PairingTypeOK /\ OperatorTypeOK

OperatorInit ==
  /\ hubSpecs \in [Services -> {0, 1}]
  /\ hubFiles = hubSpecs
  /\ authorized = {}
  /\ edits = 1 /\ faults = 0
  /\ shutdown = FALSE
  /\ pc = "connect"
  /\ specs = [s \in Services |-> 0]
  /\ desired = [s \in Services |-> NoConfig]
  /\ synced = [s \in Services |-> 0] /\ files = [s \in Services |-> 0]
  /\ haveFiles = FALSE /\ syncDue = TRUE
  /\ hostKeys = {}
  /\ newNames = <<>> /\ changedNames = <<>> /\ removedNames = {}
  /\ batch = <<>>
  /\ supervised = {}
  /\ process = [s \in Services |-> [cfg |-> NoConfig, ticket |-> NoClient]]
  /\ child = [s \in Services |-> NoChild]
  /\ strays = [s \in Services |-> 0]
  /\ spawned = FALSE /\ recorded = {} /\ former = FALSE /\ owners = {} /\ unsaved = FALSE

Init == PairingInit /\ OperatorInit

------------------------------------------------------------------------------
(* Building blocks.                                                        *)

\* n failures happen in a step, within the bound.
Fail(n) == faults + n <= MaxFaults /\ faults' = faults + n

\* Stopping a process (soft_stop, the wait, hard_stop) leaves it no child.
StopNone(names) ==   \* slip
  UNCHANGED child
StopAll(names) ==
  child' = [s \in Services |-> IF s \in names \cap supervised THEN NoChild ELSE child[s]]

\* What a start or a replacement of the process does to a child still alive
\* in it: the handle and its stdin lifeline are dropped, nothing is killed.
Abandon(names) ==
  strays' = [s \in Services |-> IF s \in names /\ child[s].live THEN strays[s] + 1 ELSE strays[s]]

\* The write of the owners file, replaced by a rename or, when nothing is left
\* to record, removed: a failure is ignored and leaves the file as it was.
Save(names) ==
  \/ owners' = names /\ unsaved' = FALSE /\ UNCHANGED faults
  \/ Fail(1) /\ unsaved' = TRUE /\ UNCHANGED owners

\* registry.add.
AddLater(s) ==   \* slip
  UNCHANGED <<recorded, owners, unsaved, faults>>
Add(s) == recorded' = recorded \cup {s} /\ Save(recorded \cup {s})

\* registry.set: pids that are the same already are not written again.
Record(names) ==
  /\ recorded' = names
  /\ former' = FALSE
  /\ IF recorded = names /\ ~former THEN UNCHANGED <<owners, unsaved, faults>> ELSE Save(names)
  /\ UNCHANGED spawned

\* The loops that start processes, and what follows each.
Loops == {"restarting", "starting", "reviving"}
After(loop) == IF loop = "restarting" THEN "start" ELSE IF loop = "starting" THEN "dead" ELSE "publish"

\* The turn of the batch's first name ends.
TurnEnds ==
  /\ batch' = Tail(batch)
  /\ pc' = IF Len(batch) > 1 THEN pc ELSE After(pc)

\* A started child has a pid that is recorded nowhere yet.
Spawn(s) ==
  /\ child' = [child EXCEPT ![s] = [live   |-> TRUE,
                                    cfg    |-> process[s].cfg,
                                    ticket |-> process[s].ticket]]
  /\ Abandon({s})
  /\ spawned' = TRUE
  /\ recorded' = recorded \ {s} /\ owners' = owners \ {s}
  /\ former' = (former \/ s \in recorded)
  /\ UNCHANGED <<unsaved, faults, batch, pc>>

\* provision_and_start, up to registry.add: a no-op for a name without a
\* process; a failed spawn leaves the process as it was.
ProvisionAndStart(s) ==
  \/ s \notin supervised /\ TurnEnds /\ UNCHANGED <<children, registry, faults>>
  \/ s \in supervised /\ Spawn(s)
  \/ s \in supervised /\ Fail(1) /\ TurnEnds /\ UNCHANGED <<children, registry>>

CycleCount(total) == IF MaxStart > 0 /\ MaxStart < total THEN MaxStart ELSE total

\* compute_changes between the previous set and the next.
Added(next) == Present(next) \ Present(desired)

RemovedNone(next) ==   \* slip
  {}
Removed(next) == Present(desired) \ Present(next)

ChangedSpec(next) ==   \* slip
  {s \in Present(next) \cap Present(desired) : next[s].spec # desired[s].spec}
Changed(next) == {s \in Present(next) \cap Present(desired) : next[s] # desired[s]}

\* The tail of update(): a fresh process for each new name, a new definition
\* for each changed one, and the names queued (in any order: the maps are
\* sorted by name).
Diff(next) ==
  LET fresh == Added(next) \cup (Changed(next) \ supervised)
  IN  /\ desired' = next
      /\ supervised' = supervised \cup fresh
      /\ process' = [s \in Services |-> IF s \in Added(next) \cup Changed(next)
                                        THEN [cfg |-> next[s], ticket |-> client]
                                        ELSE process[s]]
      /\ child' = [s \in Services |-> IF s \in fresh THEN NoChild ELSE child[s]]
      /\ Abandon(fresh)
      /\ \E q \in SetToSeqs(fresh) : newNames' = newNames \o q
      /\ \E q \in SetToSeqs(Changed(next) \cap supervised) : changedNames' = changedNames \o q
      /\ removedNames' = removedNames \cup Removed(next)
      /\ pc' = "remove"

------------------------------------------------------------------------------
(* update(): pair, fetch, diff.                                            *)

\* maybe_connect, up to the connector.
Connect ==
  /\ pc = "connect"
  /\ CheckCosmos
  /\ pc' = IF connecting' THEN "pairing" ELSE "fetch"
  /\ UNCHANGED <<hubState, bounds, shutdown, fetchState, desired, queues, batch, procState>>

\* maybe_connect, from the connector's answer.
Pair ==
  /\ pc = "pairing"
  /\ ConnectorReturns
  /\ pc' = "fetch"
  /\ UNCHANGED <<hubState, bounds, shutdown, fetchState, desired, queues, batch, procState>>

\* fetch() without a client: the desired set is empty.
FetchUnpaired ==
  /\ pc = "fetch" /\ client = NoClient
  /\ Diff([s \in Services |-> NoConfig])
  /\ UNCHANGED <<pairingVars, hubState, bounds, shutdown, fetchState, batch, registry>>

\* A failed poll keeps the previous set.
PollFailureEmpties ==   \* slip
  [s \in Services |-> NoConfig]
PollFailureKeeps == desired

\* fetch() when the poll fails, or the hub no longer knows the client's
\* ticket: nothing else of fetch() happens.
FetchFails ==
  /\ pc = "fetch" /\ client # NoClient /\ ~Reachable
  /\ Diff(PollFailureKeeps)
  /\ UNCHANGED <<pairingVars, hubState, bounds, shutdown, fetchState, batch, registry>>

FetchAnswered ==
  /\ pc = "fetch" /\ client # NoClient /\ Reachable
  /\ specs' = hubSpecs
  /\ pc' = "prepare"
  /\ UNCHANGED <<pairingVars, hubState, bounds, shutdown, synced, files, haveFiles, syncDue,
                 hostKeys, desired, queues, batch, procState>>

\* The set the hub describes differs from the one the files were synced for.
Forced == specs # synced

SyncNeeded == ~haveFiles \/ Forced \/ syncDue

\* Without a sync this cycle, the files on disk serve an unchanged set only.
FilesReadyIfAny(syncOk) ==   \* slip
  syncOk \/ haveFiles
FilesReady(syncOk) == syncOk \/ (haveFiles /\ ~Forced)

\* Every cycle that reaches it publishes the identities of the new set; a
\* freshly minted one is unknown to the hub if that fails.
Authorize(authOk, next) ==
  authorized' = IF authOk THEN Present(next)
                ELSE authorized \ (Present(next) \ hostKeys)

\* The rest of fetch() and update(): sync plugin files if needed; take the new
\* set if its files are there, else keep what runs minus what the hub removed;
\* mint or drop identities, publish them to the hub; diff.
Prepare ==
  /\ pc = "prepare"
  /\ \E syncOk, authOk \in BOOLEAN :
       LET ready  == FilesReady(syncOk)
           onDisk == IF syncOk THEN hubFiles ELSE files
           next   == [s \in Services |->
                        IF specs[s] = 0 THEN NoConfig
                        ELSE IF ready THEN [spec |-> specs[s], files |-> onDisk[s]]
                        ELSE desired[s]]
           failed == (IF SyncNeeded /\ ~syncOk THEN 1 ELSE 0) + (IF authOk THEN 0 ELSE 1)
       IN  /\ syncOk => SyncNeeded
           /\ IF Reachable THEN Fail(failed)
              ELSE ~syncOk /\ ~authOk /\ UNCHANGED faults
           /\ files' = onDisk
           /\ haveFiles' = (haveFiles \/ syncOk)
           /\ syncDue' = (syncDue /\ ~syncOk)
           /\ synced' = IF ready THEN specs ELSE synced
           /\ hostKeys' = Present(next)
           /\ Authorize(authOk, next)
           /\ Diff(next)
  /\ UNCHANGED <<pairingVars, hubSpecs, hubFiles, edits, shutdown, specs, batch, registry>>

------------------------------------------------------------------------------
(* The rest of the cycle.                                                  *)

RemoveOld ==
  /\ pc = "remove"
  /\ StopAll(removedNames)
  /\ supervised' = supervised \ removedNames
  /\ removedNames' = {}
  /\ pc' = "changed"
  /\ UNCHANGED <<pairingVars, hubState, bounds, shutdown, fetchState, desired, newNames,
                 changedNames, batch, process, strays, registry>>

\* respawn_changed: drain up to the limit and stop those; a shutdown request
\* seen after the stop gives up the restarts.
RespawnChanged ==
  LET count == CycleCount(Len(changedNames))
      cycle == SubSeq(changedNames, 1, count)
  IN  /\ pc = "changed"
      /\ changedNames' = SubSeq(changedNames, count + 1, Len(changedNames))
      /\ StopAll(ToSet(cycle))
      /\ batch' = IF shutdown THEN <<>> ELSE cycle
      /\ pc' = IF shutdown \/ cycle = <<>> THEN "start" ELSE "restarting"
      /\ UNCHANGED <<pairingVars, hubState, bounds, shutdown, fetchState, desired, newNames,
                     removedNames, supervised, process, strays, registry>>

StartNew ==
  LET count == CycleCount(Len(newNames))
  IN  /\ pc = "start"
      /\ batch' = SubSeq(newNames, 1, count)
      /\ newNames' = SubSeq(newNames, count + 1, Len(newNames))
      /\ pc' = IF count = 0 THEN "dead" ELSE "starting"
      /\ UNCHANGED <<pairingVars, hubState, bounds, shutdown, fetchState, desired,
                     changedNames, removedNames, procState>>

\* One turn of the start loop of respawn_changed or of start_new.
StartNext ==
  /\ pc \in {"restarting", "starting"} /\ batch # <<>> /\ ~spawned
  /\ ProvisionAndStart(Head(batch))
  /\ UNCHANGED <<pairingVars, hubState, edits, shutdown, fetchState, desired, queues,
                 supervised, process>>

\* provision_and_start from registry.add: in between, other instances of the
\* app run (Instances) and the child may die.
RecordStart ==
  /\ pc \in Loops /\ batch # <<>> /\ spawned
  /\ Add(Head(batch))
  /\ spawned' = FALSE
  /\ TurnEnds
  /\ UNCHANGED <<pairingVars, hubState, edits, shutdown, fetchState, desired, queues,
                 supervised, process, children, former>>

\* respawn_dead: every process the map holds, in any order.
ScanDead ==
  /\ pc = "dead"
  /\ \E q \in SetToSeqs(supervised) : batch' = q
  /\ pc' = IF supervised = {} THEN "publish" ELSE "reviving"
  /\ UNCHANGED <<pairingVars, hubState, bounds, shutdown, fetchState, desired, queues, procState>>

\* One turn of its loop: a name still queued as new or alive is skipped, a
\* dead one started again; a shutdown request ends the loop.
ReviveNext ==
  LET s == Head(batch)
  IN  /\ pc = "reviving" /\ batch # <<>> /\ ~spawned
      /\ \/ shutdown /\ batch' = <<>> /\ pc' = "publish" /\ UNCHANGED <<children, registry, faults>>
         \/ /\ ~shutdown /\ (s \in ToSet(newNames) \/ child[s].live)
            /\ TurnEnds
            /\ UNCHANGED <<children, registry, faults>>
         \/ ~shutdown /\ s \notin ToSet(newNames) /\ ~child[s].live /\ ProvisionAndStart(s)
      /\ UNCHANGED <<pairingVars, hubState, edits, shutdown, fetchState, desired, queues,
                     supervised, process>>

\* run() leaves its loop at the end of a cycle or of the sleep when asked to.
LoopForever(next) ==   \* slip
  pc' = next
LoopUnlessShutdown(next) == pc' = IF shutdown THEN "stopping" ELSE next

\* publish_status records exactly the live children.
LiveNames == {s \in supervised : child[s].live}

Publish ==
  /\ pc = "publish"
  /\ Record(LiveNames)
  /\ LoopUnlessShutdown("sleep")
  /\ UNCHANGED <<pairingVars, hubState, edits, shutdown, fetchState, desired, queues, batch,
                 supervised, process, children>>

\* refresh_live_status, every second of the sleep.
RefreshLive ==
  /\ pc = "sleep" /\ supervised # {}
  /\ Record(LiveNames)
  /\ UNCHANGED <<pairingVars, hubState, edits, shutdown, pc, fetchState, desired, queues, batch,
                 supervised, process, children>>

Wake ==
  /\ pc = "sleep"
  /\ LoopUnlessShutdown("connect")
  /\ UNCHANGED <<pairingVars, hubState, bounds, shutdown, fetchState, desired, queues, batch,
                 procState>>

\* The end of run(): stop every process, publish, return.
Stop ==
  /\ pc = "stopping"
  /\ StopAll(supervised)
  /\ Record({})
  /\ pc' = "stopped"
  /\ UNCHANGED <<pairingVars, hubState, edits, shutdown, fetchState, desired, queues, batch,
                 supervised, process, strays>>

Step ==
  \/ Connect \/ Pair
  \/ FetchUnpaired \/ FetchFails \/ FetchAnswered \/ Prepare
  \/ RemoveOld \/ RespawnChanged \/ StartNew \/ StartNext \/ RecordStart
  \/ ScanDead \/ ReviveNext \/ Publish \/ Wake \/ Stop

------------------------------------------------------------------------------
(* The environment.                                                        *)

\* COSMOS installs or upgrades a service (a new specification, with the plugin
\* files that belong to it), or removes it.
EditSpec(s) ==
  /\ edits < MaxEdits
  /\ edits' = edits + 1
  /\ \/ /\ hubSpecs' = [hubSpecs EXCEPT ![s] = edits + 1]
        /\ hubFiles' = [hubFiles EXCEPT ![s] = edits + 1]
     \/ /\ hubSpecs[s] # 0
        /\ hubSpecs' = [hubSpecs EXCEPT ![s] = 0]
        /\ UNCHANGED hubFiles
  /\ UNCHANGED <<pairingVars, authorized, faults, shutdown, pc, fetchState, desired, queues,
                 batch, procState>>

\* Plugin files change under an unchanged specification.  A revision stands for
\* what dependencies() makes of the files, the requirements and the PYTHONPATH:
\* an edit that leaves those as they are changes no configuration and is none
\* here.
EditFiles(s) ==
  /\ edits < MaxEdits /\ hubSpecs[s] # 0
  /\ edits' = edits + 1
  /\ hubFiles' = [hubFiles EXCEPT ![s] = edits + 1]
  /\ UNCHANGED <<pairingVars, hubSpecs, authorized, faults, shutdown, pc, fetchState, desired,
                 queues, batch, procState>>

\* The hub holds the authorized set in memory only.
HubMoves ==
  /\ \/ HubStops /\ authorized' = {}
     \/ (HubStarts \/ HubReplaced) /\ UNCHANGED authorized
     \/ (PressRetry \/ \E to \in CosmosStates : CosmosChanges(to)) /\ UNCHANGED authorized
  /\ UNCHANGED <<hubSpecs, hubFiles, bounds, shutdown, pc, fetchState, desired, queues, batch,
                 procState>>

TimePasses == Tick /\ UNCHANGED opVars

\* The sync interval elapses.
SyncFallsDue ==
  /\ ~syncDue
  /\ syncDue' = TRUE
  /\ UNCHANGED <<pairingVars, hubState, bounds, shutdown, pc, specs, synced, files, haveFiles,
                 hostKeys, desired, queues, batch, procState>>

ChildDies(s) ==
  /\ child[s].live
  /\ Fail(1)
  /\ child' = [child EXCEPT ![s] = NoChild]
  /\ UNCHANGED <<pairingVars, hubState, edits, shutdown, pc, fetchState, desired, queues, batch,
                 supervised, process, strays, registry>>

\* A child without its lifeline reads EOF on stdin and exits.
StrayExits(s) ==
  /\ strays[s] > 0
  /\ strays' = [strays EXCEPT ![s] = @ - 1]
  /\ UNCHANGED <<pairingVars, hubState, bounds, shutdown, pc, fetchState, desired, queues, batch,
                 supervised, process, child, registry>>

RequestShutdown ==
  /\ ~shutdown
  /\ shutdown' = TRUE
  /\ UNCHANGED <<pairingVars, hubState, bounds, pc, fetchState, desired, queues, batch, procState>>

\* run() has returned.
Halted == pc = "stopped" /\ UNCHANGED vars

Environment ==
  \/ \E s \in Services : EditSpec(s) \/ EditFiles(s) \/ ChildDies(s) \/ StrayExits(s)
  \/ HubMoves
  \/ TimePasses
  \/ SyncFallsDue
  \/ RequestShutdown

Next == Step \/ RefreshLive \/ Environment \/ Halted

Spec == Init /\ [][Next]_vars

\* The operator thread is scheduled, timers elapse, and a child that lost its
\* lifeline exits.
Fairness ==
  /\ WF_vars(Step)
  /\ WF_vars(TimePasses)
  /\ WF_vars(SyncFallsDue)
  /\ \A s \in Services : WF_vars(StrayExits(s))

FairSpec == Spec /\ Fairness

------------------------------------------------------------------------------
(* Safety.                                                                 *)

\* Outside the removal step, the operator holds a process for exactly the
\* services of the desired set: removal and start never disagree about which
\* services exist, whatever is still queued.
SupervisedIsDesired ==
  /\ supervised = Present(desired) \cup removedNames
  /\ Present(desired) \cap removedNames = {}
  /\ removedNames # {} => pc = "remove"

\* A live child that does not run the desired configuration is queued to be
\* restarted: no change of the desired set is ever forgotten, also when the
\* start limit makes it wait for several cycles (respawn_changed).
StaleChildIsQueued ==
  \A s \in Services :
    child[s].live /\ s \in Present(desired) /\ child[s].cfg # desired[s]
      => s \in ToSet(changedNames)

\* No child outlives its process: a service that left the desired set was
\* stopped before its process was forgotten (remove_old), and replacing a
\* process never drops a running child (update).
ChildIsSupervised ==
  \A s \in Services : child[s].live => s \in supervised

\* No child runs a specification newer than the plugin files it was given
\* ("Nothing from a changed set is started until its files are on disk",
\* fetch()).
FilesPrecedeStart ==
  \A s \in Services : child[s].live => child[s].cfg.files >= child[s].cfg.spec

\* Once provision_and_start is done with a child it is among the recorded pids
\* for as long as it lives, and in the owners file too unless the last write of
\* it failed: "so a concurrent instance's startup sweep recognizes it as owned"
\* (provision_and_start, publish_status, ChildRegistry).
LiveChildIsRecorded ==
  \A s \in Services : child[s].live =>
    \/ spawned /\ s = Head(batch)
    \/ s \in recorded /\ (unsaved \/ s \in owners)

\* A start finds no live child in its process: "Called only from the start paths
\* - after any stop - so a venv rebuild never races a live process"
\* (provision_and_start).  A service that waits in newNames for the start limit
\* and is changed meanwhile is started by both start loops, so this fails
\* (MCOperator_limit.cfg).
StartsOnlyStopped ==
  pc \in Loops \ {"reviving"} /\ batch # <<>> /\ ~spawned => ~child[Head(batch)].live

\* After run() returns no process holds a live child.
StoppedMeansNoChild == pc = "stopped" => \A s \in Services : ~child[s].live

\* The operator stops a live child only when the hub no longer wants what the
\* child runs, when a change of it was queued, when it lost its pairing to a
\* retry, or at the end: an unreachable hub or a failed sync stops nothing.
StopsOnlyWithCause ==
  [][\A s \in Services :
       child[s].live /\ ~child'[s].live =>
         \/ faults' # faults
         \/ s \in ToSet(changedNames)
         \/ [spec |-> hubSpecs[s], files |-> hubFiles[s]] # child[s].cfg
         \/ client = NoClient
         \/ pc = "stopping"]_vars

------------------------------------------------------------------------------
(* What makes the safety properties inductive.                             *)

\* A process carries the desired configuration from the diff on, long before
\* the start that uses it.
ProcessIsCurrent == \A s \in Present(desired) : process[s].cfg = desired[s]

\* Only the child of the batch's first name is not recorded yet.
SpawnedIsFirst == spawned => pc \in Loops /\ batch # <<>>

\* Wherever a specification and a revision of files are kept together, the
\* files are at least as new.
FilesFollowSpecs ==
  \A s \in Services :
    /\ hubSpecs[s] <= hubFiles[s] /\ hubFiles[s] <= edits
    /\ specs[s] <= hubFiles[s]
    /\ synced[s] <= files[s]
    /\ desired[s].spec <= desired[s].files
    /\ child[s].cfg.spec <= child[s].cfg.files

Safe ==
  /\ SupervisedIsDesired /\ StaleChildIsQueued /\ ChildIsSupervised
  /\ LiveChildIsRecorded /\ SpawnedIsFirst /\ StoppedMeansNoChild
  /\ ProcessIsCurrent /\ FilesFollowSpecs

\* A cause to stop a child stays one until it is stopped, whatever the hub does
\* meanwhile: a revision that is gone from the hub never comes back.
CauseRemains ==
  \A s \in Services :
    /\ desired[s].files <= edits /\ files[s] <= edits /\ child[s].cfg.files <= edits
    /\ child[s].live =>
         /\ child[s].cfg.spec # 0
         /\ pc = "prepare" /\ specs[s] = 0 => hubSpecs[s] # child[s].cfg.spec
         /\ pc = "remove" /\ s \in removedNames =>
              client = NoClient \/ hubSpecs[s] # child[s].cfg.spec

\* The inductive invariant: type correctness, every safety property and what
\* they, and StopsOnlyWithCause, rest on.
Inductive == TypeOK /\ Safe /\ CauseRemains

------------------------------------------------------------------------------
(* Liveness.                                                               *)

\* The hub answers this operator from some point on, and nobody stops it.
Stable == Reachable /\ ~shutdown

\* Every service the hub wants runs with the hub's specification and files
\* under an identity the hub lets in, every other one does not run, and no
\* stray is left.
Converged ==
  \A s \in Services :
    /\ child[s].live <=> hubSpecs[s] # 0
    /\ child[s].live => child[s].cfg = [spec |-> hubSpecs[s], files |-> hubFiles[s]]
    /\ child[s].live => s \in authorized
    /\ strays[s] = 0

\* Whatever edits, deaths, failed spawns, syncs and outages came before, the
\* loop converges to the hub's set once the hub stays reachable.
Converges == <>[]Stable => <>[]Converged

\* A shutdown request ends with the loop stopped and no process left running.
ShutdownStopsEverything ==
  shutdown ~> (pc = "stopped" /\ \A s \in Services : ~child[s].live /\ strays[s] = 0)

------------------------------------------------------------------------------
(* What the loop promises.                                                 *)

Promise == INSTANCE Supervisor WITH
  want   <- desired,
  runs   <- [s \in Services |-> IF child[s].live THEN child[s].cfg ELSE NoConfig],
  due    <- ToSet(changedNames),
  closed <- pc = "stopped",
  None   <- NoConfig

\* The loop is a Supervisor: whatever is queued, limited, failed or interrupted,
\* a child is started with what is desired by then and stopped for a cause, no
\* change of the desired set is struck off before its child was stopped, nothing
\* happens after the end, and every service gets to run what is desired of it
\* (run(), update()).
KeepsPromise == Promise!FairSpec

=============================================================================
