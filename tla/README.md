# Verification of the COSMOS host app

The repository is a desktop app (and command line) that installs and runs COSMOS
in containers and supervises *host microservices*: Python processes that run on
the machine itself and talk to COSMOS through a *bridge hub*.  This directory
models the parts of it that keep state over time and act concurrently, checks
them with TLC and proves what holds for every size with TLAPS.  Paths below are
relative to the repository; `src/x.rs` is the app's Rust source.

## Inventory

| Part | State it keeps | Operations | Talks to |
|---|---|---|---|
| Pairing gate, `operator.rs` `maybe_connect` | client and ticket, attempts spent, next check, the retry flag it shares with the GUI | check readiness, spend an attempt, call the connector, apply a connection | container monitor, connector (`enroll.rs`), GUI |
| Container monitor, `monitor.rs`, `dockerapi.rs` | none; reads the engine | snapshot, run state and uptime out of words, readiness | the engine |
| Supervision loop, `operator.rs` `run` | desired set, synced set and files, host identities, three name queues, the process map | pair, fetch, sync files, authorize, diff, remove, restart, start, revive, publish, stop | hub, children, owners file, GUI (status, shutdown flag) |
| `OperatorProcess`, venvs, discovery, `operator.rs` | definition, child handle, venv with a fingerprint, discovery state | start, soft and hard stop, provision | the file system, pip, hub |
| Output capture, `operator.rs`, `bridge.rs` | a buffer per process, a channel per client | read, drain, forward | children, log sink, hub |
| Operator lifecycle, `gui/app_state.rs` | context, settings, the operator handle, busy and pending flags, quitting | restart, pair by token, quit, system exit, environment and status checks | worker threads, operator threads |
| Enrolment, `enroll.rs` | `identity.key`, `current.json` | load or mint the identity, resolve, auto-enrol, redeem a token, forget | hub, container runtime; called from operator threads and GUI jobs |
| Orphan sweep, `orphans.rs` | one owners file per app process | record children, sweep at start | other processes of the app |
| Child guard, `child_guard.rs` | OS guards | ends children with the app | the OS |
| Single instance, `single_instance.rs` | lock, show marker | acquire, take a request | other launches |
| Termination, `lifecycle.rs` | request flag | first signal asks, second exits | GUI heartbeat, command line |
| Host file sync, `hostfiles.rs` | the synced directory | manifest, apply delta, scan, dependencies and fingerprint | hub |
| Settings and writer, `settings.rs`, `gui/worker.rs` | settings, save queue | save, coalesce, flush | disk |
| Release checks, `update.rs`, `gui/app_state.rs` | slots for found releases, prompts | check, prompt, skip, install | GitHub, settings |
| Commands and upgrade, `commands.rs`, `install.rs` | the COSMOS folder | install, run, stop, upgrade | containers, downloads |
| Log sink, `logging.rs` | ring of records, generation | push, snapshot, clear | all threads |
| Context, env files, download, process | none over time | queries and subprocesses | the OS |
| Views, tray, command line | view state | rendering, dispatch | AppState |

Threads: the UI thread (never blocks), one operator thread, one worker per job,
check or task, the settings writer, output readers per child, the threads of the
bridge client.  Shared between them: the handle (moved, never shared), a retry flag,
a shutdown flag, published status, slots for releases, the log ring, files
under the app's root.  Other processes share the root directory as well.

What is hard here: the hub, Docker and the user change while the operator
blocks in a network call or a spawn; requests arrive while a job holds the
operator; name queues outlive the set they were computed for when starts are
limited; files are written in place by two threads; a second process sweeps
what it takes for orphans; directories and installs are replaced in steps that
may each fail; settings, slots and generations are read before they are used.
`PROJECT.json` lists each at its line.

What makes each part correct:

- *Pairing gate*: attempts are bounded, yet a retry or a restart of COSMOS always
  leads to another one, a stale client is replaced, and nothing is dialled before
  the containers are warm.
- *Supervision*: it supervises the desired set exactly, forgets no change, starts
  nothing before its files, leaves no child behind, and converges.
- *Output*: lines keep their order, a dead child's last words are logged.
- *Lifecycle*: one operator at a time, none lost, quitting ends, the operator
  follows the settings.
- *Enrolment*: hubs know the key on disk, a usable ticket after any failure, a
  manual ticket is not lost by one who read it.
- *Processes*: a sweep kills what nobody owns and nothing else; a second launch
  brings up the window of the first.
- *Files and environments*: what is marked complete is, and says what it is made
  of; a working environment is kept; interrupted work is made good.
- *Upgrade*: what is started is the whole of the release asked for.
- *Settings and releases*: an acknowledged flush is on disk; the release
  skipped last stays away, a newer one is offered.

## Plan

Done: `BridgePairing` and `Containers` composed in `Pairing`; `Operator` and the
abstract `Supervisor` it implements; `OperatorLifecycle`; `Enrollment`;
`Instances` (owners files, sweeps, single instance, child guard, signals);
`Venv` and `HostFiles` composed in `Provision`, and `Venv` again in `Discovery`;
`Upgrade`; `SettingsSaver` in `Releases`; `LogSink` in `Output`.  Each property of a
passing run that is not one of liveness is a theorem.

Left, in this order:

1. The headless `openc3 microservices` as a fourth actor of `Enrollment`.
2. `build`, `restart` and `cleanup` of `commands.rs` as tasks of `Upgrade`.
3. The contents of a child's environment, and stderr in `Output`.

## The modules

A definition marked "slip" is the next definition with a plausible bug in it.
No action uses one; it is there to be substituted, which must break a property.
A violating run, or configuration, checks one property, which a comment or text of the
code states and the code does not keep.

### Pairing: BridgePairing over Containers (`MCPairing`, `PairingProofs`)

One cycle's call of `maybe_connect` is `CheckCosmos` (retry swap, throttle,
readiness, warm-up, attempt limit) followed, when it calls the connector, by
`ConnectSucceeds` or `ConnectFails`: the call blocks the thread, so containers,
hub (`HubStops`, `HubStarts`, `HubReplaced`), the Retry button (`PressRetry`) and
time (`Tick`) act in between.  A tick is one check interval.  The connector
succeeds exactly when the hub answers, which is what automatic enrolment gives
(a stale certificate enrols again).  `Operator` uses the gate like this, with an
environment that may change readiness and uptime at will.

`Containers` is where readiness comes from: each container starts, stops, crashes,
is paused or removed, the daemon goes and comes back, and the engine tells the age of
what runs in words (`HumanDuration`: "Less than a second", "About a minute", hours
rounded, weeks, months, years), which `Uptime` reads back.  The age that `Containers`
keeps stops growing past a minute, since nothing tells a minute from two apart but
the words, and those are covered by the ages the containers of the run are
found with: fresh, an hour, and two years (a unit the code does not know).
`Pairing` puts the two together and keeps two history variables: how long a call of the
connector has lasted, and whether a start of COSMOS is owed an attempt.

| Run | Shows |
|---|---|
| `pairing` | what is read of the containers moves as `BridgePairing` lets it (its specification is a property of the composition); the connector is called only over containers of the app's own project that ran for the warm-up; attempts are bounded while nothing changes; a retry reaches the connector and repairs a stale client; each restart of COSMOS re-arms the attempts |

Bounds: two own containers and one of another project, two moves of containers, one
outage, two hub identities, one retry, two attempts, the code's interval of 15 s and
warm-up of 30 s.  A restart needs two moves and a second interval of failures;
nothing distinguishes a third.  `ConnectTicks` keeps a call shorter than the warm-up:
with a longer one `RestartRearms` is refuted, since the call hides a restart from the
checks.  Fairness: the thread is scheduled, the connector returns, time passes.  That the
connector returns is an assumption about `docker compose run` and the transport; its
calls have no timeout of their own.

### Operator and Supervisor (`MCOperator`, `OperatorProofs`)

The state is the operator's fields by their names, the children, and the hub's
side.  `pc` is the method of the loop.  A configuration is the pair of a
specification revision and a revision of its files, which is what
`compute_changes` tells apart.  `Connect`, `Pair`, `FetchUnpaired`, `FetchFails`,
`FetchAnswered` and `Prepare` are `update()`, cut at its hub calls; `Diff` is its
tail.  `RemoveOld`, `RespawnChanged`, `StartNew`, `ScanDead` are the methods of
those names, with `StartNext` and `ReviveNext` one turn of their loops (a spawn
blocks).  A start is two steps: `StartNext` or `ReviveNext` spawns, and `RecordStart`
is `registry.add` and what follows it; in between (`spawned`) the child lives and is in
no record, which is when the sweep of another instance takes it for nobody's.  `recorded`
is what the operator remembers of pids and `owners` what the file says: a write of the
file may fail, which only the next change of the pids repairs.  `Publish`, `RefreshLive`,
`Wake` and `Stop` end the cycle.  A replaced process drops its live child to `strays`;
such a child reads EOF and exits.

`Supervisor` is what all this promises, without how: a configuration that is wanted of
each service, one that runs, the services due a restart, and that each service
again and again runs what is wanted of it.  `KeepsPromise` is its specification, fairness
included, over the loop's state: what is wanted is `desired`, what runs is the child in the
process map, due is whatever is queued as changed.

| Run | Shows |
|---|---|
| `operator` | two services, start limit one, edits, deaths, failed spawns, syncs, authorizations: the safety properties (a live child is recorded from `registry.add` on, and in the owners file unless its last write failed), that the loop implements the supervisor, convergence, and that a shutdown ends with nothing running |
| `operator_hub` | one service under the code's own limit of five, the hub goes, returns, changes identity, the user retries: only a cause stops a child, and the inductive invariant holds |

Bounds: both services new under a limit of one leave a name queued for the next
cycle, and one edit (`edits` starts at one) then queues it again as changed, or
removes it; `operator_hub` has a second edit, and no fault but the hub's, which fails
polls, syncs and authorizations.  With one service no limit matters, so
that `operator_hub` takes the default; a limit of one and two services stand for the
default and six.  One fault is one failure of any of
several steps.  Fairness: the thread is scheduled, timers elapse, a child without
its stdin exits.

### OperatorLifecycle (`MCOperatorLifecycle`, `LifecycleProofs`)

An event handler of the UI thread is one action; a worker's job is a record that
walks through `forget` or `redeem`, `stop`, `join`, `start`, `done`, and its result
is one more event (`JobSettles`).  `jobs` is a set although `operator_busy` allows
one: that there is one is a result.  `checks` holds what an environment or status
check read of the installed version and has not delivered yet.  An operator is
its thread: `running`, `asked` and the context it was `built` with.  A development
context stands for the pair of folders the code compares.  `LeaveStops`,
`LeaveJoins` and `LeaveTimesOut` are the workers of `finish_quit` and of the exit
hook.  A worker that panics is not modelled.

| Run | Shows |
|---|---|
| `lifecycle` | three inputs, system exits among them: never two operators, none lost, the app's own quit ends and leaves none, the operator follows settings, runtime and version, a queued re-enrolment is carried out |

Bounds: two threads suffice because a third could only run beside two others,
which `OneOperator` excludes (and `LifecycleProofs` proves for any number); three
inputs are a settings visit with a change and a second request, or a quit, during the
job it starts.  Fairness: the event queue, the heartbeat, workers and checks run, an
asked operator ends, a first environment check arrives.  Nothing the user does is fair.

### Enrollment (`MCEnrollment`, `PairingProofs`)

Three actors share two files without a lock: the operator's connector
(`connect_bridge`), a job of the GUI (drop the ticket or redeem a token, then stop
the old operator and start a new one) and the `bridge-enroll` command, another
process.  `task[a]` is where an actor is and what its local variables hold: its
key, its ticket with the `TicketSource`, and, as history, what `resolve_ticket` and
`forget_cached_ticket` read of `current.json` (`resolved`, `dropped`).
Writing a file in place takes two steps; a reader, a crash or a failed write in between meets
a torn file, a writer whose file was removed meanwhile writes to nothing, and two
overlapping writers may leave text that does not parse.  A hub knows one key;
recreating it changes what its tickets are checked against.  `minters` is a history
variable.  That there is one operator and one job comes from the lifecycle
module.  How long COSMOS has to be up and how many attempts are made is
`BridgePairing`'s part.  Permissions, the bridge's name and the one-time code, which
the hub checks, are left out, and so is a read error other than a torn file.

| Run | Shows |
|---|---|
| `enrollment` | a manual ticket is not overwritten by an attempt that resolved it nor removed by a drop that read it; hubs know the key on disk while one actor minted; without a manual ticket the operator pairs again by itself, unless the identity is torn or the hub knows another key |

Bounds: two contexts, one recreation of a hub, two things the user does, one failure
or crash; that is a token redeemed or a context changed, while another actor enrols,
with one of them interrupted.  The run starts at the first launch (the race to mint
an identity included), or with a ticket in the environment.  Fairness: the
operator's loop and the job's worker run, as do their steps.  That an unpaired
operator tries again is justified by the gate: the bounded failures are fewer than
its attempts, and recreating a hub restarts COSMOS, which re-arms them.

### Instances (`MCInstances`, `InstancesProofs`)

Processes that share one root.  `ui[a]` is where the main thread of a process is
(the lock, the marker and the window of `single_instance.rs`), `op[a]` where its
operator thread is: the sweep of `orphans.rs` in its three steps (`SweepRead`,
`SweepList`, `SweepKill`), then the loop, which spawns, records and publishes a
child.  `owners` is what is in the owners files, `pids` what each process
remembers.  A process ends by a signal (`Signal`, `Exit`) or a crash (`Die`); a
child that is not tied to it then lives until it reads EOF (`ChildWatches`,
`ChildSeesEof`).  A dead owner's pid may be used again (`PidReused`).  `before[a]` is
a history variable: what was recorded, and what was stray, when the sweep began.

| Run | Shows |
|---|---|
| `instances` | a sweep never picks a child a running process had recorded, leaves no stray but behind a pid used again, and a second launch gets a window to see |

Bounds: two launches of the GUI, a console operator with two children, one fault.
`Ties = {FALSE}` is the worst case, macOS, where the OS ends no child with its
parent.  The owner of the children, a sweep beside it and one after it are three
processes; two children let a file lag behind by one.  Fairness: the threads of a
launch and the watcher and heartbeat of a GUI run.  No crash, no sweep and nothing of
the children is fair.

### Provision over Venv and HostFiles (`MCProvision`, `ProvisionProofs`)

`Operator` takes a sync and a start for one step each; this looks inside them for
one service.  `SyncBegin` asks the hub for a delta, `SyncFile` and `SyncFileFails` apply
it one file at a time, `SyncDone` scans, `Diff` takes the requirements and their fingerprint
into the configuration, and a start is `ensure_venv` and `swap_venv` step by step
(`Venv`: create, install, mark, move aside, place, drop).  Any step may fail and
`Restart` ends the process at any of them.  A directory is removed or cleared entry by
entry: what a failure or an end leaves of it is any of its interpreter, packages and
fingerprint (`Remains`), also where the code ignores the error.  `HostFiles` holds the pure part: manifest,
scan, dependencies of a plugin and install, fingerprint.  A file's content is a
revision; hashes are taken to be free of collisions.  An environment is its
interpreter, what is installed in it and the fingerprint in it.

| Run | Shows |
|---|---|
| `provision` | until a clear of a marked staging environment stops half-way, a fingerprint is only on a complete environment and tells what was installed in it; a working environment is kept; and in the end disk, configuration and environment are what the hub asks for, unless such a half-cleared environment is in place |

Bounds: the plugin's own requirements, those of its install and a file of another
plugin; one edit, to a second revision; two faults, so that a failure meets what an
earlier one left.  Fairness: the operator thread runs, a runner without its packages fails,
and a sync falls due again and again (strong fairness: it is every so many seconds of
the loop, which is elsewhere in between).

Three exceptions are part of what is checked.  A swap that is cut between its renames
(`cut`) leaves no environment in place, and the rebuild that follows may fail.  And
a sync that a change of the set forced and that failed half way (`parted`) leaves newer
files under a configuration with the older fingerprint, so that an environment built
meanwhile bears a fingerprint it is not made of, until the next sync that succeeds
has it rebuilt.  The third is a flaw of its own: a first environment that was marked and
never moved into place is cleared by the next build, and if that fails after the packages are gone and
before the fingerprint is (`halved`), the remains are moved into place, marked
and incomplete, which no later start repairs (`Stuck`).

### Discovery over Venv (`MCDiscovery`)

`update_discovery` builds an environment in a detached thread, which outlives a
stopped operator; each operator has its own `discovery_state`.  The worker's
requests, the runner they get and their answers are there, too.

| Run | Shows |
|---|---|
| `discovery` | violation: after a restart of the operator two threads build in one staging directory, and a fingerprint ends up on an environment without its packages |

Without faults, with two operators and one request.  The first thread has installed
and is about to record its fingerprint; the second empties the directory with `uv venv
--clear`; the first writes the fingerprint and moves the directory into place.

### Upgrade (`MCUpgrade`, `UpgradeProofs`)

A task (`install`, `run`, `stop`, `upgrade`) walks through `read`, `stop`, `wipe`,
`check`, `download`, `move`, `setup`, `restore` and `up`, as its function does.  The folder is
two entries, `compose.yaml`, by which the code knows an install, and `.env`, from which
it reads the version; each belongs to a release or is missing.  A file to preserve that
cannot be read is left out (`ReadPreserved`), and an upgrade ends where there is no folder to remove.  Tasks fail at any
step, and the app ends while they run.

| Run | Shows |
|---|---|
| `upgrade` | whatever failed before, an upgrade that starts COSMOS starts the whole of the release it was asked for, with the files it read of the user |
| `upgrade_lost` | violation: an app that ends between removing the folder and restoring the user's files loses them |

Bounds: three tasks, two faults and one end of the app let two tasks fail in different
ways before the third; two editions of different length (Core has a second release)
tell an upgrade from a change of edition.  No liveness is asked.

### Releases over SettingsSaver (`MCReleases`, `ReleasesProofs`)

A behaviour follows the app's releases or COSMOS's (`product`).  `PeriodicCheck`,
`CheckForUpdates` and `CheckAnswers` fill the slot; `Heartbeat` makes a prompt of it;
`Accept`, `Skip` and `Dismiss` are the user's.  A check remembers whom it was started by and
for which edition, since its answer comes later.  `SettingsSaver` is the writer's thread: a save
coalesces into a batch, a write may fail or be torn by a crash, a flush is acknowledged.
The installation is one step here (`Upgrade` looks inside).

| Run | Shows |
|---|---|
| `releases` | what a flush acknowledged is in the file; the release skipped last is not offered again, nor after a restart; a newer one is offered whatever was skipped, dismissed or left in the slot before |

Bounds: three releases of Core and of the app, so that one can be skipped and a newer
one come while the older is in the slot; one other input, one fault, one end of the
app.  A release the user skipped, or did not yet answer, before a crash may come
again: `skipped` and `former`, the history of what the user skipped last and before that, are of what was stored.  Fairness: the checker comes round, checks are
answered, the heartbeat beats.

### Output over LogSink (`MCOutput`, `OutputProofs`)

A line goes from a child's pipe (`ReadLine`) into the buffer, which the children of a
service share, from there into the log table (`PushLine`) and the channel of a bridge
client (`SendLine`), and by its forwarder to the hub (`ForwardLine`).  `Scan`, `FindAlive`,
`FindDead` and `StartChild` are `respawn_dead`; `Change` and `RemoveService` replace or drop
the buffer.  `LogSink` has the ring behind its lock, the generation outside it, and the
two reads of the heartbeat and the three steps of `clear_log` between which a record may come.

| Run | Shows |
|---|---|
| `output` | lines stay in order and are not doubled, at the hub as in the table; the last words of a dead child are logged; the table comes to show what is logged |

Bounds: two lines, two children, two clients, a ring of two records, one clear.  Two of
each are what it takes to be in the wrong order.  Fairness: readers, loop and heartbeat run.

## Where the code differs from what one might expect

Modelled as the code does it; the properties are stated around them.  Those that a
text of the repository rules out are refuted, each in seconds: two by the runs
`discovery` and `upgrade_lost`, which are the findings in `PROJECT.json`, and four by
configurations that are not among the runs.

| Configuration | Refutes | What happens |
|---|---|---|
| `MCOperator_limit.cfg` | `StartsOnlyStopped`: `provision_and_start` is "Called only from the start paths — after any stop — so a venv rebuild never races a live process" (`operator.rs:888-891`) | a new service waits for its turn under the start limit and is changed meanwhile: it is started as a changed one, and once more as a new one with its child alive |
| `MCEnrollment_manual.cfg` | `ManualIsUntouched`: "Manual tickets and an explicit environment override remain user-owned and untouched" (`enroll.rs:306-307`) | the user pairs by hand while the operator tries its stale automatic ticket; `forget_cached_ticket` reads the manual one and keeps it, and the operator then enrols and saves its own over it (`enroll.rs:322`) |
| `MCProvision_cleared.cfg` | `IncompleteIsRetried`: "Without an existing venv the (possibly incomplete) staged venv is used anyway, and the install is retried on the next start" (`operator.rs:213-215`) | a first environment is complete and marked but not moved into place; the next build's `--clear` of it fails half-way, its remains are moved into place (`operator.rs:347-358`), and the fingerprint in them passes for that of a complete one ever after (`operator.rs:231-236`) |
| `MCReleases_skipped.cfg` | `SkippedStaysSkipped`: "A release version the user chose to skip; the update prompt won't reappear for it" (`settings.rs:75-76`) | version 2 is skipped and put into the slot again by a periodic check; version 3, found by "check now", is skipped, which takes the place of the first skip (`app_state.rs:877`, `907`); the heartbeat offers version 2 |

What the code does keep of these is what the runs check: `ManualIsKept`,
`MarkedIsComplete` up to a half-way clear, `LastSkippedStaysSkipped`.

- A service that is both new and changed under a start limit (the default is five) is
  started twice: the second start replaces its live child.
- Between its spawn and `registry.add` a child is in no record, and after a failed write of
  the owners file the file lags until the pids change again.
- The settings remember one skipped version of the app and one of COSMOS.
- A child of an unchanged service keeps the ticket and the log channel it was
  started with when the operator connects anew.
- `maybe_connect` looks at the containers of this machine before anything else, so that
  a COSMOS elsewhere is never paired with.
- The cleanup dialog, the setup page and pairing leave Settings without comparing
  the context with the operator's, which then stays with the old one.
- A system exit while a job holds the operator leaves it to the job.
- A re-enrolment drops the ticket before the old operator has stopped, which may still
  save one of the old context; and an automatic enrolment that began before a
  token was redeemed saves over the manual ticket, whether or not the operator read it on
  the way (`enroll.rs:322`).
- "Check for updates" offers a release in development mode too, and both update prompts may
  be up although one modal is meant to be at a time (`app_state.rs:525`).
- A record that comes while the user clears the log may not be shown until the next.
- A line that is not UTF-8 ends its reader.
- A container that restarts again and again does not keep COSMOS from being ready.

## Proofs

Each theorem holds for every value of the constants that the module's named
ASSUMEs admit; TLC evaluates these on each run.  Every one follows from an inductive
invariant, proved with one lemma per action or group of actions.

- `OperatorProofs`: `TypeCorrect`, `SupervisionIsExact`, `ChangesAreKept`, `NoChildEscapes`,
  `FilesComeFirst`, `RecordIsComplete`, `StoppedIsEmpty`, for any finite set of services
  and any start limit.  The invariant is `Inductive` = `TypeOK /\ Safe /\ CauseRemains`.  The properties alone are not inductive:
  a child is as new as the process it was started from, so `ProcessIsCurrent` ties
  the process map to the desired set; and that files precede a start rests on
  every place that keeps a specification next to a file revision (`FilesFollowSpecs`).
  That a child which is not recorded yet is that of the batch's first name (`SpawnedIsFirst`)
  is what `RecordIsComplete` needs of the window between spawn and record.
  `StopsHaveCauses` is an action property, and the cause may lie several steps back:
  `CauseRemains` says that it is still one when the child is stopped, because a
  revision that is gone from the hub never comes back.
  `LoopIsASupervisor`: the loop implements the abstract supervisor, every step maps
  to one of its steps or a stutter.  On top of the invariant it needs that what has no
  specification has no files (`NoSpecNoConfig`).
- `LifecycleProofs`: `NeverTwoOperators`, `NoOperatorIsLost`, `QuitStopsTheOperator`, for any
  number of threads.  The invariant `Held` says who holds the one thread that may
  run: the `AppState`, the one job there is, or the worker that leaves, and at which
  of a job's steps that thread is the old one, none, or the new one.
  `SettledIsAsAsked` and `RequestsAreServed` are the safety half of `OperatorFollows`
  and `ReenrollHappens`: fairness apart, a settled app has no request left, holds a thread
  exactly when it believes the bridge enabled, one that nobody asked to stop and that was started
  with the container runtime there is now, and none if the user disabled the bridge;
  and a queued request turns only into the stronger one or into its job.  The
  invariant is `AsTold`: a job works for what the app wants, or a request waits for
  its end, and a rejected token hands back a handle that still fits.
- `PairingProofs`, the gate: `GateImplementsPairing`, that the gate over containers
  implements `BridgePairing`, and `ConnectorIsCalledWarm`, for any set of containers,
  of any age the engine has words for.  `GateInvariant` says that readiness and uptime
  are those last read.  `Words` is the core: what `Uptime` makes of the engine's words is
  exact below a minute and at least a minute from there on.  So the words tell
  the intervals up to the warm-up as the seconds would (`Reading`), provided the
  warm-up ends within the minute (`GateAssumption`; the code's is 30 s), and an interval
  adds one to them (`AgingCounts`).
- `PairingProofs`, enrolment: `ManualIsKeptByItsReaders` (an action property) and
  `HubsKnowOurKey`.  The module holds both systems, which share nothing.  What is written to a file comes out of a task, so `TaskOf` says what a task
  holds at each of its places; `KeyInv` adds that, while at most one actor minted, a task that
  is not minting holds the key on disk or none.
- `InstancesProofs`: `SweepSparesTheRecorded` and `SweepEndsStrays`, for any launches and
  children.  `Kept` says what a sweep has made of the recorded and of the stray at each
  of its stages (`Spares`, `Sweeps`), and that an owners file may lag behind the set in memory
  but never loses a live child (`Registered`).
- `ProvisionProofs`: `NoHalfBuiltVenvIsMarked`, `WorkingVenvSurvives`, `MarkIsOfItsContent`.  `Built` is
  what the builder relies on at each of its places; `Told` that the configuration says
  what is on disk while no sync runs, without which the fingerprint that is written
  would not be of what was installed.  What a partial removal leaves has no fingerprint
  that was not there before (`WhatIsCleared`, `AsideIsComplete`), and where it leaves one
  without its content, `halved` says so.
- `UpgradeProofs`: `UpgradeStartsItsRelease`, from what an upgrade has made of the
  folder by each of its steps (`Replaced`).
- `ReleasesProofs`: `AcknowledgedIsOnDisk` and `LastSkippedIsNotOffered`.  A flush is asked for once, by the
  quit after which nothing is saved (`FlushIsLast`), and what was saved last is the newest
  of what waits, what is being written and what is stored (`NothingIsLost`).

- `OutputProofs`: `OrderIsKept`.  That the hub and the table are in order is not
  inductive: `OrderedOnTheWay` says the same of each stretch of the way (pipe, buffer,
  batch, channel), and that each is behind the one ahead of it.  `NoLineDropped`
  is what `LastWordsAreLogged` rests on without fairness: a line that was printed is
  logged or on its way.  `StaleIsMarked` is the same for `TableCatchesUp`: a copy of the
  ring that is behind has another generation, once the writer of a record
  is through.  It ends with the first clear, which takes the generation of another
  thread's record for its own (`clear_log`).

Every one of them comes with type correctness.  Only model-checked: liveness (fairness and
ENABLED are outside the prover's reach), which includes that part of `KeepsPromise`
and, of the gate, `NeverCyclesForever` and the retry properties.

## Not modelled

- Docker, Podman, WSL, uv and Python installers, and the downloads: sequences of
  subprocesses whose only result is success or failure, which is how the modules
  that call them see them.
- `build`, `restart`, `cleanup`, `cli` and `util` of `commands.rs`: one tool each.
- Detection of paths and of the runtime, and parsing of environment files.
- Views, tray, argument parsing, packaging.
- The Iroh client itself.  Its calls are actions of their callers.  Only the interface
  status and discovery's poll, run and scan have timeouts;
  `fetch_host_microservices`, `authorize` and `sync_files` wait as long as the
  transport does, and a call that never returns is a loop that stands still.
- The order of `PYTHONPATH`, the environment of a child, names that leave a directory.
- How Linux death signals, process groups and Windows jobs tie a child to its parent;
  the installation of signal handlers.

Three hazards have no property, since nothing in the code keeps them from happening: the
stale ticket of an unchanged child, the decision to restart by a remembered
context, and the bridge calls without a timeout.
