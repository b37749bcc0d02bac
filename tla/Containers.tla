----------------------------- MODULE Containers -----------------------------
(***************************************************************************)
(* The local COSMOS containers and how the app learns of them              *)
(* (src/monitor.rs, src/dockerapi.rs): a snapshot, through the Docker API  *)
(* or else the command line, of the containers of one compose project;     *)
(* what each is doing and since when, told by the engine in words ("Up     *)
(* About a minute (healthy)"); and the readiness for pairing that comes of *)
(* it.                                                                     *)
(*                                                                         *)
(* Names, images, ports, health and the CPU and memory of a container are  *)
(* shown to the user only; they are left out.                              *)
(***************************************************************************)
EXTENDS Integers, FiniteSetsExt

CONSTANTS
  Own,           (* the containers of the project the app looks at            *)
  Others,        (* containers of other projects, which always run            *)
  Ages,          (* of each, how many seconds it has been running when the    *)
                 (* app starts, if it is                                      *)
  Interval       (* BRIDGE_CHECK_INTERVAL in seconds                          *)

ASSUME ContainersAssumption ==
  /\ Ages \in [Own \cup Others -> Nat]
  /\ Interval \in Nat \ {0}

VARIABLES
  daemon,        (* the engine answers, on its socket or to its command line  *)
  containers     (* of each one: what it does and for how many seconds        *)

containerVars == <<daemon, containers>>

NoContainer == [does |-> "absent", for |-> 0]
Running(s)  == [does |-> "running", for |-> s]
IsRunning(c) == containers[c].does = "running"
RunningOnes  == {c \in Own : IsRunning(c)}

------------------------------------------------------------------------------
(* What the engine says.                                                   *)

About     == -1     \* "About a minute", "About an hour"
LessThanA == -2     \* "Less than a second"

Scale == {[unit |-> "second", size |-> 1,        from |-> 0,        below |-> 60],
          [unit |-> "minute", size |-> 60,       from |-> 60,       below |-> 3600],
          [unit |-> "hour",   size |-> 3600,     from |-> 3600,     below |-> 171000],
          [unit |-> "day",    size |-> 86400,    from |-> 171000,   below |-> 1207800],
          [unit |-> "week",   size |-> 604800,   from |-> 1207800,  below |-> 5182200],
          [unit |-> "month",  size |-> 2592000,  from |-> 5182200,  below |-> 63070200],
          [unit |-> "year",   size |-> 31536000, from |-> 63070200, below |-> 2147483647]}

\* A duration in words: the scale's first unit that is coarse enough; hours are
\* rounded to the nearest.
HumanDuration(s) ==
  LET step  == CHOOSE u \in Scale : u.from <= s /\ s < u.below
      count == IF step.unit = "hour" THEN (s + 1800) \div 3600 ELSE s \div step.size
  IN [count |-> IF s = 0 THEN LessThanA
                ELSE IF count = 1 /\ step.unit \in {"minute", "hour"} THEN About ELSE count,
      unit  |-> step.unit]

\* The words of a container's State and Status that the app looks for, and the
\* duration after "Up ".
Says == [running |-> {"up"}, paused |-> {"up", "paused"}, restarting |-> {"restart"},
         exited  |-> {"exited"}]
StatusOf(c) == [words |-> Says[c.does], up |-> HumanDuration(c.for)]

------------------------------------------------------------------------------
(* What the app makes of it.                                               *)

\* run_state; the exit code does not matter here.
UpIsRunning(status) ==   \* slip
  IF "up" \in status.words THEN "Running" ELSE "Unknown"
RunState(status) ==
  IF "restart" \in status.words THEN "Restarting"
  ELSE IF "paused" \in status.words THEN "Paused"
  ELSE IF "up" \in status.words THEN "Running"
  ELSE IF "exited" \in status.words THEN "Exited"
  ELSE "Unknown"

\* uptime, of one that is running: a unit it does not know is a long time.
Long  == 2147483647
Units == [second |-> 1, minute |-> 60, hour |-> 3600, day |-> 86400, week |-> 604800,
          month |-> 2592000]

CountOnly(duration) ==   \* slip
  IF duration.count < 0 THEN 0 ELSE duration.count
Uptime(duration) ==
  IF duration.count = LessThanA THEN 0
  ELSE IF duration.unit \notin DOMAIN Units THEN Long
  ELSE (IF duration.count = About THEN 1 ELSE duration.count) * Units[duration.unit]

\* collect, snapshot_via_cli: what belongs to the project of the working
\* directory.
Everything(list) ==   \* slip
  list
Labelled(list) == list \ Others
Snapshot ==
  {StatusOf(containers[c]) :
     c \in Labelled({k \in Own \cup Others : containers[k] # NoContainer})}

\* cosmos_readiness: the least uptime of those that run, if any.
CosmosReadiness(statuses) ==
  LET uptimes == {Uptime(status.up) : status \in {s \in statuses : RunState(s) = "Running"}}
  IN [state  |-> IF ~daemon THEN "docker_unavailable"
                 ELSE IF statuses = {} THEN "no_containers"
                 ELSE IF uptimes = {} THEN "not_running" ELSE "up",
      uptime |-> IF ~daemon \/ uptimes = {} THEN 0 ELSE Min(uptimes)]

Read == CosmosReadiness(Snapshot)

------------------------------------------------------------------------------
(* What they do.                                                           *)

Container == [does : {"absent", "exited", "running", "restarting", "paused"}, for : 0..(Long - 1)]

ContainersTypeOK ==
  /\ daemon \in BOOLEAN
  /\ containers \in [Own \cup Others -> Container]
  /\ \A c \in Own \cup Others : containers[c].does = "absent" => containers[c] = NoContainer

ContainersInit ==
  /\ daemon \in BOOLEAN
  /\ \E all \in {"absent", "exited", "running"} :
       containers = [c \in Own \cup Others |->
                       IF c \in Others \/ all = "running" THEN Running(Ages[c])
                       ELSE [does |-> all, for |-> 0]]

Turns(c, what, s) ==
  /\ daemon
  /\ containers' = [containers EXCEPT ![c] = [does |-> what, for |-> s]]
  /\ UNCHANGED daemon

StartContainer(c) == Turns(c, "running", 0)
StopContainer(c)  == IsRunning(c) /\ Turns(c, "exited", 0)
CrashContainer(c) == IsRunning(c) /\ Turns(c, "restarting", 0)
RemoveContainer(c) == containers[c] # NoContainer /\ ~IsRunning(c) /\ Turns(c, "absent", 0)
PauseContainer(c) == IsRunning(c) /\ Turns(c, "paused", containers[c].for)
UnpauseContainer(c) ==
  containers[c].does = "paused" /\ Turns(c, "running", containers[c].for)

\* The engine stops or starts, and with it, or not, the containers that run.
DaemonChanges ==
  /\ daemon' = ~daemon
  /\ \/ UNCHANGED containers
     \/ containers' = [c \in DOMAIN containers |->
                         IF c \in Own /\ IsRunning(c) THEN Running(0) ELSE containers[c]]

ContainersMove ==
  \/ \E c \in Own :
       \/ StartContainer(c) \/ StopContainer(c) \/ CrashContainer(c) \/ RemoveContainer(c)
       \/ PauseContainer(c) \/ UnpauseContainer(c)
  \/ DaemonChanges

\* An interval passes; from a minute on their age does not matter any more.
ContainersAge ==
  /\ containers' = [c \in DOMAIN containers |->
                      IF IsRunning(c) /\ containers[c].for < 60
                      THEN Running(containers[c].for + Interval) ELSE containers[c]]
  /\ UNCHANGED daemon
=============================================================================
