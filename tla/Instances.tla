------------------------------ MODULE Instances ------------------------------
(***************************************************************************)
(* Processes of the app that share one root directory: launches of the     *)
(* GUI, of which one is to run (single_instance.rs), and console operators *)
(* (openc3 microservices).  Each runs an operator that sweeps what earlier *)
(* runs left behind (orphans.rs), starts children tied to its own life     *)
(* (child_guard.rs) and records them in an owners file; a process ends     *)
(* gracefully when asked to (lifecycle.rs) or by a crash.                  *)
(*                                                                         *)
(* What an operator starts, and when, is the module Operator's; here it    *)
(* starts children one after the other.  A child stands for its process    *)
(* tree (orphans() and hard_stop treat the interpreter behind a Windows    *)
(* launcher like its parent).  The owners files are read in one step: a    *)
(* file is replaced by a rename, and the window that matters, between      *)
(* reading them and listing the processes, is there.                       *)
(*                                                                         *)
(* A definition marked "slip" is the next one with a plausible bug.  No    *)
(* action uses a slip: substituted for that definition it shows that the   *)
(* properties notice.                                                      *)
(***************************************************************************)
EXTENDS Integers, FiniteSets

CONSTANTS
  Guis,         (* launches of the GUI                                        *)
  Consoles,     (* runs of openc3 microservices                               *)
  Starts,       (* bound: how many children each of them starts               *)
  Ties,         (* whether the OS ends a child with its parent: {FALSE} on    *)
                (* macOS, {TRUE} on Linux, either on Windows (the job may not *)
                (* be created or assigned)                                    *)
  MaxFaults,    (* bound: crashes, failed writes, listings and locks, ...     *)
  None

Apps     == Guis \cup Consoles
Children == UNION {{a} \X (1..Starts[a]) : a \in Apps}
Owner(c) == c[1]

ASSUME InstancesAssumption ==
  /\ Guis \cap Consoles = {} /\ None \notin Apps
  /\ Ties \subseteq BOOLEAN /\ Ties # {}
  /\ Starts \in [Apps -> Nat] /\ MaxFaults \in Nat

VARIABLES
  ui,         (* where the main thread of each process is                     *)
  op,         (* where its operator thread is                                 *)
  asked,      (* processes asked to end (lifecycle::requested, Quit)          *)
  lock,       (* who holds the lock of the single instance                    *)
  marker,     (* the show marker exists                                       *)
  show,       (* processes whose show_requested is set                        *)
  child,      (* state of each child                                          *)
  tied,       (* children the OS ends with their parent                       *)
  owners,     (* the pids in each process's owners file; {}: no file          *)
  pids,       (* ChildRegistry::pids of each process                          *)
  protected,  (* the sweep's local list of pids other instances own           *)
  targets,    (* the sweep's local list of orphans                            *)
  reused,     (* ended processes whose pid an unrelated process has now       *)
  faults,
  holder,     (* history: who held the lock when a launch found it taken      *)
  waiting,    (* history: launches that left their marker and saw no window   *)
  before      (* history: what there was when each operator began to sweep    *)

window   == <<lock, marker, show, holder, waiting>>
registry == <<owners, pids>>
sweep    == <<protected, targets, reused, before>>
family   == <<child, tied>>
vars     == <<ui, op, asked, window, family, registry, sweep, faults>>

Live(c)       == child[c] \in {"starting", "watching"}
Running(a)    == ui[a] \notin {"off", "gone"}
ChildrenOf(a) == {c \in Children : Owner(c) = a}

InstancesTypeOK ==
  /\ ui \in [Apps -> {"off", "clearing", "opening", "up", "asking", "gone"}]
  /\ op \in [Apps -> {"off", "read", "list", "kill", "loop", "adding"}]
  /\ asked \subseteq Apps
  /\ lock \in Guis \cup {None}
  /\ marker \in BOOLEAN
  /\ show \subseteq Guis
  /\ child \in [Children -> {"none", "starting", "watching", "ended"}]
  /\ tied \subseteq Children
  /\ owners \in [Apps -> SUBSET Children] /\ pids \in [Apps -> SUBSET Children]
  /\ protected \in [Apps -> SUBSET Children] /\ targets \in [Apps -> SUBSET Children]
  /\ reused \subseteq Apps
  /\ faults \in 0..MaxFaults
  /\ holder \in [Guis -> Guis \cup {None}]
  /\ waiting \subseteq Guis
  /\ before \in [Apps -> [recorded : SUBSET Children, strays : SUBSET Children]]

Init ==
  /\ ui = [a \in Apps |-> "off"]
  /\ op = [a \in Apps |-> "off"]
  /\ asked = {}
  /\ lock = None /\ marker \in BOOLEAN /\ show = {}
  /\ child = [c \in Children |-> "none"]
  /\ tied = {}
  /\ owners = [a \in Apps |-> {}] /\ pids = [a \in Apps |-> {}]
  /\ protected = [a \in Apps |-> {}] /\ targets = [a \in Apps |-> {}]
  /\ reused = {}
  /\ faults = 0
  /\ holder = [g \in Guis |-> None] /\ waiting = {}
  /\ before = [a \in Apps |-> [recorded |-> {}, strays |-> {}]]

Fail == faults < MaxFaults /\ faults' = faults + 1

------------------------------------------------------------------------------
(* One window (single_instance.rs, gui/mod.rs).                            *)

\* acquire: take the lock, find it taken, or go on without it.
Launch(g) ==
  /\ ui[g] = "off"
  /\ \/ /\ lock = None
        /\ lock' = g
        /\ ui' = [ui EXCEPT ![g] = "clearing"]
        /\ UNCHANGED <<holder, faults>>
     \/ /\ lock # None
        /\ ui' = [ui EXCEPT ![g] = "asking"]
        /\ holder' = [holder EXCEPT ![g] = lock]
        /\ UNCHANGED <<lock, faults>>
     \/ /\ Fail
        /\ ui' = [ui EXCEPT ![g] = "opening"]
        /\ UNCHANGED <<lock, holder>>
  /\ UNCHANGED <<op, asked, marker, show, waiting, family, registry, sweep>>

\* The holder of the lock removes the marker of a crashed run...
ClearMarker(g) ==
  /\ ui[g] = "clearing"
  /\ marker' = FALSE
  /\ ui' = [ui EXCEPT ![g] = "opening"]
  /\ UNCHANGED <<op, asked, lock, show, holder, waiting, family, registry, sweep, faults>>

\* ... and opens its window.
StartHidden(g) ==   \* slip
  /\ ui[g] = "opening"
  /\ ui' = [ui EXCEPT ![g] = "up"]
  /\ UNCHANGED <<op, asked, window, family, registry, sweep, faults>>
OpenWindow(g) ==
  /\ ui[g] = "opening"
  /\ waiting' = {}
  /\ ui' = [ui EXCEPT ![g] = "up"]
  /\ UNCHANGED <<op, asked, lock, marker, show, holder, family, registry, sweep, faults>>

\* Another launch leaves its marker and exits.
AskToShow(g) ==
  /\ ui[g] = "asking"
  /\ marker' = TRUE
  /\ waiting' = waiting \cup {g}
  /\ ui' = [ui EXCEPT ![g] = "gone"]
  /\ UNCHANGED <<op, asked, lock, show, holder, family, registry, sweep, faults>>

\* The watcher thread of a running GUI consumes the marker...
TakeShowRequest(g) ==
  /\ ui[g] \in {"opening", "up"} /\ marker
  /\ marker' = FALSE
  /\ show' = show \cup {g}
  /\ UNCHANGED <<ui, op, asked, lock, holder, waiting, family, registry, sweep, faults>>

\* ... and its heartbeat shows the window.
ShowWindow(g) ==
  /\ ui[g] = "up" /\ g \in show
  /\ show' = show \ {g}
  /\ waiting' = {}
  /\ UNCHANGED <<ui, op, asked, lock, marker, holder, family, registry, sweep, faults>>

LaunchConsole(a) ==
  /\ ui[a] = "off"
  /\ ui' = [ui EXCEPT ![a] = "up"]
  /\ UNCHANGED <<op, asked, window, family, registry, sweep, faults>>

------------------------------------------------------------------------------
(* The sweep at the start of an operator (orphans.rs).                     *)

StartOperator(a) ==
  /\ ui[a] = "up" /\ op[a] = "off" /\ a \notin asked
  /\ op' = [op EXCEPT ![a] = "read"]
  /\ before' = [before EXCEPT ![a] =
       [recorded |-> {c \in Children : Live(c) /\ Owner(c) # a /\ c \in owners[Owner(c)]},
        strays   |-> {c \in Children : Live(c) /\ ui[Owner(c)] = "gone"}]]
  /\ UNCHANGED <<ui, asked, window, family, registry, protected, targets, reused, faults>>

\* process_alive, by pid.
AnyOwner(a, b) ==   \* slip
  b # a
OtherOwner(a, b) == b # a /\ (Running(b) \/ b \in reused)

\* live_owned_pids: gather what other live owners recorded, remove the rest.
SweepRead(a) ==
  /\ op[a] = "read"
  /\ protected' = [protected EXCEPT ![a] = UNION {owners[b] : b \in {o \in Apps : OtherOwner(a, o)}}]
  /\ owners' = [b \in Apps |-> IF OtherOwner(a, b) THEN owners[b] ELSE {}]
  /\ op' = [op EXCEPT ![a] = "list"]
  /\ UNCHANGED <<ui, asked, window, family, pids, targets, reused, before, faults>>

\* The runners of this install that run, whoever started them.
HostProcesses == {c \in Children : Live(c)}

Orphans(a, candidates) == candidates \ protected[a]

\* List them; a listing that fails finds nothing.
SweepList(a) ==
  /\ op[a] = "list"
  /\ \/ /\ targets' = [targets EXCEPT ![a] = Orphans(a, HostProcesses)]
        /\ UNCHANGED <<before, faults>>
     \/ /\ Fail
        /\ targets' = [targets EXCEPT ![a] = {}]
        /\ before' = [before EXCEPT ![a].strays = {}]
  /\ protected' = [protected EXCEPT ![a] = {}]
  /\ op' = [op EXCEPT ![a] = "kill"]
  /\ UNCHANGED <<ui, asked, window, family, registry, reused>>

\* terminate: a signal, a grace period, a hard kill.
SweepKill(a) ==
  /\ op[a] = "kill"
  /\ child' = [c \in Children |-> IF c \in targets[a] THEN "ended" ELSE child[c]]
  /\ targets' = [targets EXCEPT ![a] = {}]
  /\ before' = [before EXCEPT ![a].recorded = {}]
  /\ op' = [op EXCEPT ![a] = "loop"]
  /\ UNCHANGED <<ui, asked, window, tied, registry, protected, reused, faults>>

------------------------------------------------------------------------------
(* An operator and its children.                                           *)

Spawned(a) == {c \in ChildrenOf(a) : child[c] # "none"}

\* OperatorProcess::start, with prepare and attach.
Spawn(a) ==
  LET c == <<a, Cardinality(Spawned(a)) + 1>>
  IN  /\ op[a] = "loop" /\ c \in Children
      /\ child' = [child EXCEPT ![c] = "starting"]
      /\ \E t \in Ties : tied' = IF t THEN tied \cup {c} ELSE tied
      /\ op' = [op EXCEPT ![a] = "adding"]
      /\ UNCHANGED <<ui, asked, window, registry, sweep, faults>>

\* save: the file is replaced by the set in memory, unless that fails, which
\* nobody notices.
Save(a, set) ==
  /\ pids' = [pids EXCEPT ![a] = set]
  /\ \/ owners' = [owners EXCEPT ![a] = set] /\ UNCHANGED faults
     \/ Fail /\ UNCHANGED owners

\* add, right after the spawn.
AddOnly(a, c) ==   \* slip
  Save(a, {c})
Add(a, c) == Save(a, pids[a] \cup {c})

Record(a) ==
  /\ op[a] = "adding"
  /\ Add(a, <<a, Cardinality(Spawned(a))>>)
  /\ op' = [op EXCEPT ![a] = "loop"]
  /\ UNCHANGED <<ui, asked, window, family, sweep>>

\* set, with the children publish_status finds alive.
Publish(a) ==
  LET now == {c \in ChildrenOf(a) : Live(c)}
  IN  /\ op[a] = "loop" /\ now # pids[a]
      /\ Save(a, now)
      /\ UNCHANGED <<ui, op, asked, window, family, sweep>>

\* The end of run(), when the process was asked to end or the GUI replaces
\* its operator: every child is stopped.
StopOperator(a) ==
  /\ op[a] = "loop" /\ (a \in asked \/ a \in Guis)
  /\ child' = [c \in Children |-> IF c \in ChildrenOf(a) /\ Live(c) THEN "ended" ELSE child[c]]
  /\ IF pids[a] = {} THEN UNCHANGED <<registry, faults>> ELSE Save(a, {})
  /\ op' = [op EXCEPT ![a] = "off"]
  /\ before' = [before EXCEPT ![a].strays = {}]
  /\ UNCHANGED <<ui, asked, window, tied, protected, targets, reused>>

\* The interpreter is up and its stdin watcher runs; a child may never get
\* there.
ChildWatches(c) ==
  /\ child[c] = "starting"
  /\ child' = [child EXCEPT ![c] = "watching"]
  /\ UNCHANGED <<ui, op, asked, window, tied, registry, sweep, faults>>

\* The lifeline of a child ends with its parent.
ChildSeesEof(c) ==
  /\ child[c] = "watching" /\ ~Running(Owner(c))
  /\ child' = [child EXCEPT ![c] = "ended"]
  /\ UNCHANGED <<ui, op, asked, window, tied, registry, sweep, faults>>

ChildDies(c) ==
  /\ Live(c) /\ Fail
  /\ child' = [child EXCEPT ![c] = "ended"]
  /\ UNCHANGED <<ui, op, asked, window, tied, registry, sweep>>

------------------------------------------------------------------------------
(* The end of a process (lifecycle.rs).                                    *)

\* What the OS does when process a is gone, whatever it was doing.
Vanish(a) ==
  /\ ui' = [ui EXCEPT ![a] = "gone"]
  /\ op' = [op EXCEPT ![a] = "off"]
  /\ asked' = asked \ {a}
  /\ lock' = IF lock = a THEN None ELSE lock
  /\ show' = show \ {a}
  /\ child' = [c \in Children |-> IF c \in ChildrenOf(a) /\ c \in tied /\ Live(c) THEN "ended"
                                  ELSE child[c]]
  /\ pids' = [pids EXCEPT ![a] = {}]
  /\ protected' = [protected EXCEPT ![a] = {}]
  /\ targets' = [targets EXCEPT ![a] = {}]
  /\ before' = [before EXCEPT ![a] = [recorded |-> {}, strays |-> {}]]
  /\ UNCHANGED <<marker, holder, waiting, tied, owners, reused>>

\* A first signal, Ctrl-C or Quit asks.
Signal(a) ==
  /\ ui[a] = "up" /\ a \notin asked
  /\ asked' = asked \cup {a}
  /\ UNCHANGED <<ui, op, window, family, registry, sweep, faults>>

\* The process ends once its operator has.
Exit(a) ==
  /\ ui[a] = "up" /\ a \in asked /\ op[a] = "off"
  /\ Vanish(a)
  /\ UNCHANGED faults

\* A second signal, a forced kill, a crash.
Die(a) == Running(a) /\ Fail /\ Vanish(a)

\* An unrelated process gets the pid of one that ended.
PidReused(a) ==
  /\ ui[a] = "gone" /\ a \notin reused
  /\ reused' = reused \cup {a}
  /\ UNCHANGED <<ui, op, asked, window, family, registry, protected, targets, before, faults>>

Next ==
  \/ \E g \in Guis : \/ Launch(g) \/ ClearMarker(g) \/ OpenWindow(g) \/ AskToShow(g)
                     \/ TakeShowRequest(g) \/ ShowWindow(g)
  \/ \E a \in Consoles : LaunchConsole(a)
  \/ \E a \in Apps : \/ StartOperator(a) \/ SweepRead(a) \/ SweepList(a) \/ SweepKill(a)
                     \/ Spawn(a) \/ Record(a) \/ Publish(a) \/ StopOperator(a)
                     \/ Signal(a) \/ Exit(a) \/ Die(a) \/ PidReused(a)
  \/ \E c \in Children : ChildWatches(c) \/ ChildSeesEof(c) \/ ChildDies(c)

Spec == Init /\ [][Next]_vars

\* A process that launches gets on, and a GUI's watcher and heartbeat run.
Fairness ==
  \A g \in Guis : /\ WF_vars(ClearMarker(g)) /\ WF_vars(OpenWindow(g)) /\ WF_vars(AskToShow(g))
                  /\ WF_vars(TakeShowRequest(g)) /\ WF_vars(ShowWindow(g))

FairSpec == Spec /\ Fairness

------------------------------------------------------------------------------
(* Properties.                                                             *)

\* "Checking owners keeps a concurrently running instance ... from killing the
\* other's children" (orphans.rs): a child that a running process had recorded
\* before a sweep began is not among its targets, whatever both do meanwhile.
\* One started during the sweep may be.
RecordedIsSpared ==
  \A a \in Apps :
    op[a] = "kill" =>
      \A c \in targets[a] \cap before[a].recorded : Live(c) => ~Running(Owner(c))

\* "Stop host microservices a previous run left behind before starting ours:
\* they'd hold the devices and hub pairings" (run()): once an operator has
\* swept, no child lives whose process had ended before, unless an unrelated
\* process has its owner's pid.
StraysAreSwept ==
  \A a \in Apps :
    op[a] \in {"loop", "adding"} =>
      \A c \in before[a].strays : Live(c) => Owner(c) \in reused

\* "Launching the app again ... should surface the already-running window"
\* (single_instance.rs): a launch that found another and left its marker sees
\* a window, unless the process that held the lock ends; also when that one
\* removes the marker as it starts.
LaunchSurfaces ==
  \A g \in Guis : g \in waiting ~> (g \notin waiting \/ ui[holder[g]] = "gone")
=============================================================================
