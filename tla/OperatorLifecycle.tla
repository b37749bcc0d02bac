-------------------------- MODULE OperatorLifecycle --------------------------
(***************************************************************************)
(* How the GUI starts, replaces and stops the operator: AppState in        *)
(* src/gui/app_state.rs, with the exit hook of src/gui/mod.rs.             *)
(*                                                                         *)
(* The UI thread handles one event at a time and never blocks.  Stopping   *)
(* an operator blocks (it joins the operator's thread), so a restart or a  *)
(* pairing runs as a job on a worker thread, and its result comes back to  *)
(* the UI thread as one more event.  Meanwhile the user edits settings,    *)
(* the environment check finds Docker gone, COSMOS is upgraded, and        *)
(* somebody quits.  An operator is its thread here: Operator and           *)
(* BridgePairing model what runs inside it.                                *)
(*                                                                         *)
(* A job captures the context and the settings of the event that started   *)
(* it.  A development context stands for the pair of development folders   *)
(* that dev_mode, the two folder fields and the edition select; Release is *)
(* the one without development mode.                                       *)
(*                                                                         *)
(* bridge_pairing is true exactly while a job of kind "pair" runs, which   *)
(* implies operator_busy, and is left out.                                 *)
(*                                                                         *)
(* A definition marked "slip" is the next one with a plausible bug.  No    *)
(* action uses a slip: substituted for that definition it shows that the   *)
(* properties notice.                                                      *)
(***************************************************************************)
EXTENDS Naturals, FiniteSets

CONSTANTS
  Threads,       (* operator threads, reused once they ended                  *)
  DevContexts,   (* development contexts, Release among them                  *)
  Leaving,       (* ways out of Settings: "close", "cleanup", "setup", "pair" *)
  MaxInputs      (* bound: things the user, Docker or COSMOS do               *)

Release == "release"
NoOperator == "none"       \* no handle
Disabled == "disabled"     \* a handle without a thread: the bridge is off

ASSUME LifecycleAssumption ==
  /\ IsFiniteSet(Threads) /\ {NoOperator, Disabled} \cap Threads = {}
  /\ Release \in DevContexts
  /\ Leaving \subseteq {"close", "cleanup", "setup", "pair"}
  /\ MaxInputs \in Nat

VARIABLES
  \* AppState
  runtime,          (* ctx.runtime.is_some()                                  *)
  dev,              (* the development context of ctx and settings            *)
  pref,             (* settings.disable_bridge                                *)
  seen,             (* installed_cosmos: it supports the bridge               *)
  task,             (* a long-running task is in progress                     *)
  settingsOpen,
  devOnOpen,        (* dev_context_on_open                                    *)
  onSetup,          (* page == Page::Install                                  *)
  operator,         (* the handle                                             *)
  operatorBusy,
  restartPending,   (* operator_restart_pending                               *)
  operatorRuntime,
  operatorEnabled,  (* bridge_operator_enabled                                *)
  quitting,
  \* outside the UI thread
  installed,        (* the COSMOS .env: the version on disk supports it       *)
  checks,           (* checks under way: what each read of installed          *)
  jobs,             (* operator jobs on worker threads                        *)
  leaving,          (* the worker that stops the operator for an exit         *)
  exited,           (* the process is gone                                    *)
  running,          (* operator threads whose run() has not returned          *)
  asked,            (* their shutdown flag                                    *)
  built,            (* the context each was started with                      *)
  inputs

settingsVars  == <<runtime, dev, pref, seen, settingsOpen, devOnOpen, onSetup>>
slotVars      == <<operator, operatorBusy, restartPending, operatorRuntime, operatorEnabled>>
threadVars    == <<running, asked, built>>
lifecycleVars == <<settingsVars, task, slotVars, quitting, installed, checks, jobs, leaving,
                   exited, threadVars, inputs>>

Handles == Threads \cup {NoOperator, Disabled}
Prefs   == {"default", "on", "off"}
Context == [runtime : BOOLEAN, dev : DevContexts]
Job     == [kind : {"restart", "pair"}, reenroll : BOOLEAN, old : Handles, new : Handles,
            ctx : Context, pref : Prefs, enabled : BOOLEAN,
            at : {"forget", "redeem", "stop", "join", "start", "done"}]
Leave   == [at : {"no", "stop", "join"}, by : {"quit", "system"}, old : Handles]
Stay    == [at |-> "no", by |-> "quit", old |-> NoOperator]

LifecycleTypeOK ==
  /\ runtime \in BOOLEAN /\ dev \in DevContexts /\ pref \in Prefs
  /\ seen \in BOOLEAN /\ task \in BOOLEAN
  /\ settingsOpen \in BOOLEAN /\ devOnOpen \in DevContexts /\ onSetup \in BOOLEAN
  /\ operator \in Handles
  /\ operatorBusy \in BOOLEAN
  /\ restartPending \in {"no", "plain", "reenroll"}
  /\ operatorRuntime \in {"unset", "without", "with"}
  /\ operatorEnabled \in BOOLEAN
  /\ quitting \in BOOLEAN /\ exited \in BOOLEAN
  /\ installed \in BOOLEAN
  /\ checks \in [{"env", "status"} -> {"none", "yes", "no"}]
  /\ jobs \subseteq Job /\ (operatorBusy <=> jobs # {})
  /\ leaving \in Leave
  /\ running \subseteq Threads /\ asked \subseteq Threads
  /\ built \in [Threads -> Context]
  /\ inputs \in Nat

LifecycleInit ==
  /\ runtime = FALSE
  /\ dev \in DevContexts
  /\ pref \in Prefs
  /\ seen = FALSE /\ task = FALSE
  /\ settingsOpen = FALSE /\ devOnOpen = Release /\ onSetup = FALSE
  /\ operator = NoOperator
  /\ operatorBusy = FALSE /\ restartPending = "no"
  /\ operatorRuntime = "unset" /\ operatorEnabled = FALSE
  /\ quitting = FALSE /\ exited = FALSE
  /\ installed \in BOOLEAN
  /\ checks = [c \in {"env", "status"} |-> "none"]
  /\ jobs = {}
  /\ leaving = Stay
  /\ running = {} /\ asked = {}
  /\ built = [t \in Threads |-> [runtime |-> FALSE, dev |-> Release]]
  /\ inputs = 0

------------------------------------------------------------------------------
(* Building blocks.                                                        *)

\* Settings::bridge_enabled_for: an explicit preference wins, development mode
\* counts as the newest COSMOS.
BridgeEnabled(p, d, supports) ==
  IF p # "default" THEN p = "on" ELSE d # Release \/ supports

RuntimeName(r) == IF r THEN "with" ELSE "without"

\* A job takes the handle out of the AppState.
StartJob(kind, reenroll, held, r, d, p) ==
  /\ jobs' = jobs \cup
       {[kind |-> kind, reenroll |-> reenroll, old |-> held, new |-> NoOperator,
         ctx |-> [runtime |-> r, dev |-> d], pref |-> p, enabled |-> operatorEnabled,
         at |-> IF kind = "pair" THEN "redeem" ELSE "forget"]}
  /\ operator' = NoOperator
  /\ operatorBusy' = TRUE
  /\ operatorRuntime' = RuntimeName(r)

\* A request that comes while a job runs is merged with the one already queued.
DropRequest(reenroll) ==   \* slip
  UNCHANGED restartPending
LastRequest(reenroll) ==   \* slip
  restartPending' = IF reenroll THEN "reenroll" ELSE "plain"
QueueRequest(reenroll) ==
  restartPending' = IF reenroll \/ restartPending = "reenroll" THEN "reenroll" ELSE "plain"

\* One job at a time.
NeverBusy ==   \* slip
  FALSE
Busy == operatorBusy

\* restart_operator, for the context an event leaves behind.
RestartOperator(reenroll, r, d, p) ==
  IF quitting THEN UNCHANGED <<slotVars, jobs>>
  ELSE IF Busy
  THEN /\ QueueRequest(reenroll)
       /\ UNCHANGED <<operator, operatorBusy, operatorRuntime, operatorEnabled, jobs>>
  ELSE /\ StartJob("restart", reenroll, operator, r, d, p)
       /\ UNCHANGED <<restartPending, operatorEnabled>>

\* finish_quit: hand the operator to the worker that stops it.
FinishQuit(held) ==
  /\ operator' = NoOperator
  /\ leaving' = [at |-> "stop", by |-> "quit", old |-> held]

\* The UI thread handles events until it leaves the process to the exit hook.
UIRuns == ~exited /\ leaving.by = "quit"

Input == UIRuns /\ inputs < MaxInputs /\ inputs' = inputs + 1

------------------------------------------------------------------------------
(* Events of the UI thread.                                                *)

\* refresh_env and refresh_status read the installed version on a worker; the
\* answer is applied later.  At most one check of each kind is under way; one
\* that started before a task may read while it runs.
CheckReads(c) ==
  /\ ~exited /\ checks[c] = "none"
  /\ checks' = [checks EXCEPT ![c] = IF installed THEN "yes" ELSE "no"]
  /\ UNCHANGED <<settingsVars, task, slotVars, quitting, installed, jobs, leaving,
                 exited, threadVars, inputs>>

KeepSeen(c) ==   \* slip
  UNCHANGED seen
SeeInstalled(c) == seen' = (checks[c] = "yes")

CheckIsIn(c) ==
  /\ UIRuns /\ checks[c] # "none"
  /\ checks' = [checks EXCEPT ![c] = "none"]
  /\ SeeInstalled(c)

\* apply_env: an environment check is in.
ApplyEnv(r) ==
  /\ CheckIsIn("env")
  /\ IF r = runtime THEN UNCHANGED inputs ELSE Input
  /\ runtime' = r
  /\ IF operatorRuntime # RuntimeName(r) THEN RestartOperator(FALSE, r, dev, pref)
     ELSE UNCHANGED <<slotVars, jobs>>
  /\ UNCHANGED <<dev, pref, settingsOpen, devOnOpen, onSetup, task, quitting, installed,
                 leaving, exited, threadVars>>

\* refresh_status: the polled status is in.
RefreshStatus ==
  /\ CheckIsIn("status")
  /\ UNCHANGED <<runtime, dev, pref, settingsOpen, devOnOpen, onSetup, task, slotVars,
                 quitting, installed, jobs, leaving, exited, threadVars, inputs>>

\* heartbeat: the version-derived default changed while the app is open.
Heartbeat ==
  /\ UIRuns /\ ~task /\ ~settingsOpen /\ ~operatorBusy /\ ~quitting
  /\ operatorRuntime # "unset"
  /\ BridgeEnabled(pref, dev, seen) # operatorEnabled
  /\ RestartOperator(FALSE, runtime, dev, pref)
  /\ UNCHANGED <<settingsVars, checks, task, quitting, installed, leaving, exited,
                 threadVars, inputs>>

\* A long-running task: an install or an upgrade changes the COSMOS version.
TaskStarts ==
  /\ Input /\ ~task
  /\ task' = TRUE
  /\ UNCHANGED <<settingsVars, checks, slotVars, quitting, installed, jobs, leaving,
                 exited, threadVars>>

TaskEnds ==
  /\ UIRuns /\ task
  /\ task' = FALSE
  /\ installed' \in BOOLEAN
  /\ UNCHANGED <<settingsVars, checks, slotVars, quitting, jobs, leaving, exited,
                 threadVars, inputs>>

OpenSettings ==
  /\ Input /\ ~onSetup /\ ~settingsOpen
  /\ settingsOpen' = TRUE
  /\ devOnOpen' = dev
  /\ UNCHANGED <<checks, runtime, dev, pref, seen, onSetup, task, slotVars, quitting,
                 installed, jobs, leaving, exited, threadVars>>

\* set_dev_mode, set_dev_folder, pick_dev_folder, and set_edition, which the
\* setup page offers too.
SelectDev(d) ==
  /\ Input /\ (settingsOpen \/ onSetup) /\ d # dev
  /\ dev' = d
  /\ UNCHANGED <<checks, runtime, pref, seen, settingsOpen, devOnOpen, onSetup, task,
                 slotVars, quitting, installed, jobs, leaving, exited, threadVars>>

\* set_bridge_disabled.
SetBridge(p) ==
  /\ Input /\ settingsOpen /\ p # "default"
  /\ pref' = p
  /\ RestartOperator(FALSE, runtime, dev, p)
  /\ UNCHANGED <<checks, runtime, dev, seen, settingsOpen, devOnOpen, onSetup, task,
                 quitting, installed, leaving, exited, threadVars>>

CloseWithoutCompare ==   \* slip
  UNCHANGED <<devOnOpen, slotVars, jobs>>
ApplyDevContext ==
  IF dev # devOnOpen
  THEN devOnOpen' = dev /\ RestartOperator(TRUE, runtime, dev, pref)
  ELSE UNCHANGED <<devOnOpen, slotVars, jobs>>

CloseSettings ==
  /\ UIRuns /\ settingsOpen /\ "close" \in Leaving
  /\ settingsOpen' = FALSE
  /\ ApplyDevContext
  /\ UNCHANGED <<checks, runtime, dev, pref, seen, onSetup, task, quitting, installed,
                 leaving, exited, threadVars, inputs>>

ShowCleanup ==
  /\ UIRuns /\ settingsOpen /\ "cleanup" \in Leaving
  /\ settingsOpen' = FALSE
  /\ UNCHANGED <<checks, runtime, dev, pref, seen, devOnOpen, onSetup, task, slotVars,
                 quitting, installed, jobs, leaving, exited, threadVars, inputs>>

\* open_setup, from the title bar: refused while busy or before the first
\* environment check.
OpenSetup ==
  /\ Input /\ ~onSetup /\ ~task /\ operatorRuntime # "unset" /\ "setup" \in Leaving
  /\ settingsOpen' = FALSE
  /\ onSetup' = TRUE
  /\ UNCHANGED <<checks, runtime, dev, pref, seen, devOnOpen, task, slotVars, quitting,
                 installed, jobs, leaving, exited, threadVars>>

\* skip_setup, and apply_env once nothing is missing.
LeaveSetup ==
  /\ UIRuns /\ onSetup
  /\ onSetup' = FALSE
  /\ UNCHANGED <<checks, runtime, dev, pref, seen, settingsOpen, devOnOpen, task,
                 slotVars, quitting, installed, jobs, leaving, exited, threadVars,
                 inputs>>

\* submit_bridge_token.
SubmitToken ==
  /\ Input /\ settingsOpen /\ ~operatorBusy /\ ~quitting /\ "pair" \in Leaving
  /\ settingsOpen' = FALSE
  /\ StartJob("pair", FALSE, operator, runtime, dev, pref)
  /\ UNCHANGED <<checks, runtime, dev, pref, seen, devOnOpen, onSetup, task,
                 restartPending, operatorEnabled, quitting, installed, leaving, exited,
                 threadVars>>

\* quit(), from the menu, the tray, an update, or a termination signal.  A job
\* in flight finishes first.
QuitAtOnce ==   \* slip
  FinishQuit(operator)
QuitWhenSettled ==
  IF operatorBusy THEN UNCHANGED <<operator, leaving>> ELSE FinishQuit(operator)

Quit ==
  /\ Input /\ ~quitting
  /\ quitting' = TRUE
  /\ QuitWhenSettled
  /\ UNCHANGED <<settingsVars, checks, task, operatorBusy, restartPending,
                 operatorRuntime, operatorEnabled, installed, jobs, exited, threadVars>>

\* The system ends the app: stop_for_exit under the exit hook.  Without a
\* handle there is nothing to wait for.
SystemExit ==
  /\ Input
  /\ quitting' = TRUE
  /\ operator' = NoOperator
  /\ leaving' = [at |-> "stop", by |-> "system", old |-> operator]
  /\ exited' = (operator = NoOperator)
  /\ UNCHANGED <<settingsVars, checks, task, operatorBusy, restartPending,
                 operatorRuntime, operatorEnabled, installed, jobs, threadVars>>

\* A job's result reaches the UI thread: operator_settled.
ForgetQuit(j) ==   \* slip
  operator' = j.new /\ UNCHANGED leaving
CompleteQuit(j) == FinishQuit(j.new)

JobSettles(j) ==
  /\ UIRuns /\ j \in jobs /\ j.at = "done"
  /\ operatorEnabled' = j.enabled
  /\ IF quitting
     THEN /\ CompleteQuit(j)
          /\ operatorBusy' = FALSE
          /\ jobs' = jobs \ {j}
          /\ UNCHANGED <<restartPending, operatorRuntime>>
     ELSE IF restartPending # "no"
     THEN /\ jobs' = (jobs \ {j}) \cup
               {[kind |-> "restart", reenroll |-> restartPending = "reenroll",
                 old |-> j.new, new |-> NoOperator,
                 ctx |-> [runtime |-> runtime, dev |-> dev], pref |-> pref,
                 enabled |-> j.enabled, at |-> "forget"]}
          /\ restartPending' = "no"
          /\ operatorRuntime' = RuntimeName(runtime)
          /\ UNCHANGED <<operator, operatorBusy, leaving>>
     ELSE /\ operator' = j.new
          /\ operatorBusy' = FALSE
          /\ jobs' = jobs \ {j}
          /\ UNCHANGED <<restartPending, operatorRuntime, leaving>>
  /\ UNCHANGED <<settingsVars, checks, task, quitting, installed, exited, threadVars,
                 inputs>>

------------------------------------------------------------------------------
(* Worker threads.                                                         *)

jobStepVars ==
  <<settingsVars, checks, task, slotVars, quitting, installed, leaving, exited, inputs>>

Advance(j, k) == jobs' = (jobs \ {j}) \cup {k}

\* forget_cached_ticket comes before the old operator is stopped.
JobForgets(j) ==
  /\ ~exited /\ j \in jobs /\ j.at = "forget"
  /\ Advance(j, [j EXCEPT !.at = "stop"])
  /\ UNCHANGED <<jobStepVars, threadVars>>

\* enroll_with_token comes before the old operator is stopped; a failure hands
\* it back as it is.
JobRedeems(j) ==
  /\ ~exited /\ j \in jobs /\ j.at = "redeem"
  /\ Advance(j, [j EXCEPT !.at = "stop"])
  /\ UNCHANGED <<jobStepVars, threadVars>>

JobRejected(j) ==
  /\ ~exited /\ j \in jobs /\ j.at = "redeem"
  /\ Advance(j, [j EXCEPT !.at = "done",
                          !.new = IF j.old = NoOperator THEN Disabled ELSE j.old])
  /\ UNCHANGED <<jobStepVars, threadVars>>

\* Operator::stop sets the flag, then joins the thread.
JobStops(j) ==
  /\ ~exited /\ j \in jobs /\ j.at = "stop"
  /\ asked' = asked \cup ({j.old} \cap Threads)
  /\ Advance(j, [j EXCEPT !.at = "join"])
  /\ UNCHANGED <<jobStepVars, running, built>>

JoinNothing(j) ==   \* slip
  TRUE
Joined(j) == j.old \notin running

JobJoins(j) ==
  /\ ~exited /\ j \in jobs /\ j.at = "join" /\ Joined(j)
  /\ Advance(j, [j EXCEPT !.at = "start"])
  /\ UNCHANGED <<jobStepVars, threadVars>>

\* Operator::start, with the version now on disk.
JobStarts(j) ==
  LET enabled == BridgeEnabled(j.pref, j.ctx.dev, installed)
  IN  /\ ~exited /\ j \in jobs /\ j.at = "start"
      /\ \/ /\ enabled
            /\ \E t \in Threads \ running :
                 /\ running' = running \cup {t}
                 /\ asked' = asked \ {t}
                 /\ built' = [built EXCEPT ![t] = j.ctx]
                 /\ Advance(j, [j EXCEPT !.at = "done", !.new = t, !.enabled = TRUE])
         \/ /\ ~enabled
            /\ Advance(j, [j EXCEPT !.at = "done", !.new = Disabled, !.enabled = FALSE])
            /\ UNCHANGED threadVars
      /\ UNCHANGED jobStepVars

\* run() returns.
OperatorEnds(t) ==
  /\ ~exited /\ t \in running /\ t \in asked
  /\ running' = running \ {t}
  /\ UNCHANGED <<jobStepVars, jobs, asked, built>>

\* The worker of finish_quit or of the exit hook.
LeaveStops ==
  /\ ~exited /\ leaving.at = "stop"
  /\ asked' = asked \cup ({leaving.old} \cap Threads)
  /\ leaving' = [leaving EXCEPT !.at = "join"]
  /\ UNCHANGED <<settingsVars, checks, task, slotVars, quitting, installed, jobs,
                 exited, running, built, inputs>>

\* The stop is complete and the process ends.
LeaveJoins ==
  /\ ~exited /\ leaving.at = "join" /\ leaving.old \notin running
  /\ exited' = TRUE
  /\ UNCHANGED <<settingsVars, checks, task, slotVars, quitting, installed, jobs,
                 leaving, threadVars, inputs>>

\* The exit hook does not wait for ever (EXIT_STOP_TIMEOUT).
LeaveTimesOut ==
  /\ ~exited /\ leaving.at = "join" /\ leaving.by = "system"
  /\ exited' = TRUE
  /\ UNCHANGED <<settingsVars, checks, task, slotVars, quitting, installed, jobs,
                 leaving, threadVars, inputs>>

Gone == exited /\ UNCHANGED lifecycleVars

------------------------------------------------------------------------------

UserActs ==
  \/ TaskStarts \/ OpenSettings \/ OpenSetup \/ SubmitToken \/ Quit \/ SystemExit
  \/ \E d \in DevContexts : SelectDev(d)
  \/ \E p \in Prefs : SetBridge(p)

JobSteps(j) ==
  JobForgets(j) \/ JobRedeems(j) \/ JobRejected(j) \/ JobStops(j) \/ JobJoins(j) \/ JobStarts(j)

Settle == \E j \in jobs : JobSettles(j)
Work   == \E j \in jobs : JobSteps(j)

LifecycleNext ==
  \/ UserActs
  \/ \E r \in BOOLEAN : ApplyEnv(r)
  \/ \E c \in {"env", "status"} : CheckReads(c)
  \/ RefreshStatus \/ Heartbeat \/ TaskEnds
  \/ CloseSettings \/ ShowCleanup \/ LeaveSetup
  \/ Settle \/ Work
  \/ \E t \in Threads : OperatorEnds(t)
  \/ LeaveStops \/ LeaveJoins \/ LeaveTimesOut
  \/ Gone

LifecycleSpec == LifecycleInit /\ [][LifecycleNext]_lifecycleVars

\* The UI thread runs its queue and its heartbeat, worker threads run, an
\* operator asked to stop returns, a first environment check comes in.
LifecycleFairness ==
  /\ WF_lifecycleVars(\E r \in BOOLEAN : ApplyEnv(r) /\ operatorRuntime = "unset")
  /\ \A c \in {"env", "status"} : WF_lifecycleVars(CheckReads(c))
  /\ WF_lifecycleVars(RefreshStatus)
  /\ WF_lifecycleVars(Heartbeat)
  /\ WF_lifecycleVars(Settle)
  /\ WF_lifecycleVars(Work)
  /\ \A t \in Threads : WF_lifecycleVars(OperatorEnds(t))
  /\ WF_lifecycleVars(LeaveStops) /\ WF_lifecycleVars(LeaveJoins)

FairLifecycle == LifecycleSpec /\ LifecycleFairness

------------------------------------------------------------------------------
(* Safety.                                                                 *)

\* "The old operator is stopped and joined first so two never run against the
\* same bridge" (restart_operator).
OneOperator == \A t, u \in running : t = u

\* Every operator thread that nobody asked to stop is held by someone who can:
\* the AppState, a job that will stop it or hand it back, or the exit.  A lost
\* handle would leave an operator supervising for ever.
OperatorIsHeld ==
  exited \/ \A t \in running \ asked :
    \/ operator = t
    \/ \E j \in jobs : t \in {j.old, j.new}
    \/ leaving.at = "stop" /\ leaving.old = t

\* The app's own quit ends the process with no operator running, whatever job
\* was in flight: "Stop the supervised microservices cleanly ... then exit".
ExitStopsOperator == exited /\ leaving.by = "quit" => running = {}

------------------------------------------------------------------------------
(* Liveness.                                                               *)

\* Quitting always ends, also when it comes during a restart.
QuitEnds == quitting ~> exited

\* The app stays open with Settings closed and no task running.
Idle == ~quitting /\ ~settingsOpen /\ ~task

\* The operator ends up running exactly when the bridge is to be enabled, and
\* was started with the container runtime that is there ("restart it if Docker
\* appeared/disappeared: a runtime-less one could never enroll", apply_env).
\* Requests that came during a job are not lost, and a stale version does not
\* restart it for ever.
OperatorFollows ==
  <>[]Idle => <>[](/\ operator # NoOperator
                   /\ operatorEnabled = BridgeEnabled(pref, dev, installed)
                   /\ operator \in Threads <=> operatorEnabled
                   /\ operator \in Threads => built[operator].runtime = runtime)

\* A queued request to enroll again is carried out, whatever plain restarts
\* are requested after it.
ReenrollHappens ==
  restartPending = "reenroll" ~> (quitting \/ \E j \in jobs : j.reenroll)

=============================================================================
