--------------------------- MODULE LifecycleProofs ---------------------------
(***************************************************************************)
(* Theorems about OperatorLifecycle, for any set of operator threads, any  *)
(* development contexts, ways out of Settings and number of inputs.  The   *)
(* argument is about who holds the one thread that may run: the AppState,  *)
(* the one job there can be, or the worker that leaves.                    *)
(***************************************************************************)
EXTENDS OperatorLifecycle, TLAPS

\* There is one job, and it took the handle out of the AppState.
OneJob ==
  /\ \A j, k \in jobs : j = k
  /\ operatorBusy => operator = NoOperator

\* Which threads may run beside a job: the old operator until it joined it, the new
\* one once it is done, and none in between.
JobHolds(j, threads) ==
  /\ j.at = "done" => threads \subseteq {j.new}
  /\ j.at # "done" => j.new = NoOperator /\ threads \subseteq {j.old}
  /\ j.at = "start" => threads = {}

\* Whoever leaves has the handle, and nobody starts a job any more.
LeaveHolds ==
  /\ leaving.at # "no" => operator = NoOperator /\ quitting /\ (exited \/ jobs = {})
  /\ leaving.at = "no" => leaving = Stay
  /\ leaving.at = "join" => leaving.old \notin running \ asked

Held ==
  /\ OneJob
  /\ \A j \in jobs : JobHolds(j, running)
  /\ ~exited /\ jobs = {} => running \subseteq {operator, leaving.old}
  /\ LeaveHolds
  /\ OneOperator
  /\ ExitStopsOperator

LifecycleInv == LifecycleTypeOK /\ Held

\* The handles that are no threads.
LEMMA NoThreads == NoOperator \notin Threads /\ Disabled \notin Threads
BY LifecycleAssumption

\* The properties are parts of the invariant, or follow from it.
LEMMA HeldIsEnough == LifecycleInv => OneOperator /\ OperatorIsHeld /\ ExitStopsOperator
<1> SUFFICES ASSUME LifecycleInv, ~exited, NEW t \in running \ asked
             PROVE  \/ operator = t
                    \/ \E j \in jobs : t \in {j.old, j.new}
                    \/ leaving.at = "stop" /\ leaving.old = t
  BY DEF LifecycleInv, Held, OperatorIsHeld
<1>0. t \in Threads
  BY DEF LifecycleInv, LifecycleTypeOK
<1>1. CASE jobs = {}
  <2>1. t \in {operator, leaving.old}
    BY <1>1 DEF LifecycleInv, Held
  <2>2. leaving.at \in {"no", "stop", "join"}
    BY DEF LifecycleInv, LifecycleTypeOK, Leave
  <2>3. leaving.at = "no" => leaving.old = NoOperator
    BY DEF LifecycleInv, Held, LeaveHolds, Stay
  <2>4. leaving.at = "join" => leaving.old # t
    BY DEF LifecycleInv, Held, LeaveHolds
  <2> QED  BY <1>0, <2>1, <2>2, <2>3, <2>4, NoThreads
<1>2. ASSUME NEW j \in jobs PROVE t \in {j.old, j.new}
  BY <1>2 DEF LifecycleInv, Held, JobHolds
<1> QED  BY <1>1, <1>2

LEMMA HeldInit == LifecycleInit => LifecycleInv
<1> SUFFICES ASSUME LifecycleInit PROVE LifecycleInv
  OBVIOUS
<1>1. LifecycleTypeOK
  BY LifecycleAssumption
  DEF LifecycleInit, LifecycleTypeOK, Handles, Prefs, Context, Leave, Stay
<1>2. Held
  BY DEF LifecycleInit, Held, OneJob, JobHolds, LeaveHolds, OneOperator, ExitStopsOperator, Stay
<1> QED  BY <1>1, <1>2 DEF LifecycleInv

------------------------------------------------------------------------------
(* The ways a step touches the handles.                                    *)

\* What the invariant is about.
heldVars == <<operator, operatorBusy, quitting, jobs, leaving, exited, running, asked>>

LEMMA HeldKept == Held /\ UNCHANGED heldVars => Held'
BY DEF Held, heldVars, OneJob, JobHolds, LeaveHolds, OneOperator, ExitStopsOperator

\* A job that takes the handle.
LEMMA StartHolds ==
  ASSUME LifecycleInv, NEW kind \in {"restart", "pair"}, NEW reenroll \in BOOLEAN,
         NEW r \in BOOLEAN, NEW d \in DevContexts, NEW p \in Prefs,
         StartJob(kind, reenroll, operator, r, d, p), ~operatorBusy, ~quitting, UIRuns,
         UNCHANGED <<quitting, leaving, exited, running, asked>>
  PROVE  /\ Held'
         /\ jobs' \subseteq Job /\ jobs' # {} /\ operatorBusy' = TRUE
         /\ operator' = NoOperator /\ operatorRuntime' \in {"without", "with"}
<1> DEFINE j == [kind |-> kind, reenroll |-> reenroll, old |-> operator, new |-> NoOperator,
                 ctx |-> [runtime |-> r, dev |-> d], pref |-> p, enabled |-> operatorEnabled,
                 at |-> IF kind = "pair" THEN "redeem" ELSE "forget"]
<1>1. jobs = {} /\ jobs' = {j}
  BY DEF LifecycleInv, LifecycleTypeOK, StartJob
<1>2. j \in Job
  BY DEF LifecycleInv, LifecycleTypeOK, Job, Context, Handles
<1>3. leaving.at = "no" /\ leaving.old = NoOperator
  BY DEF LifecycleInv, Held, LeaveHolds, Stay
<1>4. running \subseteq {operator}
  BY <1>1, <1>3, NoThreads DEF LifecycleInv, LifecycleTypeOK, Held, UIRuns
<1>5. JobHolds(j, running')
  BY <1>4 DEF JobHolds
<1>6. Held'
  BY <1>1, <1>3, <1>5
  DEF LifecycleInv, Held, OneJob, LeaveHolds, OneOperator, ExitStopsOperator, StartJob, Stay, UIRuns
<1> QED  BY <1>1, <1>2, <1>6 DEF StartJob, RuntimeName

\* restart_operator: nothing, a request, or such a job.
Restarted ==
  /\ Held'
  /\ jobs' \subseteq Job /\ (operatorBusy' <=> jobs' # {}) /\ operatorBusy' \in BOOLEAN
  /\ operator' \in Handles /\ operatorEnabled' \in BOOLEAN
  /\ operatorRuntime' \in {"unset", "without", "with"}
  /\ restartPending' \in {"no", "plain", "reenroll"}

LEMMA RestartHolds ==
  ASSUME LifecycleInv, NEW reenroll \in BOOLEAN,
         NEW r \in BOOLEAN, NEW d \in DevContexts, NEW p \in Prefs,
         RestartOperator(reenroll, r, d, p), UIRuns,
         UNCHANGED <<quitting, leaving, exited, running, asked>>
  PROVE  Restarted
<1>1. CASE quitting
  BY <1>1, HeldKept DEF RestartOperator, slotVars, heldVars, Restarted, LifecycleInv, LifecycleTypeOK
<1>2. CASE ~quitting /\ operatorBusy
  BY <1>2, HeldKept DEF RestartOperator, Busy, QueueRequest, heldVars, Restarted, LifecycleInv, LifecycleTypeOK
<1>3. CASE ~quitting /\ ~operatorBusy
  <2>1. StartJob("restart", reenroll, operator, r, d, p) /\ UNCHANGED <<restartPending, operatorEnabled>>
    BY <1>3 DEF RestartOperator, Busy
  <2> QED  BY <1>3, <2>1, StartHolds DEF Restarted, LifecycleInv, LifecycleTypeOK, Handles
<1> QED  BY <1>1, <1>2, <1>3 DEF LifecycleInv, LifecycleTypeOK

\* A step of the one job.
LEMMA AdvanceHolds ==
  ASSUME LifecycleInv, NEW j \in jobs, NEW k \in Job, Advance(j, k), ~exited,
         UNCHANGED <<operator, operatorBusy, quitting, leaving, exited>>,
         running' \subseteq Threads, JobHolds(k, running'), OneOperator'
  PROVE  /\ Held'
         /\ jobs' \subseteq Job /\ (operatorBusy' <=> jobs' # {})
<1>1. jobs' = {k}
  BY DEF LifecycleInv, Held, OneJob, Advance
<1>2. leaving.at = "no"
  BY DEF LifecycleInv, Held, LeaveHolds
<1> QED  BY <1>1, <1>2
         DEF LifecycleInv, LifecycleTypeOK, Held, OneJob, LeaveHolds, ExitStopsOperator

------------------------------------------------------------------------------
(* One lemma per group of actions.                                         *)

\* Events that leave the handles alone.
LEMMA QuietSteps ==
  ASSUME LifecycleInv,
         \/ \E c \in {"env", "status"} : CheckReads(c)
         \/ RefreshStatus \/ TaskStarts \/ TaskEnds \/ OpenSettings \/ ShowCleanup
         \/ OpenSetup \/ LeaveSetup
         \/ \E d \in DevContexts : SelectDev(d)
         \/ Gone
  PROVE  LifecycleInv'
<1>1. UNCHANGED heldVars
  BY DEF CheckReads, RefreshStatus, CheckIsIn, TaskStarts, TaskEnds, OpenSettings, ShowCleanup,
         OpenSetup, LeaveSetup, SelectDev, Gone, lifecycleVars, slotVars, threadVars, heldVars
<1>2. Held'
  BY <1>1, HeldKept DEF LifecycleInv
<1>3. UNCHANGED <<operatorRuntime, operatorEnabled, restartPending, built>>
  BY DEF CheckReads, RefreshStatus, CheckIsIn, TaskStarts, TaskEnds, OpenSettings, ShowCleanup,
         OpenSetup, LeaveSetup, SelectDev, Gone, lifecycleVars, slotVars, threadVars
<1>4. /\ runtime' \in BOOLEAN /\ dev' \in DevContexts /\ pref' \in Prefs
      /\ settingsOpen' \in BOOLEAN /\ devOnOpen' \in DevContexts /\ onSetup' \in BOOLEAN
  BY DEF LifecycleInv, LifecycleTypeOK, CheckReads, RefreshStatus, CheckIsIn, SeeInstalled,
         TaskStarts, TaskEnds, OpenSettings, ShowCleanup, OpenSetup, LeaveSetup, SelectDev, Gone,
         Input, lifecycleVars, settingsVars
<1>6. seen' \in BOOLEAN /\ task' \in BOOLEAN /\ installed' \in BOOLEAN
  BY DEF LifecycleInv, LifecycleTypeOK, CheckReads, RefreshStatus, CheckIsIn, SeeInstalled,
         TaskStarts, TaskEnds, OpenSettings, ShowCleanup, OpenSetup, LeaveSetup, SelectDev, Gone,
         Input, lifecycleVars, settingsVars
<1>7. inputs' \in Nat
  BY DEF LifecycleInv, LifecycleTypeOK, CheckReads, RefreshStatus, CheckIsIn, SeeInstalled,
         TaskStarts, TaskEnds, OpenSettings, ShowCleanup, OpenSetup, LeaveSetup, SelectDev, Gone,
         Input, lifecycleVars, settingsVars
<1>5. checks' \in [{"env", "status"} -> {"none", "yes", "no"}]
  BY DEF LifecycleInv, LifecycleTypeOK, CheckReads, RefreshStatus, CheckIsIn, TaskStarts, TaskEnds,
         OpenSettings, ShowCleanup, OpenSetup, LeaveSetup, SelectDev, Gone, lifecycleVars
<1> QED  BY <1>1, <1>2, <1>3, <1>4, <1>5, <1>6, <1>7 DEF LifecycleInv, LifecycleTypeOK, heldVars

\* Events that ask for a restart.
LEMMA RestartSteps ==
  ASSUME LifecycleInv,
         \/ \E r \in BOOLEAN : ApplyEnv(r)
         \/ Heartbeat \/ CloseSettings
         \/ \E p \in Prefs : SetBridge(p)
  PROVE  LifecycleInv'
<1>1. ASSUME NEW r \in BOOLEAN, ApplyEnv(r) PROVE LifecycleInv'
  <2>1. CASE RestartOperator(FALSE, r, dev, pref)
    <3>1. Restarted
      BY <1>1, <2>1, RestartHolds
      DEF ApplyEnv, CheckIsIn, Input, threadVars, LifecycleInv, LifecycleTypeOK
    <3>2. seen' \in BOOLEAN /\ inputs' \in Nat
          /\ checks' \in [{"env", "status"} -> {"none", "yes", "no"}]
      BY <1>1 DEF ApplyEnv, CheckIsIn, SeeInstalled, Input, LifecycleInv, LifecycleTypeOK
    <3> QED  BY <1>1, <3>1, <3>2 DEF ApplyEnv, threadVars, Restarted, LifecycleInv, LifecycleTypeOK
  <2>2. CASE UNCHANGED <<slotVars, jobs>>
    <3>1. Held'
      BY <1>1, <2>2, HeldKept DEF ApplyEnv, slotVars, threadVars, heldVars, LifecycleInv
    <3>2. seen' \in BOOLEAN /\ inputs' \in Nat
          /\ checks' \in [{"env", "status"} -> {"none", "yes", "no"}]
      BY <1>1 DEF ApplyEnv, CheckIsIn, SeeInstalled, Input, LifecycleInv, LifecycleTypeOK
    <3> QED  BY <1>1, <2>2, <3>1, <3>2
             DEF ApplyEnv, slotVars, threadVars, LifecycleInv, LifecycleTypeOK
  <2> QED  BY <1>1, <2>1, <2>2 DEF ApplyEnv
<1>2. CASE Heartbeat
  <2>1. Restarted
    BY <1>2, RestartHolds DEF Heartbeat, settingsVars, threadVars, LifecycleInv, LifecycleTypeOK
  <2> QED  BY <1>2, <2>1
           DEF Heartbeat, settingsVars, threadVars, Restarted, LifecycleInv, LifecycleTypeOK
<1>3. CASE CloseSettings
  <2>1. CASE RestartOperator(TRUE, runtime, dev, pref) /\ devOnOpen' = dev
    <3>1. Restarted
      BY <1>3, <2>1, RestartHolds DEF CloseSettings, threadVars, LifecycleInv, LifecycleTypeOK
    <3> QED  BY <1>3, <2>1, <3>1
             DEF CloseSettings, threadVars, Restarted, LifecycleInv, LifecycleTypeOK
  <2>2. CASE UNCHANGED <<devOnOpen, slotVars, jobs>>
    <3>1. Held'
      BY <1>3, <2>2, HeldKept DEF CloseSettings, slotVars, threadVars, heldVars, LifecycleInv
    <3>2. /\ settingsOpen' \in BOOLEAN
          /\ UNCHANGED <<checks, runtime, dev, pref, seen, devOnOpen, onSetup, task, slotVars,
                         quitting, installed, jobs, leaving, exited, threadVars, inputs>>
      BY <1>3, <2>2 DEF CloseSettings
    <3>3. LifecycleTypeOK'
      BY <3>2 DEF slotVars, threadVars, LifecycleInv, LifecycleTypeOK
    <3> QED  BY <3>1, <3>3 DEF LifecycleInv
  <2> QED  BY <1>3, <2>1, <2>2 DEF CloseSettings, ApplyDevContext
<1>4. ASSUME NEW p \in Prefs, SetBridge(p) PROVE LifecycleInv'
  <2>1. Restarted
    BY <1>4, RestartHolds DEF SetBridge, Input, threadVars, LifecycleInv, LifecycleTypeOK
  <2> QED  BY <1>4, <2>1
           DEF SetBridge, Input, threadVars, Restarted, LifecycleInv, LifecycleTypeOK
<1> QED  BY <1>1, <1>2, <1>3, <1>4

\* A pairing takes the handle too.
LEMMA TokenSteps == ASSUME LifecycleInv, SubmitToken PROVE LifecycleInv'
<1>1. /\ Held' /\ jobs' \subseteq Job /\ jobs' # {} /\ operatorBusy' = TRUE
      /\ operator' = NoOperator /\ operatorRuntime' \in {"without", "with"}
  BY StartHolds DEF SubmitToken, Input, threadVars, LifecycleInv, LifecycleTypeOK
<1>2. operator' \in Handles /\ operatorBusy' \in BOOLEAN /\ (operatorBusy' <=> jobs' # {})
  BY <1>1 DEF Handles
<1>3. /\ settingsOpen' \in BOOLEAN /\ inputs' = inputs + 1
      /\ UNCHANGED <<checks, runtime, dev, pref, seen, devOnOpen, onSetup, task, restartPending,
                     operatorEnabled, quitting, installed, leaving, exited, threadVars>>
  BY DEF SubmitToken, Input
<1>4. LifecycleTypeOK'
  BY <1>1, <1>2, <1>3 DEF threadVars, LifecycleInv, LifecycleTypeOK
<1> QED  BY <1>1, <1>4 DEF LifecycleInv

\* The ways to quit.
LEMMA QuitSteps == ASSUME LifecycleInv, Quit \/ SystemExit PROVE LifecycleInv'
<1>1. CASE Quit /\ operatorBusy
  <2>1. Held'
    BY <1>1 DEF Quit, QuitWhenSettled, Input, UIRuns, threadVars, LifecycleInv, LifecycleTypeOK, Held,
                OneJob, LeaveHolds, OneOperator, ExitStopsOperator
  <2> QED  BY <1>1, <2>1
           DEF Quit, QuitWhenSettled, Input, settingsVars, threadVars, LifecycleInv, LifecycleTypeOK
<1>2. CASE Quit /\ ~operatorBusy
  <2>1. jobs = {} /\ jobs' = {} /\ ~exited /\ ~exited'
    BY <1>2 DEF Quit, Input, UIRuns, LifecycleInv, LifecycleTypeOK
  <2>2. leaving = Stay
    BY <1>2 DEF Quit, LifecycleInv, LifecycleTypeOK, Leave, Held, LeaveHolds
  <2>3. /\ operator' = NoOperator /\ leaving' = [at |-> "stop", by |-> "quit", old |-> operator]
        /\ quitting' /\ UNCHANGED <<operatorBusy, jobs, exited, running, asked>>
    BY <1>2 DEF Quit, QuitWhenSettled, FinishQuit, threadVars
  <2>4. running \subseteq {operator}
    BY <2>1, <2>2, NoThreads DEF LifecycleInv, LifecycleTypeOK, Held, Stay
  <2>5. Held'
    BY <2>1, <2>3, <2>4 DEF LifecycleInv, Held, OneJob, LeaveHolds, OneOperator, ExitStopsOperator
  <2>6. leaving' \in Leave /\ operator' \in Handles /\ quitting' \in BOOLEAN
    BY <1>2, <2>3 DEF LifecycleInv, LifecycleTypeOK, Leave, Handles, Quit
  <2> QED  BY <1>2, <2>3, <2>5, <2>6
           DEF Quit, Input, settingsVars, threadVars, LifecycleInv, LifecycleTypeOK
<1>3. CASE SystemExit
  <2>1. /\ operator' = NoOperator /\ leaving' = [at |-> "stop", by |-> "system", old |-> operator]
        /\ exited' = (operator = NoOperator) /\ quitting' = TRUE
        /\ UNCHANGED <<operatorBusy, jobs, running, asked>>
    BY <1>3 DEF SystemExit, threadVars
  <2>2. jobs = {} \/ exited'
    BY <2>1 DEF LifecycleInv, LifecycleTypeOK, Held, OneJob
  <2>3. ~exited' => running \subseteq {operator}
    BY <1>3, <2>1, <2>2, NoThreads
    DEF SystemExit, Input, UIRuns, LifecycleInv, LifecycleTypeOK, Leave, Held, LeaveHolds, Stay
  <2>4. Held'
    BY <2>1, <2>2, <2>3 DEF LifecycleInv, Held, OneJob, LeaveHolds, OneOperator, ExitStopsOperator
  <2>5. leaving' \in Leave /\ operator' \in Handles /\ exited' \in BOOLEAN
    BY <2>1 DEF LifecycleInv, LifecycleTypeOK, Leave, Handles
  <2> QED  BY <1>3, <2>1, <2>4, <2>5
           DEF SystemExit, Input, settingsVars, threadVars, LifecycleInv, LifecycleTypeOK
<1> QED  BY <1>1, <1>2, <1>3

\* A job's result: the exit, the next job, or the AppState takes the handle.
LEMMA SettleSteps == ASSUME LifecycleInv, NEW j \in jobs, JobSettles(j) PROVE LifecycleInv'
<1>1. jobs = {j} /\ j \in Job /\ j.at = "done" /\ running \subseteq {j.new} /\ operatorBusy
      /\ ~exited
  BY DEF LifecycleInv, LifecycleTypeOK, Held, OneJob, JobHolds, JobSettles, UIRuns
<1>2. leaving = Stay /\ operator = NoOperator
  BY <1>1 DEF LifecycleInv, LifecycleTypeOK, Held, OneJob, LeaveHolds
<1>3. j.new \in Handles /\ j.enabled \in BOOLEAN
  BY <1>1 DEF Job
<1>4. UNCHANGED <<settingsVars, checks, task, quitting, installed, exited, threadVars, inputs>>
      /\ operatorEnabled' = j.enabled
  BY DEF JobSettles
<1>5. CASE quitting
  <2>1. /\ operator' = NoOperator /\ leaving' = [at |-> "stop", by |-> "quit", old |-> j.new]
        /\ operatorBusy' = FALSE /\ jobs' = {} /\ UNCHANGED <<restartPending, operatorRuntime>>
    BY <1>1, <1>5 DEF JobSettles, CompleteQuit, FinishQuit
  <2>2. Held'
    BY <1>1, <1>4, <1>5, <2>1
    DEF LifecycleInv, Held, OneJob, LeaveHolds, OneOperator, ExitStopsOperator, threadVars
  <2>3. leaving' \in Leave /\ operator' \in Handles
    BY <1>3, <2>1 DEF Leave, Handles
  <2>4. operatorBusy' \in BOOLEAN /\ jobs' \subseteq Job /\ (operatorBusy' <=> jobs' # {})
    BY <2>1
  <2>5. LifecycleTypeOK'
    BY <1>3, <1>4, <2>1, <2>3, <2>4 DEF LifecycleInv, LifecycleTypeOK, settingsVars, threadVars
  <2> QED  BY <2>2, <2>5 DEF LifecycleInv
<1>6. CASE ~quitting /\ restartPending # "no"
  <2> DEFINE k == [kind |-> "restart", reenroll |-> restartPending = "reenroll",
                   old |-> j.new, new |-> NoOperator,
                   ctx |-> [runtime |-> runtime, dev |-> dev], pref |-> pref,
                   enabled |-> j.enabled, at |-> "forget"]
  <2>1. /\ jobs' = {k} /\ restartPending' = "no" /\ operatorRuntime' = RuntimeName(runtime)
        /\ UNCHANGED <<operator, operatorBusy, leaving>>
    BY <1>1, <1>6 DEF JobSettles
  <2>2. k \in Job
    BY <1>3 DEF LifecycleInv, LifecycleTypeOK, Job, Context, Handles
  <2>3. JobHolds(k, running')
    BY <1>1, <1>4 DEF JobHolds, threadVars
  <2>4. Held'
    BY <1>1, <1>2, <1>4, <2>1, <2>3
    DEF LifecycleInv, Held, OneJob, LeaveHolds, OneOperator, ExitStopsOperator, threadVars, Stay
  <2>5. RuntimeName(runtime) \in {"without", "with"} /\ jobs' # {} /\ jobs' \subseteq Job
    BY <2>1, <2>2 DEF RuntimeName
  <2> QED  BY <1>1, <1>3, <1>4, <2>1, <2>4, <2>5
           DEF LifecycleInv, LifecycleTypeOK, settingsVars, threadVars
<1>7. CASE ~quitting /\ restartPending = "no"
  <2>1. /\ operator' = j.new /\ operatorBusy' = FALSE /\ jobs' = {}
        /\ UNCHANGED <<restartPending, operatorRuntime, leaving>>
    BY <1>1, <1>7 DEF JobSettles
  <2>2. Held'
    BY <1>1, <1>2, <1>4, <2>1
    DEF LifecycleInv, Held, OneJob, LeaveHolds, OneOperator, ExitStopsOperator, threadVars, Stay
  <2>3. operatorBusy' \in BOOLEAN /\ jobs' \subseteq Job /\ (operatorBusy' <=> jobs' # {})
    BY <2>1
  <2>4. LifecycleTypeOK'
    BY <1>3, <1>4, <2>1, <2>3 DEF LifecycleInv, LifecycleTypeOK, settingsVars, threadVars
  <2> QED  BY <2>2, <2>4 DEF LifecycleInv
<1> QED  BY <1>5, <1>6, <1>7

\* A worker's step.
LEMMA JobStepsHold == ASSUME LifecycleInv, NEW j \in jobs, JobSteps(j) PROVE LifecycleInv'
<1>1. j \in Job /\ JobHolds(j, running) /\ OneOperator
  BY DEF LifecycleInv, LifecycleTypeOK, Held
<1>2. ~exited /\ UNCHANGED jobStepVars
  BY DEF JobSteps, JobForgets, JobRedeems, JobRejected, JobStops, JobJoins, JobStarts
<1>3. UNCHANGED <<operator, operatorBusy, quitting, leaving, exited>>
  BY <1>2 DEF jobStepVars, slotVars
<1> DEFINE Right(k) == k \in Job /\ Advance(j, k) /\ JobHolds(k, running') /\ OneOperator'
           Threaded == running' \subseteq Threads /\ asked' \subseteq Threads
                       /\ built' \in [Threads -> Context]
<1>4. ASSUME NEW k, Right(k), Threaded PROVE LifecycleInv'
  <2>1. Held' /\ jobs' \subseteq Job /\ (operatorBusy' <=> jobs' # {})
    BY <1>2, <1>3, <1>4, AdvanceHolds
  <2> QED  BY <1>2, <1>4, <2>1
           DEF LifecycleInv, LifecycleTypeOK, jobStepVars, settingsVars, slotVars
<1>5. CASE JobForgets(j) \/ JobRedeems(j)
  <2>1. Right([j EXCEPT !.at = "stop"])
    BY <1>1, <1>5 DEF JobForgets, JobRedeems, threadVars, Job, JobHolds, OneOperator
  <2>2. Threaded
    BY <1>5 DEF JobForgets, JobRedeems, threadVars, LifecycleInv, LifecycleTypeOK
  <2> QED  BY <1>4, <2>1, <2>2
<1>6. CASE JobRejected(j)
  <2> DEFINE k == [j EXCEPT !.at = "done", !.new = IF j.old = NoOperator THEN Disabled ELSE j.old]
  <2>1. k \in Job
    BY <1>1 DEF Job, Handles
  <2>2. running' = running /\ running \subseteq Threads
    BY <1>6 DEF JobRejected, threadVars, LifecycleInv, LifecycleTypeOK
  <2>3. JobHolds(k, running')
    BY <1>1, <1>6, <2>2, NoThreads DEF JobRejected, JobHolds, Job
  <2>4. Right(k)
    BY <1>1, <1>6, <2>1, <2>2, <2>3 DEF JobRejected, OneOperator
  <2>5. Threaded
    BY <1>6 DEF JobRejected, threadVars, LifecycleInv, LifecycleTypeOK
  <2> QED  BY <1>4, <2>4, <2>5
<1>7. CASE JobStops(j)
  <2>1. Right([j EXCEPT !.at = "join"])
    BY <1>1, <1>7 DEF JobStops, Job, JobHolds, OneOperator
  <2>2. Threaded
    BY <1>7 DEF JobStops, LifecycleInv, LifecycleTypeOK
  <2> QED  BY <1>4, <2>1, <2>2
<1>8. CASE JobJoins(j)
  <2>1. running = {} /\ running' = running
    BY <1>1, <1>8 DEF JobJoins, Joined, JobHolds, threadVars
  <2>2. Right([j EXCEPT !.at = "start"])
    BY <1>1, <1>8, <2>1 DEF JobJoins, Job, JobHolds, OneOperator
  <2>3. Threaded
    BY <1>8 DEF JobJoins, threadVars, LifecycleInv, LifecycleTypeOK
  <2> QED  BY <1>4, <2>2, <2>3
<1>9. CASE JobStarts(j)
  <2>1. running = {} /\ j.ctx \in Context
    BY <1>1, <1>9 DEF JobStarts, JobHolds, Job
  <2>2. ASSUME NEW t \in Threads, running' = running \cup {t}, asked' = asked \ {t},
               built' = [built EXCEPT ![t] = j.ctx],
               Advance(j, [j EXCEPT !.at = "done", !.new = t, !.enabled = TRUE])
        PROVE  LifecycleInv'
    <3>1. Right([j EXCEPT !.at = "done", !.new = t, !.enabled = TRUE])
      BY <1>1, <2>1, <2>2 DEF Job, JobHolds, OneOperator, Handles
    <3>2. Threaded
      BY <2>1, <2>2 DEF LifecycleInv, LifecycleTypeOK
    <3> QED  BY <1>4, <3>1, <3>2
  <2>3. ASSUME UNCHANGED threadVars,
               Advance(j, [j EXCEPT !.at = "done", !.new = Disabled, !.enabled = FALSE])
        PROVE  LifecycleInv'
    <3>1. Right([j EXCEPT !.at = "done", !.new = Disabled, !.enabled = FALSE])
      BY <1>1, <2>1, <2>3 DEF Job, JobHolds, OneOperator, Handles, threadVars
    <3>2. Threaded
      BY <2>3 DEF threadVars, LifecycleInv, LifecycleTypeOK
    <3> QED  BY <1>4, <3>1, <3>2
  <2> QED  BY <1>9, <2>2, <2>3 DEF JobStarts
<1> QED  BY <1>5, <1>6, <1>7, <1>8, <1>9 DEF JobSteps

\* A thread ends.
LEMMA EndSteps == ASSUME LifecycleInv, NEW t \in Threads, OperatorEnds(t) PROVE LifecycleInv'
<1>1. running' = running \ {t} /\ UNCHANGED <<jobs, asked, built>> /\ UNCHANGED jobStepVars
      /\ ~exited
  BY DEF OperatorEnds
<1>2. \A j \in jobs : JobHolds(j, running')
  BY <1>1 DEF LifecycleInv, Held, JobHolds
<1>3. Held'
  BY <1>1, <1>2
  DEF LifecycleInv, Held, OneJob, LeaveHolds, OneOperator, ExitStopsOperator, jobStepVars, slotVars
<1> QED  BY <1>1, <1>3 DEF LifecycleInv, LifecycleTypeOK, jobStepVars, settingsVars, slotVars

\* The worker that leaves.
LEMMA LeaveSteps ==
  ASSUME LifecycleInv, LeaveStops \/ LeaveJoins \/ LeaveTimesOut
  PROVE  LifecycleInv'
<1>1. leaving \in Leave /\ ~exited /\ leaving.at # "no"
  BY DEF LifecycleInv, LifecycleTypeOK, LeaveStops, LeaveJoins, LeaveTimesOut
<1>2. operator = NoOperator /\ quitting /\ jobs = {} /\ running \subseteq {leaving.old}
  BY <1>1, NoThreads DEF LifecycleInv, LifecycleTypeOK, Held, LeaveHolds
<1>3. UNCHANGED <<settingsVars, checks, task, slotVars, quitting, installed, jobs, running, built,
                  inputs>>
  BY DEF LeaveStops, LeaveJoins, LeaveTimesOut, threadVars
<1>4. CASE LeaveStops
  <2>1. leaving' = [leaving EXCEPT !.at = "join"] /\ asked' = asked \cup ({leaving.old} \cap Threads)
        /\ exited' = exited
    BY <1>4 DEF LeaveStops
  <2>2. leaving' \in Leave /\ leaving'.old = leaving.old /\ leaving'.at = "join"
    BY <1>1, <2>1 DEF Leave
  <2>3. leaving.old \notin running \ asked'
    BY <2>1 DEF LifecycleInv, LifecycleTypeOK
  <2>4. Held'
    BY <1>1, <1>2, <1>3, <2>1, <2>2, <2>3
    DEF LifecycleInv, Held, OneJob, LeaveHolds, OneOperator, ExitStopsOperator, slotVars
  <2> QED  BY <1>3, <2>1, <2>2, <2>4
           DEF LifecycleInv, LifecycleTypeOK, settingsVars, slotVars
<1>5. CASE LeaveJoins \/ LeaveTimesOut
  <2>1. exited' = TRUE /\ UNCHANGED <<leaving, asked>>
        /\ (leaving.by = "quit" => running = {})
    BY <1>2, <1>5 DEF LeaveJoins, LeaveTimesOut, threadVars
  <2>2. Held'
    BY <1>2, <1>3, <2>1
    DEF LifecycleInv, Held, OneJob, LeaveHolds, OneOperator, ExitStopsOperator, slotVars
  <2> QED  BY <1>3, <2>1, <2>2 DEF LifecycleInv, LifecycleTypeOK, settingsVars, slotVars
<1> QED  BY <1>4, <1>5

------------------------------------------------------------------------------
(* The theorems.                                                           *)

LEMMA LifecycleStep == LifecycleInv /\ [LifecycleNext]_lifecycleVars => LifecycleInv'
<1> SUFFICES ASSUME LifecycleInv, LifecycleNext \/ UNCHANGED lifecycleVars PROVE LifecycleInv'
  OBVIOUS
<1>1. CASE UNCHANGED lifecycleVars
  <2>1. Held'
    BY <1>1, HeldKept DEF lifecycleVars, slotVars, threadVars, heldVars, LifecycleInv
  <2> QED  BY <1>1, <2>1
           DEF lifecycleVars, settingsVars, slotVars, threadVars, LifecycleInv, LifecycleTypeOK
<1>2. CASE UserActs
  BY <1>2, QuietSteps, RestartSteps, TokenSteps, QuitSteps DEF UserActs
<1>3. CASE Settle \/ Work
  BY <1>3, SettleSteps, JobStepsHold DEF Settle, Work
<1>4. CASE \/ \E r \in BOOLEAN : ApplyEnv(r)
           \/ Heartbeat \/ CloseSettings
  BY <1>4, RestartSteps
<1>5. CASE \/ \E c \in {"env", "status"} : CheckReads(c)
           \/ RefreshStatus \/ TaskEnds \/ ShowCleanup \/ LeaveSetup \/ Gone
  BY <1>5, QuietSteps
<1>6. CASE (\E t \in Threads : OperatorEnds(t)) \/ LeaveStops \/ LeaveJoins \/ LeaveTimesOut
  BY <1>6, EndSteps, LeaveSteps
<1> QED  BY <1>1, <1>2, <1>3, <1>4, <1>5, <1>6 DEF LifecycleNext

\* The invariant, for any instance.
THEOREM LifecycleInvariant == LifecycleSpec => []LifecycleInv
<1> QED  BY HeldInit, LifecycleStep, PTL DEF LifecycleSpec

\* Every state of AppState and of its workers is well typed, and the flag
\* operator_busy tells whether there is a job.
THEOREM LifecycleTypeCorrect == LifecycleSpec => []LifecycleTypeOK
<1>1. LifecycleInv => LifecycleTypeOK
  BY DEF LifecycleInv
<1> QED  BY <1>1, LifecycleInvariant, PTL

\* Two operators never run, whatever requests, quits and exits come in while a
\* job replaces one (restart_operator).
THEOREM NeverTwoOperators == LifecycleSpec => []OneOperator
<1> QED  BY HeldIsEnough, LifecycleInvariant, PTL

\* An operator nobody asked to stop is in somebody's hands who can.
THEOREM NoOperatorIsLost == LifecycleSpec => []OperatorIsHeld
<1> QED  BY HeldIsEnough, LifecycleInvariant, PTL

\* The app's own quit leaves no operator running (quit, operator_settled).
THEOREM QuitStopsTheOperator == LifecycleSpec => []ExitStopsOperator
<1> QED  BY HeldIsEnough, LifecycleInvariant, PTL

------------------------------------------------------------------------------
(* What the app holds once it is settled: the safety half of OperatorFollows.*)
(* A change of the container runtime or of the preference reaches the        *)
(* operator at once or through the one queued request, which no interleaving *)
(* of events and jobs may lose.                                              *)

\* A handle is what a start with runtime r under preference p gives: a thread
\* that runs and that nobody asked to stop, or none where the bridge is off.
Fits(handle, enabled, r, p) ==
  /\ handle \in Threads <=> enabled
  /\ handle \in Threads => handle \in running \ asked /\ built[handle].runtime = r
  /\ p = "off" => ~enabled

\* A job works on what the app wants, or a request waits for it to end.
JobAsTold(j) ==
  /\ operatorRuntime = RuntimeName(j.ctx.runtime)
  /\ restartPending = "no" => j.ctx.runtime = runtime /\ j.pref = pref
  /\ j.at = "redeem" => Fits(j.old, j.enabled, j.ctx.runtime, j.pref)
  /\ j.at = "done" => j.new # NoOperator /\ Fits(j.new, j.enabled, j.ctx.runtime, j.pref)

AsTold ==
  ~quitting =>
    /\ restartPending # "no" => operatorBusy
    /\ ~operatorBusy =>
         /\ operator = NoOperator <=> operatorRuntime = "unset"
         /\ operatorRuntime \in {"unset", RuntimeName(runtime)}
         /\ Fits(operator, operatorEnabled, runtime, pref)
    /\ \A j \in jobs : JobAsTold(j)

toldVars == <<quitting, restartPending, operator, operatorBusy, operatorRuntime,
              operatorEnabled, runtime, pref, jobs, running, asked, built>>

LEMMA ToldKept == AsTold /\ UNCHANGED toldVars => AsTold'
BY DEF AsTold, toldVars, JobAsTold, Fits

LEMMA ToldInit == LifecycleInit => AsTold
BY NoThreads DEF LifecycleInit, AsTold, Fits

\* restart_operator under the settings an event leaves behind.
LEMMA RestartAsTold ==
  ASSUME LifecycleInv, AsTold, NEW reenroll \in BOOLEAN,
         NEW r \in BOOLEAN, NEW d \in DevContexts, NEW p \in Prefs,
         RestartOperator(reenroll, r, d, p), runtime' = r, pref' = p,
         UNCHANGED <<quitting, running, asked, built>>
  PROVE  AsTold'
<1>1. CASE quitting
  BY <1>1 DEF AsTold
<1>2. CASE ~quitting /\ operatorBusy
  <2>1. restartPending' # "no" /\ UNCHANGED <<operatorBusy, operatorRuntime, jobs>>
    BY <1>2 DEF RestartOperator, Busy, QueueRequest
  <2>2. ASSUME NEW j \in jobs PROVE JobAsTold(j)'
    BY <1>2, <2>1 DEF AsTold, JobAsTold, Fits
  <2> QED  BY <1>2, <2>1, <2>2 DEF AsTold
<1>3. CASE ~quitting /\ ~operatorBusy
  <2>1. PICK k : /\ jobs' = {k} /\ operatorBusy' = TRUE /\ operatorRuntime' = RuntimeName(r)
                 /\ k.ctx.runtime = r /\ k.pref = p /\ k.at = "forget"
    <3>1. StartJob("restart", reenroll, operator, r, d, p) /\ jobs = {}
      BY <1>3 DEF RestartOperator, Busy, LifecycleInv, LifecycleTypeOK
    <3> DEFINE m == [kind |-> "restart", reenroll |-> reenroll, old |-> operator,
                     new |-> NoOperator, ctx |-> [runtime |-> r, dev |-> d], pref |-> p,
                     enabled |-> operatorEnabled, at |-> "forget"]
    <3>2. jobs' = {m} /\ operatorBusy' = TRUE /\ operatorRuntime' = RuntimeName(r)
      BY <3>1 DEF StartJob
    <3>3. m.ctx.runtime = r /\ m.pref = p /\ m.at = "forget"
      OBVIOUS
    <3> HIDE DEF m
    <3> QED  BY <3>2, <3>3
  <2>2. JobAsTold(k)'
    BY <2>1 DEF JobAsTold
  <2> QED  BY <2>1, <2>2 DEF AsTold
<1> QED  BY <1>1, <1>2, <1>3

LEMMA RuntimeNameTells == \A r, s \in BOOLEAN : RuntimeName(r) = RuntimeName(s) => r = s
BY DEF RuntimeName

\* An environment check asks for a restart exactly when one is due.
LEMMA EnvAsTold ==
  ASSUME LifecycleInv, AsTold, NEW r \in BOOLEAN, ApplyEnv(r)
  PROVE  AsTold'
<1>1. runtime' = r /\ UNCHANGED <<pref, quitting, running, asked, built>>
  BY DEF ApplyEnv, threadVars
<1>2. CASE operatorRuntime # RuntimeName(r)
  BY <1>1, <1>2, RestartAsTold DEF ApplyEnv, LifecycleInv, LifecycleTypeOK
<1>3. CASE operatorRuntime = RuntimeName(r) /\ ~quitting
  <2>1. UNCHANGED <<operator, operatorBusy, restartPending, operatorRuntime, operatorEnabled, jobs>>
    BY <1>3 DEF ApplyEnv, slotVars
  <2>2. ~operatorBusy => runtime = r
    BY <1>3, RuntimeNameTells DEF AsTold, LifecycleInv, LifecycleTypeOK, RuntimeName
  <2>3. ASSUME NEW j \in jobs PROVE JobAsTold(j)'
    <3>1. JobAsTold(j) /\ j.ctx.runtime \in BOOLEAN
      BY <1>3 DEF AsTold, LifecycleInv, LifecycleTypeOK, Job, Context
    <3>2. j.ctx.runtime = r
      BY <1>3, <3>1, RuntimeNameTells DEF JobAsTold
    <3> QED  BY <1>1, <2>1, <3>1, <3>2 DEF JobAsTold, Fits
  <2> QED  BY <1>1, <1>3, <2>1, <2>2, <2>3 DEF AsTold, Fits
<1>4. CASE quitting
  BY <1>1, <1>4 DEF AsTold
<1> QED  BY <1>2, <1>3, <1>4

\* A pairing starts from the operator there is, which a rejected token hands back.
LEMMA TokenAsTold == ASSUME LifecycleInv, AsTold, SubmitToken PROVE AsTold'
<1>1. PICK k : /\ jobs' = {k} /\ operatorBusy' = TRUE /\ operatorRuntime' = RuntimeName(runtime)
               /\ k.ctx.runtime = runtime /\ k.pref = pref /\ k.at = "redeem"
               /\ k.old = operator /\ k.enabled = operatorEnabled
               /\ UNCHANGED <<runtime, pref, running, asked, built>>
  BY DEF SubmitToken, StartJob, threadVars, LifecycleInv, LifecycleTypeOK
<1>2. Fits(operator, operatorEnabled, runtime, pref)
  BY DEF AsTold, SubmitToken
<1>3. JobAsTold(k)'
  BY <1>1, <1>2 DEF JobAsTold, Fits
<1> QED  BY <1>1, <1>3 DEF AsTold

\* A job that is done gives its handle to the app, or a waiting request takes it.
LEMMA SettledAsTold ==
  ASSUME LifecycleInv, AsTold, NEW j \in jobs, JobSettles(j) PROVE AsTold'
<1>1. jobs = {j} /\ j.at = "done" /\ operatorBusy
  BY DEF LifecycleInv, LifecycleTypeOK, Held, OneJob, JobSettles
<1>2. UNCHANGED <<runtime, pref, dev, quitting, running, asked, built>> /\ operatorEnabled' = j.enabled
  BY DEF JobSettles, settingsVars, threadVars
<1>3. CASE quitting
  BY <1>2, <1>3 DEF AsTold
<1>4. CASE ~quitting /\ restartPending # "no"
  <2>1. PICK k : /\ jobs' = {k} /\ restartPending' = "no"
                 /\ operatorRuntime' = RuntimeName(runtime) /\ UNCHANGED operatorBusy
                 /\ k.ctx.runtime = runtime /\ k.pref = pref /\ k.at = "forget"
    <3> DEFINE m == [kind |-> "restart", reenroll |-> restartPending = "reenroll",
                     old |-> j.new, new |-> NoOperator,
                     ctx |-> [runtime |-> runtime, dev |-> dev], pref |-> pref,
                     enabled |-> j.enabled, at |-> "forget"]
    <3>1. jobs' = {m} /\ restartPending' = "no" /\ operatorRuntime' = RuntimeName(runtime)
          /\ UNCHANGED operatorBusy
      BY <1>1, <1>4 DEF JobSettles
    <3>2. m.ctx.runtime = runtime /\ m.pref = pref /\ m.at = "forget"
      OBVIOUS
    <3> HIDE DEF m
    <3> QED  BY <1>1, <3>1, <3>2
  <2>2. JobAsTold(k)'
    BY <1>2, <2>1 DEF JobAsTold
  <2> QED  BY <1>1, <2>1, <2>2 DEF AsTold
<1>5. CASE ~quitting /\ restartPending = "no"
  <2>1. /\ operator' = j.new /\ operatorBusy' = FALSE /\ jobs' = {}
        /\ UNCHANGED <<restartPending, operatorRuntime>>
    BY <1>1, <1>5 DEF JobSettles
  <2>2. /\ operatorRuntime = RuntimeName(runtime) /\ j.new # NoOperator
        /\ Fits(j.new, j.enabled, runtime, pref)
    BY <1>1, <1>5 DEF AsTold, JobAsTold
  <2>3. RuntimeName(runtime) # "unset"
    BY DEF RuntimeName
  <2> QED  BY <1>2, <1>5, <2>1, <2>2, <2>3 DEF AsTold, Fits
<1> QED  BY <1>3, <1>4, <1>5

\* A worker's step: a rejected pairing and a start both leave a handle that fits.
LEMMA WorkAsTold ==
  ASSUME LifecycleInv, AsTold, NEW j \in jobs, JobSteps(j) PROVE AsTold'
<1>1. jobs = {j} /\ j \in Job
  BY DEF LifecycleInv, LifecycleTypeOK, Held, OneJob
<1>2. UNCHANGED jobStepVars
  BY DEF JobSteps, JobForgets, JobRedeems, JobRejected, JobStops, JobJoins, JobStarts
<1>3. /\ UNCHANGED <<quitting, restartPending, operatorBusy, operatorRuntime, runtime, pref>>
      /\ operatorBusy
  BY <1>1, <1>2 DEF jobStepVars, slotVars, settingsVars, LifecycleInv, LifecycleTypeOK
<1> DEFINE Same(k) == k.ctx = j.ctx /\ k.pref = j.pref
           Done(k) == k.new # NoOperator /\ Fits(k.new, k.enabled, k.ctx.runtime, k.pref)'
<1>4. ASSUME NEW k, jobs' = {k}, Same(k), k.at # "redeem",
             ~quitting /\ k.at = "done" => Done(k)
      PROVE  AsTold'
  <2> SUFFICES ASSUME ~quitting PROVE JobAsTold(k)'
    BY <1>3, <1>4 DEF AsTold
  <2>1. JobAsTold(j)
    BY DEF AsTold
  <2> QED  BY <1>3, <1>4, <2>1 DEF JobAsTold, Fits
<1>5. CASE JobForgets(j) \/ JobRedeems(j) \/ JobStops(j) \/ JobJoins(j)
  <2>1. PICK s \in {"stop", "join", "start"} : jobs' = {[j EXCEPT !.at = s]}
    BY <1>1, <1>5 DEF JobForgets, JobRedeems, JobStops, JobJoins, Advance
  <2>2. Same([j EXCEPT !.at = s]) /\ [j EXCEPT !.at = s].at = s
    BY <1>1 DEF Job
  <2> QED  BY <1>4, <2>1, <2>2
<1>6. CASE JobRejected(j)
  <2> DEFINE k == [j EXCEPT !.at = "done", !.new = IF j.old = NoOperator THEN Disabled ELSE j.old]
  <2>1. jobs' = {k} /\ j.at = "redeem" /\ UNCHANGED <<running, asked, built>>
    BY <1>1, <1>6 DEF JobRejected, Advance, threadVars
  <2>2. /\ Same(k) /\ k.at = "done" /\ k.enabled = j.enabled
        /\ k.new = IF j.old = NoOperator THEN Disabled ELSE j.old
    BY <1>1 DEF Job
  <2>3. ~quitting => Fits(j.old, j.enabled, j.ctx.runtime, j.pref)
    BY <2>1 DEF AsTold, JobAsTold
  <2>4. ~quitting => Done(k)
    BY <2>1, <2>2, <2>3, NoThreads DEF Fits, NoOperator, Disabled
  <2> QED  BY <1>4, <2>1, <2>2, <2>4
<1>7. CASE JobStarts(j)
  <2>1. ASSUME NEW t \in Threads, running' = running \cup {t}, asked' = asked \ {t},
               built' = [built EXCEPT ![t] = j.ctx],
               BridgeEnabled(j.pref, j.ctx.dev, installed),
               Advance(j, [j EXCEPT !.at = "done", !.new = t, !.enabled = TRUE])
        PROVE  AsTold'
    <3> DEFINE k == [j EXCEPT !.at = "done", !.new = t, !.enabled = TRUE]
    <3>1. jobs' = {k}
      BY <1>1, <2>1 DEF Advance
    <3>2. Same(k) /\ k.at = "done" /\ k.enabled = TRUE /\ k.new = t
      BY <1>1 DEF Job
    <3>3. built'[t] = j.ctx /\ j.pref # "off"
      BY <2>1 DEF LifecycleInv, LifecycleTypeOK, BridgeEnabled
    <3>4. Done(k)
      BY <2>1, <3>2, <3>3, NoThreads DEF Fits
    <3> QED  BY <1>4, <3>1, <3>2, <3>4
  <2>2. ASSUME Advance(j, [j EXCEPT !.at = "done", !.new = Disabled, !.enabled = FALSE])
        PROVE  AsTold'
    <3> DEFINE k == [j EXCEPT !.at = "done", !.new = Disabled, !.enabled = FALSE]
    <3>1. jobs' = {k}
      BY <1>1, <2>2 DEF Advance
    <3>2. Same(k) /\ k.at = "done" /\ k.enabled = FALSE /\ k.new = Disabled
      BY <1>1 DEF Job
    <3>3. Done(k)
      BY <3>2, NoThreads DEF Fits, NoOperator, Disabled
    <3> QED  BY <1>4, <3>1, <3>2, <3>3
  <2> QED  BY <1>7, <2>1, <2>2 DEF JobStarts
<1> QED  BY <1>5, <1>6, <1>7 DEF JobSteps

\* Only a thread that was asked to ends, and none that anybody still counts on.
LEMMA EndAsTold ==
  ASSUME LifecycleInv, AsTold, NEW t \in Threads, OperatorEnds(t) PROVE AsTold'
<1>1. /\ running' = running \ {t} /\ t \in asked /\ UNCHANGED <<asked, built, jobs>>
      /\ UNCHANGED <<quitting, restartPending, operator, operatorBusy, operatorRuntime,
                     operatorEnabled, runtime, pref>>
  BY DEF OperatorEnds, jobStepVars, slotVars, settingsVars
<1>2. ASSUME NEW h, NEW e, NEW r, NEW p, Fits(h, e, r, p) PROVE Fits(h, e, r, p)'
  BY <1>1, <1>2 DEF Fits
<1>3. ASSUME NEW j \in jobs, JobAsTold(j) PROVE JobAsTold(j)'
  <2>1. j.at = "redeem" => Fits(j.old, j.enabled, j.ctx.runtime, j.pref)'
    BY <1>2, <1>3 DEF JobAsTold
  <2>2. j.at = "done" => j.new # NoOperator /\ Fits(j.new, j.enabled, j.ctx.runtime, j.pref)'
    BY <1>2, <1>3 DEF JobAsTold
  <2> QED  BY <1>1, <1>3, <2>1, <2>2 DEF JobAsTold
<1> QED  BY <1>1, <1>2, <1>3 DEF AsTold

LEMMA ToldStep ==
  LifecycleInv /\ AsTold /\ [LifecycleNext]_lifecycleVars => AsTold'
<1> SUFFICES ASSUME LifecycleInv, AsTold, LifecycleNext \/ UNCHANGED lifecycleVars
             PROVE  AsTold'
  OBVIOUS
<1> DEFINE Quiet == \/ \E c \in {"env", "status"} : CheckReads(c)
                    \/ RefreshStatus \/ TaskStarts \/ TaskEnds \/ OpenSettings \/ ShowCleanup
                    \/ OpenSetup \/ LeaveSetup
                    \/ \E d \in DevContexts : SelectDev(d)
                    \/ Gone
<1>1. CASE Quiet \/ UNCHANGED lifecycleVars
  <2>1. UNCHANGED toldVars
    BY <1>1 DEF CheckReads, RefreshStatus, CheckIsIn, TaskStarts, TaskEnds, OpenSettings,
                ShowCleanup, OpenSetup, LeaveSetup, SelectDev, Gone, lifecycleVars, settingsVars,
                slotVars, threadVars, toldVars
  <2> QED  BY <2>1, ToldKept
<1>2. CASE Heartbeat \/ CloseSettings \/ \E p \in Prefs : SetBridge(p)
  <2>1. UNCHANGED <<runtime, quitting, running, asked, built>>
    BY <1>2 DEF Heartbeat, CloseSettings, SetBridge, settingsVars, threadVars
  <2>2. CASE Heartbeat \/ (CloseSettings /\ dev # devOnOpen)
    BY <2>1, <2>2, RestartAsTold
    DEF Heartbeat, CloseSettings, ApplyDevContext, settingsVars, LifecycleInv, LifecycleTypeOK
  <2>3. CASE CloseSettings /\ dev = devOnOpen
    BY <2>1, <2>3, ToldKept DEF CloseSettings, ApplyDevContext, slotVars, toldVars
  <2>4. ASSUME NEW p \in Prefs, SetBridge(p) PROVE AsTold'
    BY <2>1, <2>4, RestartAsTold DEF SetBridge, LifecycleInv, LifecycleTypeOK
  <2> QED  BY <1>2, <2>2, <2>3, <2>4
<1>3. CASE Quit \/ SystemExit
  BY <1>3 DEF Quit, SystemExit, AsTold
<1>4. CASE LeaveStops \/ LeaveJoins \/ LeaveTimesOut
  <2>1. quitting /\ quitting' = quitting
    BY <1>4 DEF LeaveStops, LeaveJoins, LeaveTimesOut, LifecycleInv, Held, LeaveHolds
  <2> QED  BY <2>1 DEF AsTold
<1>5. CASE \/ SubmitToken \/ Settle \/ Work
           \/ \E r \in BOOLEAN : ApplyEnv(r)
           \/ \E t \in Threads : OperatorEnds(t)
  BY <1>5, TokenAsTold, SettledAsTold, WorkAsTold, EnvAsTold, EndAsTold DEF Settle, Work
<1> QED  BY <1>1, <1>2, <1>3, <1>4, <1>5 DEF LifecycleNext, UserActs

\* Once no job is under way the app holds what was last asked for: a running
\* operator that nobody asked to stop, started with the container runtime that is
\* there now, or no operator; none while the user disabled the bridge; and no
\* request left behind.
SettledAsAsked ==
  ~quitting /\ ~operatorBusy =>
    /\ restartPending = "no"
    /\ operator = NoOperator <=> operatorRuntime = "unset"
    /\ operator \in Threads <=> operatorEnabled
    /\ operator \in Threads => operator \in running \ asked /\ built[operator].runtime = runtime
    /\ pref = "off" => operator \notin Threads

\* A settled app is as asked, whatever came in while jobs ran ("restart it if
\* Docker appeared/disappeared", apply_env; set_bridge_disabled, operator_settled).
THEOREM SettledIsAsAsked == LifecycleSpec => []SettledAsAsked
<1>1. AsTold => SettledAsAsked
  BY DEF AsTold, Fits, SettledAsAsked
<1> QED  BY <1>1, ToldInit, ToldStep, LifecycleInvariant, PTL DEF LifecycleSpec

\* A queued request changes only into the stronger one, to enroll again, or into
\* the job that carries it out with the settings of that moment.
RequestIsServed ==
  restartPending # "no" /\ restartPending' # restartPending =>
    \/ restartPending' = "reenroll"
    \/ \E j \in jobs' \ jobs :
         /\ j.at = "forget" /\ j.reenroll = (restartPending = "reenroll")
         /\ j.ctx = [runtime |-> runtime, dev |-> dev] /\ j.pref = pref

\* No request is dropped while a job runs: the safety half of ReenrollHappens
\* (restart_operator, operator_settled).
THEOREM RequestsAreServed == LifecycleSpec => [][RequestIsServed]_lifecycleVars
<1>1. LifecycleInv /\ [LifecycleNext]_lifecycleVars => [RequestIsServed]_lifecycleVars
  <2> SUFFICES ASSUME LifecycleInv, LifecycleNext, restartPending # "no",
                      restartPending' # restartPending
               PROVE  RequestIsServed
    BY DEF RequestIsServed
  <2>1. ASSUME NEW e, NEW r, NEW d, NEW p, RestartOperator(e, r, d, p)
        PROVE  restartPending' = "reenroll"
    BY <2>1 DEF RestartOperator, StartJob, QueueRequest, slotVars, LifecycleInv, LifecycleTypeOK
  <2>2. \/ \E r \in BOOLEAN : ApplyEnv(r)
        \/ Heartbeat \/ CloseSettings \/ (\E p \in Prefs : SetBridge(p)) \/ Settle
    BY DEF LifecycleNext, UserActs, Work, JobSteps, JobForgets, JobRedeems, JobRejected, JobStops,
           JobJoins, JobStarts, jobStepVars, CheckReads, RefreshStatus, TaskStarts, TaskEnds,
           OpenSettings, ShowCleanup, OpenSetup, LeaveSetup, SelectDev, SubmitToken, Quit,
           SystemExit, OperatorEnds, LeaveStops, LeaveJoins, LeaveTimesOut, Gone, slotVars,
           lifecycleVars
  <2>3. CASE \/ \E r \in BOOLEAN : ApplyEnv(r)
             \/ Heartbeat \/ CloseSettings \/ \E p \in Prefs : SetBridge(p)
    BY <2>1, <2>3 DEF ApplyEnv, Heartbeat, CloseSettings, ApplyDevContext, SetBridge, slotVars,
                      RequestIsServed
  <2>4. ASSUME NEW j \in jobs, JobSettles(j) PROVE RequestIsServed
    <3> DEFINE k == [kind |-> "restart", reenroll |-> restartPending = "reenroll",
                     old |-> j.new, new |-> NoOperator,
                     ctx |-> [runtime |-> runtime, dev |-> dev], pref |-> pref,
                     enabled |-> j.enabled, at |-> "forget"]
    <3>1. jobs = {j} /\ j.at = "done"
      BY <2>4 DEF LifecycleInv, Held, OneJob, JobSettles
    <3>2. k \in jobs'
      BY <2>4 DEF JobSettles
    <3>3. k.at = "forget" /\ k \notin jobs
      BY <3>1
    <3> QED  BY <3>2, <3>3 DEF RequestIsServed
  <2> QED  BY <2>2, <2>3, <2>4 DEF Settle
<1> QED  BY <1>1, LifecycleInvariant, PTL DEF LifecycleSpec

==============================================================================
