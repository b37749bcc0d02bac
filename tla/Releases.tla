------------------------------ MODULE Releases ------------------------------
(***************************************************************************)
(* Releases in the GUI: the threads that look for one (src/update.rs), the *)
(* slot they leave it in, the prompt the heartbeat makes of it, what the   *)
(* user does with it (src/gui/app_state.rs), and the settings all of this  *)
(* goes by (SettingsSaver).  The task that installs a release of COSMOS,   *)
(* the module Upgrade, is one step here: it changes the installed version. *)
(*                                                                         *)
(* The app's own releases are handled alike, in a slot, a prompt and a     *)
(* setting of their own.  A behaviour follows either kind: the other's     *)
(* prompt, like any dialog, only delays this one.  The main page is shown. *)
(***************************************************************************)
EXTENDS SettingsSaver

CONSTANTS
  Editions,
  Newest,      (* bound: the last release of each edition, and of the app     *)
  MaxInputs,   (* bound: what the user does besides answering a prompt        *)
  MaxFaults,   (* bound: failed checks, tasks and writes                      *)
  MaxEnds      (* bound: quits and crashes                                    *)

VARIABLES
  product,     (* whose releases: cosmos, app                                 *)
  published,   (* the newest release of each edition, and of the app          *)
  installed,   (* the version in cosmos/.env, 0 if there is none; that of the *)
               (* running app                                                 *)
  task,        (* the version a running task installs, 0 if none runs         *)
  installer,   (* the version an installer was launched for, 0 if none was    *)
  quitting,
  slot,        (* cosmos_latest                                               *)
  prompt,      (* cosmos_update                                               *)
  checks,      (* checks under way                                            *)
  captured,    (* the edition the periodic checker was started with           *)
  inputs, faults, ends,
  skipped,     (* history: the version the user last skipped, 0 if there is   *)
               (* none, or none that was surely stored                        *)
  former       (* history: the versions skipped before that one               *)

world    == <<product, published>>
installs == <<installed, task, installer>>
offers   == <<slot, prompt, checks, captured>>
bounds   == <<inputs, faults, ends>>
history  == <<skipped, former>>
vars     == <<saverVars, world, installs, quitting, offers, bounds, history>>

\* A release: its edition, or the app, and version.
Channels == Editions \cup {"app"}
None     == [edition |-> "none", version |-> 0]
Versions == UNION {1..Newest[e] : e \in Channels}
Releases == [edition : Channels, version : Versions]
Latest(edition) == [edition |-> edition, version |-> published[edition]]

\* A check waits for the answer about its edition, with the version it read.
Checking == [by : {"periodic", "once", "now"}, edition : Channels, installed : Versions]

Settings == [edition : Editions, dev : BOOLEAN, skipped : Versions \cup {0}]

\* There is a first release of everything, and settings are not their absence.
ASSUME ReleasesAssumption ==
  /\ Newest \in [Channels -> Nat \ {0}]
  /\ Defaults \in Settings /\ Files \subseteq Settings
  /\ Nothing \notin Settings
  /\ {MaxInputs, MaxFaults, MaxEnds} \subseteq Nat

ReleasesTypeOK ==
  /\ settings \in Settings
  /\ stored \in Settings \cup {Nothing} /\ saved \in Settings \cup {Nothing}
  /\ pending \in Settings \cup {Nothing}
  /\ writer \in [busy : BOOLEAN, batch : Settings \cup {Nothing}, flush : BOOLEAN]
  /\ flushing \in BOOLEAN /\ flushed \in BOOLEAN /\ quitting \in BOOLEAN
  /\ product \in {"app", "cosmos"}
  /\ published \in [Channels -> Versions]
  /\ installed \in Versions \cup {0} /\ task \in Versions \cup {0}
  /\ installer \in Versions \cup {0}
  /\ slot \in Releases \cup {None} /\ prompt \in Releases \cup {None}
  /\ checks \subseteq Checking
  /\ captured \in Channels
  /\ inputs \in 0..MaxInputs /\ faults \in 0..MaxFaults /\ ends \in 0..MaxEnds
  /\ skipped \in Versions \cup {0} /\ former \subseteq Versions

\* Which releases a check is about, for the edition in the settings.
Channel(edition) == IF product = "app" THEN "app" ELSE edition

Init ==
  /\ SaverInit
  /\ product \in {"app", "cosmos"}
  /\ published = [e \in Channels |-> 1]
  /\ installed \in IF product = "app" THEN {1} ELSE {0, 1}
  /\ task = 0 /\ installer = 0
  /\ quitting = FALSE
  /\ slot = None /\ prompt = None
  /\ checks = {}
  /\ captured = Channel(settings.edition)
  /\ inputs = 0 /\ faults = 0 /\ ends = 0
  /\ skipped = 0 /\ former = {}

UserActs == ~quitting /\ inputs < MaxInputs /\ inputs' = inputs + 1
Fail     == faults < MaxFaults /\ faults' = faults + 1

------------------------------------------------------------------------------
(* The checkers.                                                           *)

\* cosmos_check begins by reading the installed version.
StartCheck(by, edition) ==
  checks' = IF installed = 0 THEN checks
            ELSE checks \cup {[by |-> by, edition |-> Channel(edition), installed |-> installed]}

\* A cycle of spawn_checker, or of spawn_cosmos_checker, which reads the flag
\* live and does nothing in development mode.
Idles == product = "cosmos" /\ settings.dev

PeriodicCheck ==
  /\ \A c \in checks : c.by # "periodic"
  /\ IF Idles THEN UNCHANGED checks ELSE StartCheck("periodic", captured)
  /\ UNCHANGED <<saverVars, world, installs, quitting, slot, prompt, captured,
                 bounds, history>>

\* "Check for updates now" does not ask whether this is development mode.
CheckForUpdates ==
  /\ UserActs
  /\ \A c \in checks : c.by # "now"
  /\ StartCheck("now", settings.edition)
  /\ UNCHANGED <<saverVars, world, installs, quitting, slot, prompt, captured,
                 faults, ends, history>>

\* The slot holds the newest answer.
FillSlot(latest) ==   \* slip
  slot' = IF slot = None THEN latest ELSE slot
Publicise(latest) == slot' = latest

\* The answer: a newer release goes into the slot, or to the user who asked;
\* the app's checker leaves it to the heartbeat whether it is newer.
CheckAnswers(c) ==
  LET latest == Latest(c.edition)
      newer  == latest.version > c.installed
  IN  /\ checks' = checks \ {c}
      /\ prompt' = IF newer /\ c.by = "now" THEN latest ELSE prompt
      /\ IF c.by # "now" /\ (newer \/ product = "app") THEN Publicise(latest)
         ELSE UNCHANGED slot
      /\ UNCHANGED <<saverVars, world, installs, quitting, captured, bounds,
                     history>>

Answer == \E c \in checks : CheckAnswers(c)

\* A check that fails leaves nothing.
CheckFails ==
  /\ Fail
  /\ \E c \in checks : checks' = checks \ {c}
  /\ UNCHANGED <<saverVars, world, installs, quitting, slot, prompt, captured,
                 inputs, ends, history>>

------------------------------------------------------------------------------
(* The prompt.                                                             *)

\* heartbeat, its part about releases: of the app's, only a newer one is shown.
Shows(release) ==
  /\ release # None /\ release.version # settings.skipped
  /\ product = "app" => release.version > installed

Heartbeat ==
  /\ prompt = None /\ Shows(slot)
  /\ prompt' = slot /\ slot' = None
  /\ UNCHANGED <<saverVars, world, installs, quitting, checks, captured, bounds,
                 history>>

\* install_cosmos_update, install_update: the prompt goes, also when a task is
\* running and nothing comes of it.
Accept ==
  /\ ~quitting /\ prompt # None
  /\ prompt' = None
  /\ task' = IF task = 0 THEN prompt.version ELSE task
  /\ UNCHANGED <<saverVars, world, installed, installer, quitting, slot, checks,
                 captured, bounds, history>>

Skip ==
  /\ ~quitting /\ prompt # None
  /\ prompt' = None
  /\ Save([settings EXCEPT !.skipped = prompt.version])
  /\ skipped' = prompt.version
  /\ former' = former \cup ({skipped} \ {0})
  /\ UNCHANGED <<world, installs, quitting, slot, checks, captured, bounds>>

Dismiss ==
  /\ ~quitting /\ prompt # None
  /\ prompt' = None
  /\ UNCHANGED <<saverVars, world, installs, quitting, slot, checks, captured,
                 bounds, history>>

------------------------------------------------------------------------------
(* The user's other actions.                                               *)

InstallCosmos ==
  /\ UserActs /\ product = "cosmos" /\ task = 0 /\ installed = 0
  /\ task' = published[settings.edition]
  /\ UNCHANGED <<saverVars, world, installed, installer, quitting, offers,
                 faults, ends, history>>

\* A task that fails may leave nothing installed.
CosmosTaskEnds ==
  /\ product = "cosmos" /\ task # 0
  /\ task' = 0
  /\ \/ installed' = task /\ UNCHANGED faults
     \/ Fail /\ installed' \in {installed, 0}
  /\ UNCHANGED <<saverVars, world, installer, quitting, offers, inputs, ends,
                 history>>

\* install_release: the release has no installer for this platform and its page
\* is opened, or its download fails, or the installer is launched and the app
\* quits for it.
AppTaskEnds ==
  /\ product = "app" /\ task # 0
  /\ task' = 0
  /\ \/ UNCHANGED <<saverVars, installer, quitting, faults>>
     \/ Fail /\ UNCHANGED <<saverVars, installer, quitting>>
     \/ /\ installer' = task /\ quitting' = TRUE
        /\ IF quitting THEN UNCHANGED saverVars ELSE Flush
        /\ UNCHANGED faults
  /\ UNCHANGED <<world, installed, offers, inputs, ends, history>>

SetEdition(edition) ==
  /\ UserActs /\ edition # settings.edition
  /\ Save([settings EXCEPT !.edition = edition])
  /\ UNCHANGED <<world, installs, quitting, offers, faults, ends, history>>

\* Entering development mode drops what is offered of COSMOS; leaving it checks
\* at once.
SetDevMode ==
  /\ UserActs
  /\ Save([settings EXCEPT !.dev = ~settings.dev])
  /\ IF product = "app" THEN UNCHANGED <<slot, prompt, checks>>
     ELSE IF settings.dev
     THEN StartCheck("once", settings.edition) /\ UNCHANGED <<slot, prompt>>
     ELSE slot' = None /\ prompt' = None /\ UNCHANGED checks
  /\ UNCHANGED <<world, installs, quitting, captured, faults, ends, history>>

\* quit: settings are flushed on a worker; a task is not waited for.
QuitUnflushed ==   \* slip
  /\ ~quitting /\ ends < MaxEnds
  /\ quitting' = TRUE
  /\ flushed' = TRUE
  /\ UNCHANGED <<settings, stored, pending, flushing, writer, saved, world,
                 installs, offers, bounds, history>>
Quit ==
  /\ ~quitting /\ ends < MaxEnds
  /\ quitting' = TRUE
  /\ Flush
  /\ UNCHANGED <<world, installs, offers, bounds, history>>

\* The process ends, once the flush is acknowledged or of itself, and the app
\* is launched again; a task that ended with it may have wiped COSMOS, and an
\* installer may have replaced the app.
Relaunch ==
  /\ ends < MaxEnds /\ ends' = ends + 1
  /\ Reload
  /\ installed' \in {installed} \cup (IF installer # 0 THEN {installer} ELSE {})
                               \cup (IF task # 0 /\ product = "cosmos" THEN {0} ELSE {})
  /\ task' = 0 /\ installer' = 0
  /\ quitting' = FALSE
  /\ slot' = None /\ prompt' = None /\ checks' = {}
  /\ captured' = Channel(settings'.edition)
  /\ IF quitting /\ flushed THEN UNCHANGED history ELSE skipped' = 0 /\ former' = {}
  /\ UNCHANGED <<world, inputs, faults>>

------------------------------------------------------------------------------
(* The world and the writer.                                               *)

\* Only the releases that are followed matter.
Publish(channel) ==
  /\ channel = "app" <=> product = "app"
  /\ published[channel] < Newest[channel]
  /\ published' = [published EXCEPT ![channel] = @ + 1]
  /\ UNCHANGED <<saverVars, product, installs, quitting, offers, bounds,
                 history>>

Write ==
  /\ TakeBatch \/ WriteBatch
  /\ UNCHANGED <<world, installs, quitting, offers, bounds, history>>

SaveFails ==
  /\ WriteFails /\ Fail
  /\ skipped' = 0 /\ former' = {}
  /\ UNCHANGED <<world, installs, quitting, offers, inputs, ends>>

Next ==
  \/ PeriodicCheck \/ Answer \/ CheckFails \/ Heartbeat \/ Write \/ SaveFails
  \/ CheckForUpdates \/ Accept \/ Skip \/ Dismiss
  \/ InstallCosmos \/ CosmosTaskEnds \/ AppTaskEnds \/ SetDevMode
  \/ \E edition \in Editions : SetEdition(edition)
  \/ \E channel \in Channels : Publish(channel)
  \/ Quit \/ Relaunch

Spec == Init /\ [][Next]_vars

\* The threads run: the checker comes round again, checks are answered, the
\* heartbeat beats.
FairSpec == Spec /\ WF_vars(PeriodicCheck) /\ WF_vars(Answer) /\ WF_vars(Heartbeat)

------------------------------------------------------------------------------
(* Properties.                                                             *)

\* The heartbeat shows the release in the slot.
Offers == slot # None /\ slot' = None /\ prompt' = slot

\* The version the user skipped last is not offered again by the heartbeat, in
\* this run of the app or, if the app was quit in order and its write did not
\* fail, in a later one.  The settings hold one version (skip_update,
\* skip_cosmos_update), so that nothing is said of those skipped before it.
LastSkippedStaysSkipped == [][Offers => slot.version # skipped]_vars

\* "A release version the user chose to skip; the update prompt won't reappear
\* for it" (Settings), whatever else was skipped meanwhile.  The code breaks
\* it: the next skip takes the place of the one before, whose release may be
\* in the slot again (MCReleases_skipped.cfg).
SkippedStaysSkipped == [][Offers => slot.version \notin former \cup {skipped}]_vars

\* A release newer than the installed one, of the app or of the edition the
\* checker was started with, that the user did not skip is offered, whatever
\* older one was skipped, dismissed, failed to install or is in the slot, and
\* development mode is left without a restart (spawn_cosmos_checker,
\* spawn_checker).
Due ==
  /\ ~Idles /\ ~quitting
  /\ installed # 0 /\ published[captured] > installed
  /\ published[captured] # settings.skipped
NewReleaseOffered == Due ~> (prompt # None \/ ~Due)

=============================================================================
