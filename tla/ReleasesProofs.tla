--------------------------- MODULE ReleasesProofs ---------------------------
(***************************************************************************)
(* Theorems about Releases and the settings it is based on, for any        *)
(* editions, any releases of them and all bounds.                          *)
(***************************************************************************)
EXTENDS Releases, TLAPS

\* The newest settings on their way to the file, or those in it.
Written == IF pending # Nothing THEN pending
           ELSE IF writer.batch # Nothing THEN writer.batch ELSE stored

\* A flush is asked for once, by the quit after which nothing is saved, so that
\* it finds the newest settings at or before its place in the queue.
FlushIsLast ==
  /\ ~writer.busy => writer = Asleep
  /\ flushing \/ writer.flush \/ flushed => quitting
  /\ writer.flush \/ flushed => pending = Nothing
  /\ flushed => writer.batch = Nothing

NothingIsLost == saved # Nothing => saved = Written

\* The last skipped version is in the settings, and in those that were saved last.
SkipIsSaved == skipped # 0 => settings.skipped = skipped /\ saved = settings

ReleasesInv == ReleasesTypeOK /\ FlushIsLast /\ NothingIsLost /\ SkipIsSaved

LEMMA AckIsTrue == FlushIsLast /\ NothingIsLost => FlushedIsStored
BY DEF FlushIsLast, NothingIsLost, Written, FlushedIsStored

LEMMA VersionsArePositive == Versions \subseteq Nat \ {0}
BY ReleasesAssumption DEF Versions

LEMMA FirstIsVersion == 1 \in Versions
<1>1. "app" \in Channels /\ 1 \in 1..Newest["app"]
  BY ReleasesAssumption DEF Channels
<1> QED  BY <1>1 DEF Versions

LEMMA InitTypes == Init => ReleasesTypeOK
<1> SUFFICES ASSUME Init PROVE ReleasesTypeOK
  OBVIOUS
<1>1. Load(stored) \in Settings /\ stored \in Settings \cup {Nothing}
  BY ReleasesAssumption DEF Init, SaverInit, Load
<1>2. /\ settings \in Settings
      /\ stored \in Settings \cup {Nothing} /\ saved \in Settings \cup {Nothing}
      /\ pending \in Settings \cup {Nothing}
      /\ flushing \in BOOLEAN /\ flushed \in BOOLEAN /\ quitting \in BOOLEAN
  BY <1>1 DEF Init, SaverInit
<1>3. writer \in [busy : BOOLEAN, batch : Settings \cup {Nothing}, flush : BOOLEAN]
  BY DEF Init, SaverInit, Asleep
<1>4. /\ published \in [Channels -> Versions]
      /\ installed \in Versions \cup {0} /\ task \in Versions \cup {0}
      /\ installer \in Versions \cup {0}
  BY FirstIsVersion DEF Init
<1>5. captured \in Channels
  BY <1>2 DEF Init, Channel, Channels, Settings
<1>6. /\ product \in {"app", "cosmos"}
      /\ slot \in Releases \cup {None} /\ prompt \in Releases \cup {None}
      /\ checks \subseteq Checking
      /\ skipped \in Versions \cup {0} /\ former \subseteq Versions
      /\ inputs \in 0..MaxInputs /\ faults \in 0..MaxFaults /\ ends \in 0..MaxEnds
  BY ReleasesAssumption DEF Init
<1> QED  BY <1>2, <1>3, <1>4, <1>5, <1>6 DEF ReleasesTypeOK

\* What the saver's steps leave of the types of its variables.
SaverTypes ==
  /\ settings \in Settings
  /\ stored \in Settings \cup {Nothing} /\ saved \in Settings \cup {Nothing}
  /\ pending \in Settings \cup {Nothing}
  /\ writer \in [busy : BOOLEAN, batch : Settings \cup {Nothing}, flush : BOOLEAN]
  /\ flushing \in BOOLEAN /\ flushed \in BOOLEAN

LEMMA SaverKeepsTypes ==
  ASSUME SaverTypes,
         \/ UNCHANGED saverVars
         \/ \E value \in Settings : Save(value)
         \/ Flush \/ TakeBatch \/ WriteBatch \/ WriteFails \/ Reload
  PROVE  SaverTypes'
<1> USE DEF SaverTypes
<1>1. CASE UNCHANGED saverVars
  BY <1>1 DEF saverVars
<1>2. CASE \E value \in Settings : Save(value)
  BY <1>2 DEF Save
<1>3. CASE Flush
  BY <1>3 DEF Flush
<1>4. CASE TakeBatch
  BY <1>4 DEF TakeBatch
<1>5. CASE WriteBatch
  BY <1>5 DEF WriteBatch, Asleep
<1>6. CASE WriteFails
  BY <1>6 DEF WriteFails, Asleep
<1>7. CASE Reload
  <2>1. stored' \in Settings \cup {Nothing}
    BY <1>7 DEF Reload
  <2>2. Load(stored') \in Settings
    BY <2>1, ReleasesAssumption DEF Load
  <2>3. writer' \in [busy : BOOLEAN, batch : Settings \cup {Nothing}, flush : BOOLEAN]
    BY <1>7 DEF Reload, Asleep
  <2> QED  BY <1>7, <2>1, <2>2, <2>3 DEF Reload
<1> QED  BY <1>1, <1>2, <1>3, <1>4, <1>5, <1>6, <1>7

\* Every step is one of the saver's.  Saves stop with the quit that asks for the
\* flush.
LEMMA StepSaves ==
  ASSUME ReleasesTypeOK, Next
  PROVE  \/ UNCHANGED saverVars /\ (quitting => quitting')
         \/ ~quitting /\ ~quitting' /\ \E value \in Settings : Save(value)
         \/ ~quitting /\ quitting' /\ Flush
         \/ (TakeBatch \/ WriteBatch \/ WriteFails) /\ UNCHANGED quitting
         \/ Reload
<1>1. ASSUME Skip
      PROVE  ~quitting /\ ~quitting' /\ \E value \in Settings : Save(value)
  <2>1. prompt.version \in Versions \cup {0}
    BY <1>1 DEF Skip, ReleasesTypeOK, Releases, None
  <2>2. [settings EXCEPT !.skipped = prompt.version] \in Settings
    BY <2>1 DEF ReleasesTypeOK, Settings
  <2> QED  BY <1>1, <2>2 DEF Skip
<1>2. ASSUME NEW e \in Editions, SetEdition(e)
      PROVE  ~quitting /\ ~quitting' /\ \E value \in Settings : Save(value)
  <2>1. [settings EXCEPT !.edition = e] \in Settings
    BY DEF ReleasesTypeOK, Settings
  <2> QED  BY <1>2, <2>1 DEF SetEdition, UserActs
<1>3. ASSUME SetDevMode
      PROVE  ~quitting /\ ~quitting' /\ \E value \in Settings : Save(value)
  <2>1. [settings EXCEPT !.dev = ~settings.dev] \in Settings
    BY DEF ReleasesTypeOK, Settings
  <2> QED  BY <1>3, <2>1 DEF SetDevMode, UserActs
<1>4. ASSUME AppTaskEnds \/ Quit
      PROVE  \/ UNCHANGED saverVars /\ (quitting => quitting')
             \/ ~quitting /\ quitting' /\ Flush
  BY <1>4 DEF AppTaskEnds, Quit
<1>5. ASSUME \/ PeriodicCheck \/ Answer \/ CheckFails \/ Heartbeat
             \/ CheckForUpdates \/ Accept \/ Dismiss
             \/ InstallCosmos \/ CosmosTaskEnds
             \/ \E channel \in Channels : Publish(channel)
      PROVE  UNCHANGED saverVars /\ UNCHANGED quitting
  BY <1>5 DEF PeriodicCheck, Answer, CheckAnswers, CheckFails, Heartbeat,
     CheckForUpdates, Accept, Dismiss, InstallCosmos, CosmosTaskEnds, Publish
<1>6. ASSUME Write \/ SaveFails \/ Relaunch
      PROVE  \/ (TakeBatch \/ WriteBatch \/ WriteFails) /\ UNCHANGED quitting
             \/ Reload
  BY <1>6 DEF Write, SaveFails, Relaunch
<1> QED  BY <1>1, <1>2, <1>3, <1>4, <1>5, <1>6 DEF Next

\* A step counts one thing at most.
LEMMA StepCounts ==
  ASSUME Next
  PROVE  \/ bounds' = bounds
         \/ inputs' = inputs /\ faults' = faults /\ ends' = ends
         \/ inputs < MaxInputs /\ inputs' = inputs + 1 /\ faults' = faults /\ ends' = ends
         \/ faults < MaxFaults /\ faults' = faults + 1 /\ inputs' = inputs /\ ends' = ends
         \/ ends < MaxEnds /\ ends' = ends + 1 /\ inputs' = inputs /\ faults' = faults
BY DEF Next, PeriodicCheck, Answer, CheckAnswers, CheckFails, Heartbeat, Write,
   SaveFails, CheckForUpdates, Accept, Skip, Dismiss, InstallCosmos, CosmosTaskEnds,
   AppTaskEnds, SetDevMode, SetEdition, Publish, Quit, Relaunch, UserActs, Fail

LEMMA BoundsKeepTypes ==
  ASSUME ReleasesTypeOK, Next
  PROVE  inputs' \in 0..MaxInputs /\ faults' \in 0..MaxFaults /\ ends' \in 0..MaxEnds
<1>1. bounds' = bounds => inputs' = inputs /\ faults' = faults /\ ends' = ends
  BY DEF bounds
<1> QED  BY <1>1, StepCounts, ReleasesAssumption DEF ReleasesTypeOK

\* Releases are published one at a time, up to the last.
LEMMA PublishedKeepsType ==
  ASSUME ReleasesTypeOK, Next
  PROVE  published' \in [Channels -> Versions]
<1>1. CASE \E channel \in Channels : Publish(channel)
  <2>1. PICK channel \in Channels : Publish(channel)
    BY <1>1
  <2>2. published[channel] + 1 \in 1..Newest[channel]
    <3>1. published[channel] \in Nat /\ Newest[channel] \in Nat
      BY ReleasesAssumption, VersionsArePositive DEF ReleasesTypeOK
    <3>2. published[channel] < Newest[channel]
      BY <2>1 DEF Publish
    <3> QED  BY <3>1, <3>2
  <2>3. published[channel] + 1 \in Versions
    BY <2>2 DEF Versions
  <2> QED  BY <2>1, <2>3 DEF Publish, ReleasesTypeOK
<1>2. CASE ~ \E channel \in Channels : Publish(channel)
  <2>1. world' = world
    BY <1>2 DEF Next, PeriodicCheck, Answer, CheckAnswers, CheckFails, Heartbeat, Write,
       SaveFails, CheckForUpdates, Accept, Skip, Dismiss, InstallCosmos,
       CosmosTaskEnds, AppTaskEnds, SetDevMode, SetEdition, Quit, Relaunch
  <2> QED  BY <2>1 DEF world, ReleasesTypeOK
<1> QED  BY <1>1, <1>2

\* The other variables: what is offered, installed and counted.
LEMMA StepTypes == ReleasesTypeOK /\ [Next]_vars => ReleasesTypeOK'
<1> SUFFICES ASSUME ReleasesTypeOK, [Next]_vars PROVE ReleasesTypeOK'
  OBVIOUS
<1>1. CASE UNCHANGED vars
  BY <1>1 DEF vars, saverVars, world, installs, offers, bounds, history, ReleasesTypeOK
<1>2. CASE Next
  <2>1. SaverTypes'
    BY <1>2, StepSaves, SaverKeepsTypes DEF SaverTypes, ReleasesTypeOK
  <2>2. /\ product' \in {"app", "cosmos"} /\ quitting' \in BOOLEAN
        /\ inputs' \in 0..MaxInputs /\ faults' \in 0..MaxFaults /\ ends' \in 0..MaxEnds
    <3>1. product' = product
      BY <1>2
         DEF Next, PeriodicCheck, Answer, CheckAnswers, CheckFails,
         Heartbeat, Write, SaveFails, CheckForUpdates, Accept, Skip, Dismiss,
         InstallCosmos, CosmosTaskEnds, AppTaskEnds, SetDevMode, SetEdition, Publish,
         Quit, Relaunch, world
    <3>2. quitting' \in {quitting, TRUE, FALSE}
      BY <1>2
         DEF Next, PeriodicCheck, Answer, CheckAnswers, CheckFails,
         Heartbeat, Write, SaveFails, CheckForUpdates, Accept, Skip, Dismiss,
         InstallCosmos, CosmosTaskEnds, AppTaskEnds, SetDevMode, SetEdition, Publish,
         Quit, Relaunch
    <3> QED  BY <1>2, <3>1, <3>2, BoundsKeepTypes DEF ReleasesTypeOK
  <2>3. published' \in [Channels -> Versions]
    BY <1>2, PublishedKeepsType
  <2>4. /\ installed' \in Versions \cup {0} /\ task' \in Versions \cup {0}
        /\ installer' \in Versions \cup {0}
    <3>1. prompt # None => prompt.version \in Versions
      BY DEF ReleasesTypeOK, Releases
    <3>2. published[settings.edition] \in Versions
      BY DEF ReleasesTypeOK, Settings, Channels
    <3>3. CASE Accept
      BY <3>1, <3>3 DEF Accept, ReleasesTypeOK
    <3>4. CASE InstallCosmos
      BY <3>2, <3>4 DEF InstallCosmos, ReleasesTypeOK
    <3>5. CASE CosmosTaskEnds \/ AppTaskEnds
      BY <3>5 DEF CosmosTaskEnds, AppTaskEnds, ReleasesTypeOK
    <3>6. CASE Relaunch
      BY <3>6 DEF Relaunch, ReleasesTypeOK
    <3>7. CASE ~ (Accept \/ InstallCosmos \/ CosmosTaskEnds \/ AppTaskEnds \/ Relaunch)
      BY <1>2, <3>7
         DEF Next, ReleasesTypeOK, PeriodicCheck, Answer, CheckAnswers, CheckFails,
         Heartbeat, Write, SaveFails, CheckForUpdates, Skip, Dismiss, SetDevMode,
         SetEdition, Publish, Quit, installs
    <3> QED  BY <3>3, <3>4, <3>5, <3>6, <3>7
  <2>5. /\ slot' \in Releases \cup {None} /\ prompt' \in Releases \cup {None}
        /\ checks' \subseteq Checking
    <3>1. ASSUME NEW e \in Channels PROVE Latest(e) \in Releases
      BY DEF Latest, Releases, ReleasesTypeOK
    <3>2. CASE Answer
      <4>1. PICK c \in checks : CheckAnswers(c)
        BY <3>2 DEF Answer
      <4>2. Latest(c.edition) \in Releases
        BY <3>1 DEF ReleasesTypeOK, Checking
      <4> QED  BY <4>1, <4>2 DEF CheckAnswers, Publicise, ReleasesTypeOK
    <3>3. ASSUME NEW by \in {"periodic", "once", "now"}, NEW e,
                 Channel(e) \in Channels, installed # 0
          PROVE  [by |-> by, edition |-> Channel(e), installed |-> installed] \in Checking
      BY <3>3 DEF Checking, ReleasesTypeOK
    <3>4. Channel(settings.edition) \in Channels
      BY DEF ReleasesTypeOK, Settings, Channels, Channel
    <3>5. Channel(captured) \in Channels
      BY DEF ReleasesTypeOK, Channels, Channel
    <3>6. CASE PeriodicCheck \/ CheckForUpdates \/ SetDevMode
      BY <3>3, <3>4, <3>5, <3>6
         DEF PeriodicCheck, CheckForUpdates, SetDevMode, StartCheck, ReleasesTypeOK
    <3>7. CASE ~ (Answer \/ PeriodicCheck \/ CheckForUpdates \/ SetDevMode)
      BY <1>2, <3>7
         DEF Next, ReleasesTypeOK, CheckFails, Heartbeat, Write, SaveFails, Accept,
         Skip, Dismiss, InstallCosmos, CosmosTaskEnds, AppTaskEnds, SetEdition,
         Publish, Quit, Relaunch, offers
    <3> QED  BY <3>2, <3>6, <3>7
  <2>6. captured' \in Channels
    <3>1. Channel(settings'.edition) \in Channels
      BY <2>1, <2>2 DEF SaverTypes, Settings, Channel, Channels
    <3>2. CASE Relaunch
      <4>1. UNCHANGED product
        BY <3>2 DEF Relaunch, world
      <4> QED  BY <3>2, <2>1, <4>1
             DEF Relaunch, SaverTypes, Settings, Channel, Channels, ReleasesTypeOK
    <3>3. CASE ~Relaunch
      BY <1>2, <3>3
         DEF Next, ReleasesTypeOK, PeriodicCheck, Answer, CheckAnswers, CheckFails,
         Heartbeat, Write, SaveFails, CheckForUpdates, Accept, Skip, Dismiss,
         InstallCosmos, CosmosTaskEnds, AppTaskEnds, SetDevMode, SetEdition, Publish,
         Quit, offers
    <3> QED  BY <3>2, <3>3
  <2>7. skipped' \in Versions \cup {0} /\ former' \subseteq Versions
    <3>1. CASE Skip
      <4>1. prompt.version \in Versions
        BY <3>1 DEF Skip, ReleasesTypeOK, Releases
      <4> QED  BY <3>1, <4>1 DEF Skip, ReleasesTypeOK
    <3>2. CASE ~Skip
      BY <1>2, <3>2
         DEF Next, ReleasesTypeOK, PeriodicCheck, Answer, CheckAnswers, CheckFails,
         Heartbeat, Write, SaveFails, CheckForUpdates, Accept, Dismiss,
         InstallCosmos, CosmosTaskEnds, AppTaskEnds, SetDevMode, SetEdition, Publish,
         Quit, Relaunch, history
    <3> QED  BY <3>1, <3>2
  <2> QED  BY <2>1, <2>2, <2>3, <2>4, <2>5, <2>6, <2>7 DEF SaverTypes, ReleasesTypeOK
<1> QED  BY <1>1, <1>2


\* The steps of the writer and of a save keep the flush last and lose nothing.
LEMMA StepFlushes ==
  ASSUME ReleasesTypeOK, FlushIsLast, NothingIsLost, [Next]_vars
  PROVE  FlushIsLast' /\ NothingIsLost'
<1> USE DEF FlushIsLast, NothingIsLost, Written
<1>1. CASE UNCHANGED saverVars /\ (quitting => quitting')
  BY <1>1 DEF saverVars
<1>2. CASE ~quitting /\ ~quitting' /\ \E value \in Settings : Save(value)
  BY <1>2 DEF Save
<1>3. CASE ~quitting /\ quitting' /\ Flush
  BY <1>3 DEF Flush
<1>4. CASE TakeBatch /\ UNCHANGED quitting
  BY <1>4 DEF TakeBatch, Asleep
<1>5. CASE WriteBatch /\ UNCHANGED quitting
  BY <1>5 DEF WriteBatch, Asleep
<1>6. CASE WriteFails /\ UNCHANGED quitting
  BY <1>6 DEF WriteFails, Asleep
<1>7. CASE Reload
  BY <1>7 DEF Reload, Asleep
<1>8. CASE UNCHANGED vars
  BY <1>8, <1>1 DEF vars
<1>9. CASE Next
  BY <1>9, <1>1, <1>2, <1>3, <1>4, <1>5, <1>6, <1>7, StepSaves
<1> QED  BY <1>8, <1>9

\* A relaunch finds the skipped version in the file, if the app was quit in order.
LEMMA StepSkips ==
  ASSUME ReleasesInv, [Next]_vars
  PROVE  SkipIsSaved'
<1> USE DEF SkipIsSaved
<1>1. CASE UNCHANGED vars
  BY <1>1 DEF vars, saverVars, history, ReleasesInv
<1>2. CASE Skip
  <2>1. [settings EXCEPT !.skipped = prompt.version].skipped = prompt.version
    BY DEF ReleasesInv, ReleasesTypeOK, Settings
  <2> QED  BY <1>2, <2>1 DEF Skip, Save
<1>3. ASSUME NEW edition \in Editions, SetEdition(edition)
      PROVE  SkipIsSaved'
  <2>1. [settings EXCEPT !.edition = edition].skipped = settings.skipped
    BY DEF ReleasesInv, ReleasesTypeOK, Settings
  <2> QED  BY <1>3, <2>1 DEF SetEdition, Save, ReleasesInv, history
<1>4. CASE SetDevMode
  <2>1. [settings EXCEPT !.dev = ~settings.dev].skipped = settings.skipped
    BY DEF ReleasesInv, ReleasesTypeOK, Settings
  <2> QED  BY <1>4, <2>1 DEF SetDevMode, Save, ReleasesInv, history
<1>5. CASE SaveFails
  BY <1>5 DEF SaveFails
<1>6. CASE Relaunch
  <2>1. CASE skipped' = 0
    BY <2>1
  <2>2. CASE quitting /\ flushed /\ skipped # 0 /\ skipped' = skipped
    <3>1. saved = settings /\ settings.skipped = skipped /\ settings \in Settings
      BY <2>2 DEF ReleasesInv, ReleasesTypeOK
    <3>2. stored = settings
      BY <2>2, <3>1, AckIsTrue, ReleasesAssumption DEF ReleasesInv, FlushedIsStored
    <3>3. stored' = stored
      BY <1>6, <2>2 DEF Relaunch, Reload, ReleasesInv, FlushIsLast
    <3>4. settings' = settings /\ saved' = settings
      BY <1>6, <3>1, <3>2, <3>3, ReleasesAssumption DEF Relaunch, Reload, Load
    <3> QED  BY <2>2, <3>1, <3>4
  <2> QED  BY <1>6, <2>1, <2>2 DEF Relaunch, history
<1>7. CASE Write
  BY <1>7 DEF Write, TakeBatch, WriteBatch, ReleasesInv, history
<1>8. CASE \/ PeriodicCheck \/ Answer \/ CheckFails \/ Heartbeat \/ CheckForUpdates
           \/ Accept \/ Dismiss \/ InstallCosmos \/ CosmosTaskEnds \/ AppTaskEnds
           \/ Quit \/ \E channel \in Channels : Publish(channel)
  <2>1. skipped' = skipped /\ (saverVars' = saverVars \/ Flush)
    BY <1>8 DEF PeriodicCheck, Answer, CheckAnswers, CheckFails, Heartbeat,
       CheckForUpdates, Accept, Dismiss, InstallCosmos, CosmosTaskEnds, AppTaskEnds,
       Quit, Publish, history
  <2>2. settings' = settings /\ saved' = saved
    BY <2>1 DEF Flush, saverVars
  <2> QED  BY <2>1, <2>2 DEF ReleasesInv
<1> QED  BY <1>1, <1>2, <1>3, <1>4, <1>5, <1>6, <1>7, <1>8 DEF Next

\* Only the heartbeat moves a release from the slot to the prompt.
LEMMA StepOffers ==
  ASSUME ReleasesInv, Next, Offers
  PROVE  slot.version # skipped
<1> USE DEF Offers
<1>1. CASE Heartbeat
  <2>1. slot.version # settings.skipped
    BY <1>1 DEF Heartbeat, Shows
  <2>2. slot.version # 0
    BY VersionsArePositive DEF ReleasesInv, ReleasesTypeOK, Releases
  <2> QED  BY <2>1, <2>2 DEF ReleasesInv, SkipIsSaved
<1>2. CASE Answer
  <2>1. PICK c \in checks : CheckAnswers(c)
    BY <1>2 DEF Answer
  <2>2. c.edition \in Channels
    BY DEF ReleasesInv, ReleasesTypeOK, Checking
  <2>3. Latest(c.edition).version # 0
    BY <2>2, VersionsArePositive DEF Latest, ReleasesInv, ReleasesTypeOK
  <2>4. Latest(c.edition) # None
    BY <2>3 DEF None
  <2> QED  BY <2>1, <2>4 DEF CheckAnswers, Publicise
<1>3. CASE ~Heartbeat /\ ~Answer
  BY <1>3 DEF Next, PeriodicCheck, CheckFails, Write, SaveFails, CheckForUpdates,
     Accept, Skip, Dismiss, InstallCosmos, CosmosTaskEnds, AppTaskEnds, SetDevMode,
     SetEdition, Publish, Quit, Relaunch, offers
<1> QED  BY <1>1, <1>2, <1>3

THEOREM ReleasesInvariant == Spec => []ReleasesInv
<1>1. Init => ReleasesInv
  BY InitTypes DEF Init, SaverInit, Asleep, ReleasesInv, FlushIsLast, NothingIsLost,
     Written, SkipIsSaved
<1>2. ReleasesInv /\ [Next]_vars => ReleasesInv'
  BY StepTypes, StepFlushes, StepSkips DEF ReleasesInv
<1> QED  BY <1>1, <1>2, PTL DEF Spec

\* Every state is well typed, for any editions and releases of them.
THEOREM ReleasesTypeCorrect == Spec => []ReleasesTypeOK
BY ReleasesInvariant, PTL DEF ReleasesInv

\* When a flush is acknowledged the newest saved settings are in the file
\* (SettingsSaver::flusher), whatever was saved before, during and after it.
THEOREM AcknowledgedIsOnDisk == Spec => []FlushedIsStored
<1>1. ReleasesInv => FlushedIsStored
  BY AckIsTrue DEF ReleasesInv
<1> QED  BY ReleasesInvariant, <1>1, PTL

\* The release the user skipped last does not come back by itself
\* (AppState::heartbeat), in this run of the app and in those after an orderly
\* quit: the settings that say so outlive it.  Of a release skipped before, that
\* is false (SkippedStaysSkipped).
THEOREM LastSkippedIsNotOffered == Spec => LastSkippedStaysSkipped
<1>1. ReleasesInv /\ [Next]_vars => [Offers => slot.version # skipped]_vars
  BY StepOffers
<1> QED  BY ReleasesInvariant, <1>1, PTL DEF Spec, LastSkippedStaysSkipped
=============================================================================
