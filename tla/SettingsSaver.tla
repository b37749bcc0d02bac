---------------------------- MODULE SettingsSaver ----------------------------
(***************************************************************************)
(* The settings file and the thread that writes it (SettingsSaver in       *)
(* src/gui/worker.rs, Settings::load and save in src/settings.rs).         *)
(*                                                                         *)
(* Of the requests the channel holds, the thread uses the newest settings  *)
(* and whether a flush is among them, so that is what the channel is here. *)
(***************************************************************************)
EXTENDS Integers

CONSTANTS
  Defaults,   (* Settings::default()                                          *)
  Files,      (* settings that an earlier run of the app may have left        *)
  Nothing

VARIABLES
  settings,   (* the app's, in memory                                         *)
  stored,     (* the file: settings, or Nothing if it is absent or torn       *)
  pending,    (* newest settings in the channel                               *)
  flushing,   (* a flush is in the channel                                    *)
  writer,     (* what the thread does: idle, or writing a batch               *)
  flushed,    (* a flush was acknowledged                                     *)
  saved       (* history: the settings last handed to save, if no write of    *)
              (* them failed                                                  *)

saverVars == <<settings, stored, pending, flushing, writer, flushed, saved>>

Asleep == [busy |-> FALSE, batch |-> Nothing, flush |-> FALSE]

\* What is not a settings file gives the defaults.
Load(file) == IF file = Nothing THEN Defaults ELSE file

SaverInit ==
  /\ stored \in {Nothing} \cup Files
  /\ settings = Load(stored)
  /\ pending = Nothing /\ flushing = FALSE
  /\ writer = Asleep
  /\ flushed = FALSE
  /\ saved = stored

\* save_settings with a changed value.
Save(value) ==
  /\ settings' = value
  /\ pending' = value
  /\ saved' = value
  /\ UNCHANGED <<stored, flushing, writer, flushed>>

Flush ==
  /\ flushing' = TRUE
  /\ UNCHANGED <<settings, stored, pending, writer, flushed, saved>>

\* The thread takes everything that is queued,
AckFirst ==   \* slip
  /\ ~writer.busy /\ (pending # Nothing \/ flushing)
  /\ writer' = [busy |-> TRUE, batch |-> pending, flush |-> FALSE]
  /\ flushed' = (flushed \/ flushing)
  /\ pending' = Nothing /\ flushing' = FALSE
  /\ UNCHANGED <<settings, stored, saved>>
TakeBatch ==
  /\ ~writer.busy /\ (pending # Nothing \/ flushing)
  /\ writer' = [busy |-> TRUE, batch |-> pending, flush |-> flushing]
  /\ pending' = Nothing /\ flushing' = FALSE
  /\ UNCHANGED <<settings, stored, flushed, saved>>

\* writes the newest settings, if any, and acknowledges.
WriteBatch ==
  /\ writer.busy
  /\ stored' = IF writer.batch # Nothing THEN writer.batch ELSE stored
  /\ flushed' = (flushed \/ writer.flush)
  /\ writer' = Asleep
  /\ UNCHANGED <<settings, pending, flushing, saved>>

\* A write that fails is only warned about.
WriteFails ==
  /\ writer.busy /\ writer.batch # Nothing
  /\ stored' \in {stored, Nothing}
  /\ saved' = Nothing
  /\ flushed' = (flushed \/ writer.flush)
  /\ writer' = Asleep
  /\ UNCHANGED <<settings, pending, flushing>>

\* The process ends and starts again; a file being written may be torn.
Reload ==
  /\ stored' \in {stored} \cup (IF writer.busy /\ writer.batch # Nothing
                                THEN {writer.batch, Nothing} ELSE {})
  /\ settings' = Load(stored')
  /\ pending' = Nothing /\ flushing' = FALSE
  /\ writer' = Asleep
  /\ flushed' = FALSE
  /\ saved' = stored'

------------------------------------------------------------------------------
(* Property.                                                               *)

\* "wait until every queued save is on disk" (flusher): when a flush is
\* acknowledged, the last settings saved are in the file.
FlushedIsStored == flushed /\ saved # Nothing => stored = saved
=============================================================================
