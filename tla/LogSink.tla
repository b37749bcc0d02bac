------------------------------- MODULE LogSink -------------------------------
(***************************************************************************)
(* The in-app log table: a ring of records that every thread of the app    *)
(* adds to, the generation that tells its readers of a change              *)
(* (src/logging.rs), and the copy the GUI shows, which the heartbeat       *)
(* refreshes and the user pauses and clears (src/gui/app_state.rs).        *)
(*                                                                         *)
(* The ring has a lock, the generation is an atomic outside of it, and the *)
(* GUI reads one after the other: each of these is a step. The generation  *)
(* only grows, and all that is ever asked is whether it is the one the GUI *)
(* has seen last; so that is what the model keeps of it.                   *)
(***************************************************************************)
EXTENDS Naturals, Sequences

CONSTANTS
  MaxRecords,   (* MAX_RECORDS                                              *)
  MaxClears     (* bound: how often the user clears the table               *)

ASSUME MaxRecordsAssumption == MaxRecords \in Nat \ {0}
ASSUME MaxClearsAssumption == MaxClears \in Nat

VARIABLES
  ring,         (* the captured records, oldest first                       *)
  moved,        (* GENERATION is another than the one of the GUI's copy     *)
  table,        (* the GUI's copy of the records, and whether it is paused  *)
  ui,           (* where the UI thread is in a heartbeat or in clear_log    *)
  clears        (* bound: clears so far                                     *)

sinkVars == <<ring, moved, table, ui, clears>>

SinkInit ==
  /\ ring = <<>> /\ moved = TRUE
  /\ table = [records |-> <<>>, paused |-> FALSE]
  /\ ui = "idle"
  /\ clears = 0

\* push_record: under the lock the oldest makes room for the new record,
PushRecord(record) ==
  ring' = Append(IF Len(ring) < MaxRecords THEN ring ELSE Tail(ring), record)

\* and after it the generation moves on.
Bump == moved' = TRUE

\* The heartbeat takes the generation first,
ReadGeneration ==
  /\ ui = "idle" /\ ~table.paused /\ moved
  /\ moved' = FALSE
  /\ ui' = "snapshot"
  /\ UNCHANGED <<ring, table, clears>>

\* then the records.
TakeSnapshot ==
  /\ ui = "snapshot"
  /\ table' = [table EXCEPT !.records = ring]
  /\ ui' = "idle"
  /\ UNCHANGED <<ring, moved, clears>>

\* Resuming takes the copy for one of no generation (u64::MAX).
TogglePause ==
  /\ ui = "idle"
  /\ table' = [table EXCEPT !.paused = ~@]
  /\ moved' = (moved \/ table.paused)
  /\ UNCHANGED <<ring, ui, clears>>

\* clear_log empties the ring, bumps the generation, and takes the generation
\* that it then finds for that of its own, now empty, copy.
ClearRing ==
  /\ ui = "idle" /\ clears < MaxClears
  /\ ring' = <<>>
  /\ ui' = "cleared"
  /\ clears' = clears + 1
  /\ UNCHANGED <<moved, table>>

BumpAfterClear ==
  /\ ui = "cleared"
  /\ Bump
  /\ ui' = "forget"
  /\ UNCHANGED <<ring, table, clears>>

ForgetRecords ==
  /\ ui = "forget"
  /\ table' = [table EXCEPT !.records = <<>>]
  /\ moved' = FALSE
  /\ ui' = "idle"
  /\ UNCHANGED <<ring, clears>>

Clearing == ui \in {"cleared", "forget"}

SnapshotFirst ==   \* slip
  \/ /\ ui = "idle" /\ ~table.paused /\ moved
     /\ table' = [table EXCEPT !.records = ring]
     /\ ui' = "snapshot"
     /\ UNCHANGED <<ring, moved, clears>>
  \/ /\ ui = "snapshot"
     /\ moved' = FALSE
     /\ ui' = "idle"
     /\ UNCHANGED <<ring, table, clears>>
Heartbeat == ReadGeneration \/ TakeSnapshot
ClearLog == ClearRing \/ BumpAfterClear \/ ForgetRecords
UserInterface == Heartbeat \/ ClearLog \/ TogglePause
=============================================================================
