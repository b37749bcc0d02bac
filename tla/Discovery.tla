----------------------------- MODULE Discovery -----------------------------
(***************************************************************************)
(* Discovery of a host's devices: update_discovery in src/operator.rs      *)
(* provisions one shared environment in a detached thread, the discovery   *)
(* worker in src/bridge.rs answers the requests of COSMOS with it.         *)
(*                                                                         *)
(* Operators run one after another in one process and share the directory: *)
(* a stopped operator's thread goes on building (the module Venv), its     *)
(* discovery_state is its own.  Operator o's thread is the builder o.      *)
(***************************************************************************)
EXTENDS Venv

CONSTANTS
  Requests,     (* what COSMOS asks: discoveries and hardware scans           *)
  None

VARIABLES
  current,  (* the operator that runs                                         *)
  used,     (* operators started so far                                       *)
  state,    (* discovery_state of each operator                               *)
  runner,   (* the current operator's DiscoveryRunner is set                  *)
  asked,    (* requests pending at the hub                                    *)
  task,     (* running requests, with the runner each has got                 *)
  replies   (* what the hub was told: pairs of a request and an outcome       *)

opVars     == <<current, used, state, runner>>
workerVars == <<asked, task, replies>>
vars       == <<venvVars, opVars, workerVars>>

\* discovery_venv_config: a fixed set of packages and their fingerprint.
Packages == 1

Outcomes == {"results", "not ready", "failed", "timed out"}

DiscoveryTypeOK ==
  /\ VenvTypeOK
  /\ current \in Builders \cup {None} /\ used \subseteq Builders
  /\ state \in [Builders -> {"IDLE", "PROVISIONING", "READY"}]
  /\ runner \in BOOLEAN
  /\ asked \subseteq Requests /\ task \subseteq Requests \X BOOLEAN
  /\ replies \subseteq Requests \X Outcomes

Init ==
  /\ VenvInit
  /\ current = None /\ used = {}
  /\ state = [o \in Builders |-> "IDLE"]
  /\ runner = FALSE
  /\ asked = {} /\ task = {} /\ replies = {}

------------------------------------------------------------------------------
(* The operator.                                                           *)

StartOperator(o) ==
  /\ current = None /\ o \notin used
  /\ current' = o /\ used' = used \cup {o}
  /\ runner' = FALSE
  /\ UNCHANGED <<venvVars, state, workerVars>>

\* The bridge client is dropped with the operator, and with it the worker and
\* the processes it runs (kill_on_drop).
StopOperator ==
  /\ current # None
  /\ current' = None
  /\ runner' = FALSE
  /\ task' = {}
  /\ UNCHANGED <<venvVars, used, state, asked, replies>>

\* Any time after DISCOVERY_PROVISION_RETRY a thread is spawned again.
UpdateDiscovery ==
  /\ current # None
  /\ \/ /\ state[current] = "IDLE"
        /\ state' = [state EXCEPT ![current] = "PROVISIONING"]
        /\ Begin(current, Packages)
        /\ UNCHANGED runner
     \/ /\ state[current] = "READY"
        /\ runner' = TRUE
        /\ UNCHANGED <<venvVars, state>>
  /\ UNCHANGED <<current, used, workerVars>>

BuildVenv(o) ==
  /\ Build(o, Packages)
  /\ UNCHANGED <<opVars, workerVars>>

\* The thread looks for the file, whoever wrote it.
Provisioned(o) ==
  /\ at[o] = "done"
  /\ Goto(o, "idle")
  /\ state' = [state EXCEPT ![o] = IF venv.mark # NoMark THEN "READY" ELSE "IDLE"]
  /\ UNCHANGED <<dirs, want, existing, moved, faults, histories, current, used, runner,
                 workerVars>>

\* The process ends, its threads wherever they are.
AppEnds ==
  /\ Fail /\ Vanish
  /\ current' = None /\ runner' = FALSE /\ task' = {}
  /\ UNCHANGED <<used, state, asked, replies>>

------------------------------------------------------------------------------
(* discovery_worker.                                                       *)

Ask(r) ==
  /\ r \notin asked /\ \A reply \in replies : reply[1] # r /\ \A t \in task : t[1] # r
  /\ asked' = asked \cup {r}
  /\ UNCHANGED <<venvVars, opVars, task, replies>>

\* A poll that fails or stalls leaves the requests where they are, and is
\* repeated after DISCOVERY_RETRY.
Poll ==
  /\ current # None /\ asked # {}
  /\ task' = task \cup (asked \X {runner})
  /\ asked' = {}
  /\ UNCHANGED <<venvVars, opVars, replies>>

\* run_discovery, run_scan: the answer is bounded in time.
Outcome(ready) ==
  IF ~ready THEN {"not ready"}
  ELSE {"failed", "timed out"} \cup (IF Works(venv) THEN {"results"} ELSE {})

\* Each request has a task of its own; an answer that cannot be posted is lost.
Answer(t) ==
  /\ t \in task
  /\ task' = task \ {t}
  /\ \/ \E outcome \in Outcome(t[2]) : replies' = replies \cup {<<t[1], outcome>>}
     \/ UNCHANGED replies
  /\ UNCHANGED <<venvVars, opVars, asked>>

Next ==
  \/ StopOperator \/ UpdateDiscovery \/ AppEnds \/ Poll
  \/ \E o \in Builders : StartOperator(o) \/ BuildVenv(o) \/ Provisioned(o)
  \/ \E r \in Requests : Ask(r)
  \/ \E t \in task : Answer(t)

Spec == Init /\ [][Next]_vars

------------------------------------------------------------------------------
(* Properties.                                                             *)

\* "ensure_venv only records the fingerprint after a successful install, so its
\* absence means retry later" (update_discovery): once no thread builds any
\* more, what an operator holds for READY is completely installed.
ReadyIsComplete ==
  (\A o \in Builders : at[o] = "idle") /\ (\E o \in Builders : state[o] = "READY") => Works(venv)
=============================================================================
