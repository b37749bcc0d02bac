---------------------------- MODULE BridgePairing ----------------------------
(***************************************************************************)
(* How the operator pairs with the COSMOS bridge hub: the gate in          *)
(* MicroserviceOperator::maybe_connect (src/operator.rs) and what it       *)
(* depends on.                                                             *)
(*                                                                         *)
(* The operator runs one check per cycle.  A check reads the readiness of  *)
(* the local COSMOS containers, and only when they have been up for the    *)
(* warm-up does it call the connector, at most MaxAttempts times until the *)
(* attempts are re-armed by a retry or by a check that finds COSMOS not    *)
(* up or still warming up.  The connector blocks the operator (it runs     *)
(* `docker compose run` and dials the hub), so the environment moves       *)
(* between the readiness check and the connector's answer: the two are     *)
(* separate steps here.                                                    *)
(*                                                                         *)
(* Time is counted in intervals of BRIDGE_CHECK_INTERVAL (15s); the        *)
(* warm-up (30s) is WarmupTicks = 2 of them.                               *)
(*                                                                         *)
(* A definition marked "slip" is the next one with a plausible bug.  No    *)
(* action uses a slip: substituted for that definition it shows that the   *)
(* properties notice.                                                      *)
(***************************************************************************)
EXTENDS Naturals

CONSTANTS
  CosmosStates,   (* the readiness states the local containers visit          *)
  MaxAttempts,    (* BRIDGE_MAX_ATTEMPTS                                      *)
  WarmupTicks,    (* BRIDGE_WARMUP in units of BRIDGE_CHECK_INTERVAL          *)
  MaxChanges,     (* bound: container state changes                           *)
  MaxOutages,     (* bound: times the hub stops answering                     *)
  MaxHubs,        (* bound: hub identities (COSMOS data recreated)            *)
  MaxRetries      (* bound: presses of the Retry button                       *)

Readiness == {"docker_unavailable", "no_containers", "not_running", "up"}

ASSUME PairingAssumption ==
  /\ CosmosStates \subseteq Readiness
  /\ MaxAttempts \in Nat \ {0}
  /\ WarmupTicks \in Nat \ {0}
  /\ MaxChanges \in Nat /\ MaxOutages \in Nat /\ MaxHubs \in Nat /\ MaxRetries \in Nat

VARIABLES
  cosmos,      (* readiness of the local containers                           *)
  uptime,      (* intervals they have been up, capped at the warm-up          *)
  serving,     (* whether the hub answers requests                            *)
  hub,         (* the hub's identity, which a ticket embeds                   *)
  changes, outages, retries,   (* bounds on the environment                   *)
  retry,       (* the flag the Retry button shares with the operator          *)
  client,      (* bridge_client and bridge_ticket: the identity the ticket
                  was issued for, NoClient when unpaired                      *)
  attempts,    (* enroll_attempts                                             *)
  checkDue,    (* now >= next_bridge_check                                    *)
  connecting   (* the operator is inside the connector                        *)

cosmosVars  == <<cosmos, uptime, changes>>
hubVars     == <<serving, hub, outages>>
gateVars    == <<client, attempts, checkDue, connecting>>
pairingVars == <<cosmos, uptime, serving, hub, changes, outages, retries, retry,
                 client, attempts, checkDue, connecting>>

NoClient == 0   \* hub identities are positive

PairingTypeOK ==
  /\ cosmos \in Readiness
  /\ uptime \in 0..WarmupTicks
  /\ serving \in BOOLEAN
  /\ hub \in Nat \ {NoClient}
  /\ changes \in Nat /\ outages \in Nat /\ retries \in Nat
  /\ retry \in BOOLEAN
  /\ client \in 0..hub
  /\ attempts \in 0..MaxAttempts
  /\ checkDue \in BOOLEAN
  /\ connecting \in BOOLEAN

\* The containers have been up for at least the warm-up.
Settled == cosmos = "up" /\ uptime = WarmupTicks

\* The hub accepts the client's ticket and answers.
Reachable == serving /\ client = hub

PairingInit ==
  /\ cosmos \in CosmosStates
  /\ uptime \in IF cosmos = "up" THEN 0..WarmupTicks ELSE {0}
  /\ serving \in BOOLEAN
  /\ hub = 1
  /\ changes = 0 /\ outages = 0 /\ retries = 0
  /\ retry = FALSE
  /\ client = NoClient
  /\ attempts = 0
  /\ checkDue = TRUE
  /\ connecting = FALSE

------------------------------------------------------------------------------
(* The environment: containers, hub, user and clock.                       *)

\* Containers are stopped, started, paused, removed, or Docker itself goes away
\* and comes back.  The uptime is that of the youngest running container: it
\* falls when one is started and rises when the youngest is gone.
CosmosChanges(to) ==
  /\ changes < MaxChanges
  /\ cosmos' = to
  /\ uptime' \in IF to = "up" THEN 0..WarmupTicks ELSE {0}
  /\ changes' = changes + 1
  /\ UNCHANGED <<hubVars, retries, retry, gateVars>>

HubStops ==
  /\ serving /\ outages < MaxOutages
  /\ serving' = FALSE
  /\ outages' = outages + 1
  /\ UNCHANGED <<cosmosVars, hub, retries, retry, gateVars>>

HubStarts ==
  /\ ~serving
  /\ serving' = TRUE
  /\ UNCHANGED <<cosmosVars, hub, outages, retries, retry, gateVars>>

\* COSMOS data recreated or another compose context selected: the hub comes
\* back with a new identity, and tickets issued for the old one are refused.
HubReplaced ==
  /\ ~serving /\ hub < MaxHubs
  /\ hub' = hub + 1
  /\ UNCHANGED <<cosmosVars, serving, outages, retries, retry, gateVars>>

\* AppState::retry_bridge: the GUI sets the shared flag.
PressRetry ==
  /\ retries < MaxRetries
  /\ retry' = TRUE
  /\ retries' = retries + 1
  /\ UNCHANGED <<cosmosVars, hubVars, gateVars>>

\* One interval passes.  Unpaired, the operator cycles every few seconds, so
\* it never lets a whole interval pass between a due check and the check
\* itself, unless it is blocked in the connector.  Paired, it does not read
\* the deadline, and the retry that unpairs it resets it: the model leaves
\* checkDue alone then.
DeadlineNears ==
  /\ ~checkDue \/ connecting \/ client # NoClient
  /\ checkDue' = (checkDue \/ client = NoClient)

Tick ==
  /\ DeadlineNears
  /\ uptime' = IF cosmos = "up" /\ uptime < WarmupTicks THEN uptime + 1 ELSE uptime
  /\ UNCHANGED <<cosmos, changes, hubVars, retries, retry, client, attempts, connecting>>

------------------------------------------------------------------------------
(* The operator thread.                                                    *)

\* A manual retry discards even a configured client and re-arms the attempts.
KeptOnRetry ==   \* slip
  client
Held == IF retry THEN NoClient ELSE client

SpentOnRetry ==   \* slip
  attempts
Tried == IF retry THEN 0 ELSE attempts

\* The attempts of an up-session are bounded.
MayAttemptOneMore ==   \* slip
  Tried <= MaxAttempts
MayAttempt == Tried < MaxAttempts

\* A check that finds COSMOS not settled re-arms the attempts; one that calls
\* the connector spends one.
SpentNeverRearmed ==   \* slip
  IF Settled /\ MayAttempt THEN Tried + 1 ELSE Tried
SpentUncounted ==   \* slip
  IF ~Settled THEN 0 ELSE Tried
Spent == IF ~Settled THEN 0 ELSE IF MayAttempt THEN Tried + 1 ELSE Tried

\* maybe_connect up to the call of the connector: nothing happens while paired
\* or before the next check is due.
CheckCosmos ==
  LET due == retry \/ checkDue
  IN  /\ ~connecting
      /\ retry' = FALSE
      /\ client' = Held
      /\ \/ /\ Held # NoClient \/ ~due
            /\ checkDue' = due
            /\ UNCHANGED <<attempts, connecting>>
         \/ /\ Held = NoClient /\ due
            /\ checkDue' = FALSE
            /\ attempts' = Spent
            /\ connecting' = (Settled /\ MayAttempt)
      /\ UNCHANGED <<cosmosVars, hubVars, retries>>

\* The connector returned a validated client: apply_connection.
ConnectSucceeds ==
  /\ connecting /\ serving
  /\ client' = hub
  /\ connecting' = FALSE
  /\ UNCHANGED <<cosmosVars, hubVars, retries, retry, attempts, checkDue>>

\* The connector returned a reason: still unpaired, the attempt is spent.
ConnectFails ==
  /\ connecting /\ ~serving
  /\ connecting' = FALSE
  /\ UNCHANGED <<cosmosVars, hubVars, retries, retry, client, attempts, checkDue>>

------------------------------------------------------------------------------

Surroundings ==
  \/ \E to \in CosmosStates : CosmosChanges(to)
  \/ HubStops
  \/ HubStarts
  \/ HubReplaced
  \/ PressRetry

ConnectorReturns == ConnectSucceeds \/ ConnectFails

PairingNext ==
  \/ CheckCosmos
  \/ ConnectorReturns
  \/ Surroundings
  \/ Tick

\* The operator thread is scheduled and the connector returns; time passes.
PairingFairness ==
  /\ WF_pairingVars(CheckCosmos)
  /\ WF_pairingVars(ConnectorReturns)
  /\ WF_pairingVars(Tick)

PairingSpec == PairingInit /\ [][PairingNext]_pairingVars /\ PairingFairness
==============================================================================
