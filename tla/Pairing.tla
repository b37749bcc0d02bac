------------------------------ MODULE Pairing ------------------------------
(***************************************************************************)
(* The pairing gate over the local containers: BridgePairing, with the     *)
(* readiness and uptime of COSMOS read from Containers.                    *)
(*                                                                         *)
(* Two history variables: how long the connector has been running, and     *)
(* whether a start of COSMOS still owes an attempt to pair.                *)
(***************************************************************************)
EXTENDS BridgePairing, Containers

CONSTANT ConnectTicks   \* bound: intervals one call of the connector lasts

\* The warm-up ends while the engine still counts the seconds, and no container
\* is older than its scale.
ASSUME GateAssumption ==
  /\ CosmosStates = Readiness
  /\ Own \cap Others = {}
  /\ WarmupTicks * Interval <= 60
  /\ \A c \in Own \cup Others : Ages[c] < Long

VARIABLES waited, owed

vars == <<pairingVars, containerVars, waited, owed>>

\* The uptime in intervals, capped at the warm-up.
Ticks(up) == Min({WarmupTicks, up \div Interval})

ReadCosmos == LET read == Read' IN cosmos' = read.state /\ uptime' = Ticks(read.uptime)

\* COSMOS came up while unpaired and the connector has not been called since.
Owed ==
  owed' = /\ client' = NoClient /\ cosmos' = "up"
          /\ owed \/ (cosmos # "up" /\ uptime' = 0)
          /\ ~(connecting' /\ ~connecting)

Init ==
  /\ ContainersInit
  /\ cosmos = Read.state /\ uptime = Ticks(Read.uptime)
  /\ PairingInit
  /\ waited = 0 /\ owed = FALSE

Check   == CheckCosmos /\ UNCHANGED containerVars /\ waited' = 0 /\ Owed
Returns == ConnectorReturns /\ UNCHANGED containerVars /\ waited' = 0 /\ Owed

TimePasses ==
  /\ DeadlineNears
  /\ ContainersAge /\ ReadCosmos
  /\ connecting => waited < ConnectTicks
  /\ waited' = IF connecting THEN waited + 1 ELSE 0
  /\ UNCHANGED <<changes, hubVars, retries, retry, client, attempts, connecting>>
  /\ Owed

Moves ==
  /\ changes < MaxChanges /\ changes' = changes + 1
  /\ ContainersMove /\ ReadCosmos
  /\ UNCHANGED <<hubVars, retries, retry, gateVars, waited>>
  /\ Owed

HubOrUser ==
  /\ HubStops \/ HubStarts \/ HubReplaced \/ PressRetry
  /\ Owed
  /\ UNCHANGED <<containerVars, waited>>

Next == Check \/ Returns \/ TimePasses \/ Moves \/ HubOrUser

\* The operator thread is scheduled and the connector returns; time passes.
Spec == Init /\ [][Next]_vars /\ WF_vars(Check) /\ WF_vars(Returns) /\ WF_vars(TimePasses)

------------------------------------------------------------------------------
(* Properties.                                                             *)

\* Read from the words of the engine, the containers start, stop, pause and age
\* as BridgePairing lets the readiness and the uptime change: an interval in
\* which nothing happens adds one to the uptime until the warm-up is over
\* (cosmos_readiness, ContainerStatus::uptime).
ReadsAsTheGateExpects == PairingInit /\ [][PairingNext]_pairingVars

\* The connector is called only when containers of the app's own project run
\* and each of them has run for the warm-up, whatever the engine calls their
\* age and whatever other projects run (maybe_connect's warm-up).
ConnectsWarm ==
  [][connecting' /\ ~connecting =>
       /\ RunningOnes # {}
       /\ \A c \in RunningOnes : containers[c].for >= WarmupTicks * Interval]_vars

\* The number of connector calls is bounded while nothing changes: with COSMOS
\* up and its hub silent, the operator stops trying (maybe_connect's give-up).
NeverCyclesForever == <>[](Settled /\ ~serving) => <>[]~connecting

\* The Retry button calls the connector again even after the attempts were
\* used up or during the throttle interval, as long as COSMOS is up
\* (maybe_connect's retry.swap).
RetryReachesConnector == (retry /\ Settled) ~> (connecting \/ ~Settled)

\* After a retry with COSMOS up and its hub answering from then on, the
\* operator ends up with a client for the hub's present identity, also when it
\* held one for an identity the hub no longer has (maybe_connect discards even
\* a configured client).
RetryRepairs == []((retry /\ [](Settled /\ serving)) => <>(client = hub))

\* Each start of COSMOS while unpaired leads to another call of the connector,
\* whatever attempts were spent before it (the attempts are re-armed by the
\* warm-up).  Holds while a call of the connector is shorter than the warm-up.
RestartRearms == owed ~> ~owed
=============================================================================
