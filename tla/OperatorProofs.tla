---------------------------- MODULE OperatorProofs ----------------------------
(***************************************************************************)
(* Theorems about Operator, for any set of services, any start limit and   *)
(* any bounds on the environment.                                          *)
(***************************************************************************)
EXTENDS Operator, FiniteSetTheorems, SequenceTheorems, TLAPS

\* The orders in which a set of services can be queued are sequences of them,
\* and hold nothing else.
LEMMA Orders ==
  ASSUME NEW S \in SUBSET Services, NEW q \in SetToSeqs(S)
  PROVE  q \in Seq(Services) /\ ToSet(q) = S
<1>1. IsFiniteSet(S) /\ Cardinality(S) \in Nat
  BY OperatorAssumption, FS_Subset, FS_CardinalityType
<1>2. q \in [1..Cardinality(S) -> S] /\ \A i, j \in 1..Cardinality(S) : i # j => q[i] # q[j]
  BY DEF SetToSeqs
<1>3. q \in Seq(Services)
  BY <1>1, <1>2
<1>4. ToSet(q) = S
  <2>1. ToSet(q) \subseteq S
    BY <1>2 DEF ToSet
  <2>2. q \in Injection(1..Cardinality(S), S)
    BY <1>2 DEF Injection, IsInjective
  <2>3. IsFiniteSet(1..Cardinality(S)) /\ Cardinality(1..Cardinality(S)) = Cardinality(S)
    BY <1>1, FS_Interval
  <2>4. q \in Surjection(1..Cardinality(S), S)
    BY <1>1, <2>2, <2>3, FS_Injection
  <2>. QED
    BY <2>1, <2>4, <1>2 DEF Surjection, ToSet
<1>. QED BY <1>3, <1>4

\* Appending to a queue adds what is appended.
LEMMA ToSetConcat ==
  ASSUME NEW S, NEW p \in Seq(S), NEW q \in Seq(S)
  PROVE  p \o q \in Seq(S) /\ ToSet(p \o q) = ToSet(p) \cup ToSet(q)
<1>1. ToSet(p) \cup ToSet(q) \subseteq ToSet(p \o q)
  <2>1. ASSUME NEW i \in 1..Len(p) PROVE p[i] \in ToSet(p \o q)
    <3>1. i \in 1..Len(p \o q) /\ (p \o q)[i] = p[i]
      OBVIOUS
    <3>. QED BY <3>1 DEF ToSet
  <2>2. ASSUME NEW i \in 1..Len(q) PROVE q[i] \in ToSet(p \o q)
    <3>1. Len(p) + i \in 1..Len(p \o q) /\ (p \o q)[Len(p) + i] = q[i]
      OBVIOUS
    <3>. QED BY <3>1 DEF ToSet
  <2>3. DOMAIN p = 1..Len(p) /\ DOMAIN q = 1..Len(q)
    OBVIOUS
  <2>. QED BY <2>1, <2>2, <2>3 DEF ToSet
<1>2. ToSet(p \o q) \subseteq ToSet(p) \cup ToSet(q)
  BY DEF ToSet
<1>. QED BY <1>1, <1>2

\* Draining a queue splits it into what is taken and what stays.
LEMMA ToSetDrain ==
  ASSUME NEW S, NEW q \in Seq(S), NEW n \in 0..Len(q)
  PROVE  /\ SubSeq(q, 1, n) \in Seq(S)
         /\ SubSeq(q, n + 1, Len(q)) \in Seq(S)
         /\ ToSet(q) = ToSet(SubSeq(q, 1, n)) \cup ToSet(SubSeq(q, n + 1, Len(q)))
<1> DEFINE front == SubSeq(q, 1, n)
           back  == SubSeq(q, n + 1, Len(q))
<1>1. /\ front \in Seq(S) /\ Len(front) = n /\ \A i \in 1..n : front[i] = q[i]
      /\ back \in Seq(S) /\ Len(back) = Len(q) - n
      /\ \A i \in 1..(Len(q) - n) : back[i] = q[n + i]
  BY SubSeqProperties
<1>d. DOMAIN front = 1..n /\ DOMAIN back = 1..(Len(q) - n) /\ DOMAIN q = 1..Len(q)
  BY <1>1
<1> HIDE DEF front, back
<1>2. ASSUME NEW i \in 1..Len(q) PROVE q[i] \in ToSet(front) \cup ToSet(back)
  <2>1. CASE i <= n
    <3>1. i \in 1..n /\ front[i] = q[i]
      BY <2>1, <1>1
    <3>. QED BY <3>1, <1>d DEF ToSet
  <2>2. CASE i > n
    <3>1. i - n \in 1..(Len(q) - n) /\ back[i - n] = q[i]
      BY <2>2, <1>1
    <3>. QED BY <3>1, <1>d DEF ToSet
  <2>. QED BY <2>1, <2>2
<1>3. ToSet(front) \cup ToSet(back) \subseteq ToSet(q)
  <2>1. ASSUME NEW i \in 1..n PROVE front[i] \in ToSet(q)
    <3>1. i \in 1..Len(q)
      OBVIOUS
    <3>. QED BY <3>1, <1>1, <1>d DEF ToSet
  <2>2. ASSUME NEW i \in 1..(Len(q) - n) PROVE back[i] \in ToSet(q)
    <3>1. n + i \in 1..Len(q)
      OBVIOUS
    <3>. QED BY <3>1, <1>1, <1>d DEF ToSet
  <2>. QED BY <2>1, <2>2, <1>d DEF ToSet
<1>4. ToSet(q) \subseteq ToSet(front) \cup ToSet(back)
  BY <1>2, <1>d DEF ToSet
<1>. QED BY <1>1, <1>3, <1>4 DEF front, back

\* One turn of a loop over a queue.
LEMMA ToSetTail ==
  ASSUME NEW S, NEW q \in Seq(S), q # <<>>
  PROVE  /\ Head(q) \in S /\ Tail(q) \in Seq(S)
         /\ Head(q) \in ToSet(q)
         /\ ToSet(Tail(q)) \subseteq ToSet(q)
<1>1. /\ Len(q) > 0 /\ Head(q) = q[1] /\ Tail(q) \in Seq(S)
      /\ Len(Tail(q)) = Len(q) - 1
      /\ \A i \in 1..(Len(q) - 1) : Tail(q)[i] = q[i + 1]
  BY HeadTailProperties, EmptySeq
<1>. QED BY <1>1 DEF ToSet

\* The start limit never takes more than there is.
LEMMA CycleCountBound ==
  ASSUME NEW n \in Nat
  PROVE  CycleCount(n) \in 0..n /\ (MaxStart = 0 => CycleCount(n) = n)
  BY OperatorAssumption DEF CycleCount

------------------------------------------------------------------------------
(* Type correctness.                                                       *)

\* update()'s diff queues services only.
LEMMA DiffType ==
  ASSUME OperatorTypeOK, client \in Nat, NEW next \in [Services -> Config], Diff(next)
  PROVE  /\ desired' \in [Services -> Config]
         /\ supervised' \subseteq Services
         /\ process' \in [Services -> Process]
         /\ child' \in [Services -> Child]
         /\ strays' \in [Services -> Nat]
         /\ newNames' \in Seq(Services) /\ changedNames' \in Seq(Services)
         /\ removedNames' \subseteq Services
         /\ pc' = "remove"
<1> DEFINE fresh == Added(next) \cup (Changed(next) \ supervised)
<1>1. fresh \subseteq Services /\ Changed(next) \cap supervised \subseteq Services
  BY DEF Added, Changed, Present
<1>2. newNames' \in Seq(Services)
  <2>1. PICK q \in SetToSeqs(fresh) : newNames' = newNames \o q
    BY Zenon DEF Diff
  <2>2. q \in Seq(Services)
    BY <1>1, Orders
  <2>. QED BY <2>1, <2>2, ToSetConcat DEF OperatorTypeOK
<1>3. changedNames' \in Seq(Services)
  <2>1. PICK q \in SetToSeqs(Changed(next) \cap supervised) : changedNames' = changedNames \o q
    BY Zenon DEF Diff
  <2>2. q \in Seq(Services)
    BY <1>1, Orders
  <2>. QED BY <2>1, <2>2, ToSetConcat DEF OperatorTypeOK
<1>4. NoChild \in Child
  BY DEF NoChild, Child, NoConfig, Config, NoClient
<1>5. desired' \in [Services -> Config] /\ supervised' \subseteq Services /\ pc' = "remove"
  BY <1>1 DEF Diff, OperatorTypeOK
<1>6. process' \in [Services -> Process]
  BY DEF Diff, OperatorTypeOK, Process
<1>7. child' \in [Services -> Child]
  BY <1>4 DEF Diff, OperatorTypeOK
<1>8. strays' \in [Services -> Nat]
  BY DEF Diff, Abandon, OperatorTypeOK
<1>9. removedNames' \subseteq Services
  BY DEF Diff, Removed, Present, OperatorTypeOK
<1>. QED BY <1>2, <1>3, <1>5, <1>6, <1>7, <1>8, <1>9

\* The end of a turn leaves the loop where it was, or for what follows it.
LEMMA TurnType ==
  ASSUME OperatorTypeOK, pc \in Loops, batch # <<>>, TurnEnds
  PROVE  batch' \in Seq(Services) /\ pc' \in Loops \cup {"start", "dead", "publish"}
<1>1. Tail(batch) \in Seq(Services)
  BY ToSetTail DEF OperatorTypeOK
<1>. QED BY <1>1 DEF TurnEnds, After, Loops

\* The write of the owners file.
LEMMA SaveType ==
  ASSUME OperatorTypeOK, NEW names \in SUBSET Services, Save(names)
  PROVE  owners' \subseteq Services /\ unsaved' \in BOOLEAN /\ faults' \in Nat
<1>1. \/ owners' = names /\ unsaved' = FALSE /\ faults' = faults
      \/ faults' = faults + 1 /\ unsaved' = TRUE /\ owners' = owners
  BY DEF Save, Fail
<1>2. faults \in Nat /\ owners \subseteq Services
  BY DEF OperatorTypeOK
<1>3. faults' \in Nat
  BY <1>1, <1>2
<1>4. owners' \subseteq Services
  BY <1>1, <1>2
<1>5. unsaved' \in BOOLEAN
  BY <1>1
<1>. QED BY <1>3, <1>4, <1>5

\* Recording a set of children.
LEMMA RecordType ==
  ASSUME OperatorTypeOK, NEW names \in SUBSET Services, Record(names)
  PROVE  /\ spawned' \in BOOLEAN /\ former' \in BOOLEAN /\ unsaved' \in BOOLEAN
         /\ recorded' \subseteq Services /\ owners' \subseteq Services /\ faults' \in Nat
<1>1. owners' \subseteq Services /\ unsaved' \in BOOLEAN /\ faults' \in Nat
  <2>1. CASE recorded = names /\ ~former
    BY <2>1 DEF Record, OperatorTypeOK
  <2>2. CASE ~(recorded = names /\ ~former)
    BY <2>2, SaveType DEF Record
  <2>. QED BY <2>1, <2>2
<1>. QED BY <1>1 DEF Record, OperatorTypeOK

\* One start, of a supervised service or not.
LEMMA StartType ==
  ASSUME OperatorTypeOK, pc \in Loops, batch # <<>>,
         NEW s \in Services, ProvisionAndStart(s)
  PROVE  /\ child' \in [Services -> Child]
         /\ strays' \in [Services -> Nat]
         /\ spawned' \in BOOLEAN /\ former' \in BOOLEAN /\ unsaved' \in BOOLEAN
         /\ recorded' \subseteq Services /\ owners' \subseteq Services
         /\ faults' \in Nat
         /\ batch' \in Seq(Services)
         /\ pc' \in Loops \cup {"start", "dead", "publish"}
<1>t. /\ faults \in Nat /\ batch \in Seq(Services)
      /\ spawned \in BOOLEAN /\ former \in BOOLEAN /\ unsaved \in BOOLEAN
      /\ recorded \subseteq Services /\ owners \subseteq Services
      /\ child \in [Services -> Child] /\ strays \in [Services -> Nat]
  BY DEF OperatorTypeOK
<1>f. faults' = faults \/ Fail(1) => faults' \in Nat
  BY <1>t DEF Fail
<1>1. CASE TurnEnds /\ UNCHANGED <<children, registry>> /\ faults' \in Nat
  <2>1. batch' \in Seq(Services) /\ pc' \in Loops \cup {"start", "dead", "publish"}
    BY <1>1, TurnType
  <2>. QED BY <1>t, <1>1, <2>1 DEF children, registry
<1>2. CASE Spawn(s)
  <2>1. [live |-> TRUE, cfg |-> process[s].cfg, ticket |-> process[s].ticket] \in Child
    BY DEF OperatorTypeOK, Process, Child
  <2>2. child' \in [Services -> Child]
    BY <1>t, <1>2, <2>1 DEF Spawn
  <2>3. strays' \in [Services -> Nat]
    BY <1>t, <1>2 DEF Spawn, Abandon
  <2>4. former' \in BOOLEAN
    BY <1>2 DEF Spawn
  <2>5. /\ spawned' = TRUE /\ recorded' \subseteq Services /\ owners' \subseteq Services
        /\ UNCHANGED <<unsaved, faults, batch, pc>>
    BY <1>t, <1>2 DEF Spawn
  <2>. QED BY <1>t, <2>2, <2>3, <2>4, <2>5
<1>3. \/ TurnEnds /\ UNCHANGED <<children, registry>> /\ (faults' = faults \/ Fail(1))
      \/ Spawn(s)
  BY DEF ProvisionAndStart
<1>. QED BY <1>f, <1>1, <1>2, <1>3

\* The pairing gate keeps its type.
LEMMA PairingType ==
  ASSUME PairingTypeOK,
         CheckCosmos \/ ConnectorReturns \/ Surroundings \/ Tick
  PROVE  PairingTypeOK'
<1> USE PairingAssumption DEF PairingTypeOK, cosmosVars, hubVars, gateVars, NoClient
<1>1. CASE CheckCosmos
  <2>1. Held \in 0..hub /\ Tried \in 0..MaxAttempts /\ Spent \in 0..MaxAttempts
    BY DEF Held, Tried, Spent, MayAttempt
  <2>2. client' \in 0..hub /\ attempts' \in 0..MaxAttempts
    BY <1>1, <2>1 DEF CheckCosmos
  <2>3. retry' \in BOOLEAN /\ checkDue' \in BOOLEAN /\ connecting' \in BOOLEAN
    BY <1>1 DEF CheckCosmos, Settled, MayAttempt
  <2>4. UNCHANGED <<cosmos, uptime, changes, serving, hub, outages, retries>>
    BY <1>1 DEF CheckCosmos
  <2>. QED BY <2>2, <2>3, <2>4
<1>2. CASE ConnectorReturns
  <2>1. client' \in 0..hub /\ connecting' = FALSE
    BY <1>2 DEF ConnectorReturns, ConnectSucceeds, ConnectFails
  <2>2. UNCHANGED <<cosmos, uptime, changes, serving, hub, outages, retries, retry, attempts,
                    checkDue>>
    BY <1>2 DEF ConnectorReturns, ConnectSucceeds, ConnectFails
  <2>. QED BY <2>1, <2>2
<1>3. CASE Surroundings
  <2>1. CASE \E to \in CosmosStates : CosmosChanges(to)
    BY <2>1 DEF CosmosChanges
  <2>2. CASE HubStops
    <3>1. serving' = FALSE /\ outages' \in Nat
      BY <2>2 DEF HubStops
    <3>. QED BY <2>2, <3>1 DEF HubStops
  <2>3. CASE HubStarts
    BY <2>3 DEF HubStarts
  <2>4. CASE HubReplaced
    BY <2>4 DEF HubReplaced
  <2>5. CASE PressRetry
    BY <2>5 DEF PressRetry
  <2>. QED BY <1>3, <2>1, <2>2, <2>3, <2>4, <2>5 DEF Surroundings
<1>4. CASE Tick
  <2>1. uptime' \in 0..WarmupTicks /\ checkDue' \in BOOLEAN
    BY <1>4 DEF Tick, DeadlineNears
  <2>2. UNCHANGED <<cosmos, changes, serving, hub, outages, retries, retry, client, attempts,
                    connecting>>
    BY <1>4 DEF Tick, DeadlineNears
  <2>. QED BY <2>1, <2>2
<1>. QED BY <1>1, <1>2, <1>3, <1>4

\* The initial states are well typed.
LEMMA TypeInit == Init => TypeOK
<1> SUFFICES ASSUME Init PROVE TypeOK
  OBVIOUS
<1>1. PairingTypeOK
  <2>1. cosmos \in Readiness /\ uptime \in 0..WarmupTicks
    BY PairingAssumption DEF Init, PairingInit
  <2>2. hub \in Nat \ {NoClient} /\ client \in 0..hub /\ attempts \in 0..MaxAttempts
    BY PairingAssumption DEF Init, PairingInit, NoClient
  <2>. QED BY <2>1, <2>2 DEF Init, PairingInit, PairingTypeOK
<1>2. OperatorTypeOK
  <2>1. /\ NoConfig \in Config /\ NoChild \in Child
        /\ [cfg |-> NoConfig, ticket |-> NoClient] \in Process
    BY DEF NoConfig, Config, NoChild, Child, Process, NoClient
  <2>2. hubSpecs \in [Services -> Nat] /\ hubFiles \in [Services -> Nat]
    BY DEF Init, OperatorInit
  <2>3. newNames \in Seq(Services) /\ changedNames \in Seq(Services) /\ batch \in Seq(Services)
    BY DEF Init, OperatorInit
  <2>4. pc \in Phases
    BY DEF Init, OperatorInit, Phases
  <2>. QED BY <2>1, <2>2, <2>3, <2>4 DEF Init, OperatorInit, OperatorTypeOK
<1>. QED BY <1>1, <1>2 DEF TypeOK

\* Every action keeps the types.
LEMMA TypeStep == TypeOK /\ [Next]_vars => TypeOK'
<1> SUFFICES ASSUME TypeOK, [Next]_vars PROVE TypeOK'
  OBVIOUS
<1>t. PairingTypeOK /\ OperatorTypeOK /\ client \in Nat
  BY DEF TypeOK, PairingTypeOK
<1>l. LiveNames \in SUBSET Services
  BY <1>t DEF LiveNames, OperatorTypeOK
<1>p. ASSUME UNCHANGED pairingVars PROVE PairingTypeOK'
  BY <1>p, <1>t DEF pairingVars, PairingTypeOK
<1> USE DEF hubState, bounds, fetchState, queues, children, registry, procState
<1>1. CASE Connect
  <2>1. PairingTypeOK'
    BY <1>1, <1>t, PairingType DEF Connect
  <2>2. OperatorTypeOK'
    BY <1>1, <1>t DEF Connect, OperatorTypeOK, Phases
  <2>. QED BY <2>1, <2>2 DEF TypeOK
<1>2. CASE Pair
  <2>1. PairingTypeOK'
    BY <1>2, <1>t, PairingType DEF Pair
  <2>2. OperatorTypeOK'
    BY <1>2, <1>t DEF Pair, OperatorTypeOK, Phases
  <2>. QED BY <2>1, <2>2 DEF TypeOK
<1>3. CASE FetchUnpaired
  <2>1. [s \in Services |-> NoConfig] \in [Services -> Config]
    BY DEF NoConfig, Config
  <2>2. OperatorTypeOK'
    BY <1>3, <1>t, <2>1, DiffType DEF FetchUnpaired, OperatorTypeOK, Phases
  <2>. QED BY <1>3, <1>p, <2>2 DEF FetchUnpaired, TypeOK
<1>4. CASE FetchFails
  <2>1. PollFailureKeeps \in [Services -> Config]
    BY <1>t DEF PollFailureKeeps, OperatorTypeOK
  <2>2. OperatorTypeOK'
    BY <1>4, <1>t, <2>1, DiffType DEF FetchFails, OperatorTypeOK, Phases
  <2>. QED BY <1>4, <1>p, <2>2 DEF FetchFails, TypeOK
<1>5. CASE FetchAnswered
  <2>1. OperatorTypeOK'
    BY <1>5, <1>t DEF FetchAnswered, OperatorTypeOK, Phases
  <2>. QED BY <1>5, <1>p, <2>1 DEF FetchAnswered, TypeOK
<1>6. CASE Prepare
  <2>1. PICK syncOk \in BOOLEAN, authOk \in BOOLEAN :
          LET ready  == FilesReady(syncOk)
              onDisk == IF syncOk THEN hubFiles ELSE files
              next   == [s \in Services |->
                           IF specs[s] = 0 THEN NoConfig
                           ELSE IF ready THEN [spec |-> specs[s], files |-> onDisk[s]]
                           ELSE desired[s]]
              failed == (IF SyncNeeded /\ ~syncOk THEN 1 ELSE 0) + (IF authOk THEN 0 ELSE 1)
          IN  /\ syncOk => SyncNeeded
              /\ IF Reachable THEN Fail(failed)
                 ELSE ~syncOk /\ ~authOk /\ UNCHANGED faults
              /\ files' = onDisk
              /\ haveFiles' = (haveFiles \/ syncOk)
              /\ syncDue' = (syncDue /\ ~syncOk)
              /\ synced' = IF ready THEN specs ELSE synced
              /\ hostKeys' = Present(next)
              /\ Authorize(authOk, next)
              /\ Diff(next)
    BY <1>6, Zenon DEF Prepare
  <2>f. faults' \in Nat
    <3>1. (IF SyncNeeded /\ ~syncOk THEN 1 ELSE 0) + (IF authOk THEN 0 ELSE 1) \in Nat
      OBVIOUS
    <3>. QED BY <2>1, <3>1, <1>t DEF Fail, OperatorTypeOK
  <2> DEFINE ready  == FilesReady(syncOk)
             onDisk == IF syncOk THEN hubFiles ELSE files
             next   == [s \in Services |->
                           IF specs[s] = 0 THEN NoConfig
                           ELSE IF ready THEN [spec |-> specs[s], files |-> onDisk[s]]
                           ELSE desired[s]]
  <2>2. onDisk \in [Services -> Nat]
    BY <1>t DEF OperatorTypeOK
  <2>3. next \in [Services -> Config]
    BY <1>t, <2>2 DEF OperatorTypeOK, NoConfig, Config
  <2>4. Present(next) \subseteq Services
    BY DEF Present
  <2> HIDE DEF next, ready
  <2>5. authorized' \subseteq Services
    BY <1>t, <2>1, <2>4 DEF Authorize, OperatorTypeOK, next, ready
  <2>6. /\ synced' \in [Services -> Nat] /\ files' \in [Services -> Nat]
        /\ haveFiles' \in BOOLEAN /\ syncDue' \in BOOLEAN /\ hostKeys' \subseteq Services
    BY <1>t, <2>1, <2>2, <2>4 DEF OperatorTypeOK, next, ready
  <2>7. Diff(next)
    BY <2>1 DEF next, ready
  <2>8. OperatorTypeOK'
    BY <1>6, <1>t, <2>f, <2>3, <2>5, <2>6, <2>7, DiffType DEF Prepare, OperatorTypeOK, Phases
  <2>. QED BY <1>6, <1>p, <2>8 DEF Prepare, TypeOK
<1>7. CASE RemoveOld
  <2>1. OperatorTypeOK'
    BY <1>7, <1>t DEF RemoveOld, StopAll, OperatorTypeOK, Phases, NoChild, Child, NoConfig,
                      Config, NoClient
  <2>. QED BY <1>7, <1>p, <2>1 DEF RemoveOld, TypeOK
<1>8. CASE RespawnChanged
  <2> DEFINE count == CycleCount(Len(changedNames))
             cycle == SubSeq(changedNames, 1, count)
  <2>1. count \in 0..Len(changedNames)
    BY <1>t, CycleCountBound DEF OperatorTypeOK
  <2>2. /\ cycle \in Seq(Services)
        /\ SubSeq(changedNames, count + 1, Len(changedNames)) \in Seq(Services)
    BY <1>t, <2>1, ToSetDrain DEF OperatorTypeOK
  <2>3. child' \in [Services -> Child]
    BY <1>8, <1>t DEF RespawnChanged, StopAll, OperatorTypeOK, NoChild, Child, NoConfig,
                      Config, NoClient
  <2>4. changedNames' \in Seq(Services) /\ batch' \in Seq(Services)
    BY <1>8, <2>2 DEF RespawnChanged
  <2>5. pc' \in Phases
    BY <1>8 DEF RespawnChanged, Phases
  <2>6. OperatorTypeOK'
    BY <1>8, <1>t, <2>3, <2>4, <2>5 DEF RespawnChanged, OperatorTypeOK
  <2>. QED BY <1>8, <1>p, <2>6 DEF RespawnChanged, TypeOK
<1>9. CASE StartNew
  <2> DEFINE count == CycleCount(Len(newNames))
  <2>1. count \in 0..Len(newNames)
    BY <1>t, CycleCountBound DEF OperatorTypeOK
  <2>2. /\ SubSeq(newNames, 1, count) \in Seq(Services)
        /\ SubSeq(newNames, count + 1, Len(newNames)) \in Seq(Services)
    BY <1>t, <2>1, ToSetDrain DEF OperatorTypeOK
  <2>3. OperatorTypeOK'
    BY <1>9, <1>t, <2>2 DEF StartNew, OperatorTypeOK, Phases
  <2>. QED BY <1>9, <1>p, <2>3 DEF StartNew, TypeOK
<1>10. CASE StartNext
  <2>1. pc \in Loops /\ batch # <<>> /\ Head(batch) \in Services
    BY <1>10, <1>t, ToSetTail DEF StartNext, OperatorTypeOK, Loops
  <2>2. ProvisionAndStart(Head(batch))
    BY <1>10 DEF StartNext
  <2>3. OperatorTypeOK'
    BY <1>10, <1>t, <2>1, <2>2, StartType DEF StartNext, OperatorTypeOK, Phases, Loops
  <2>. QED BY <1>10, <1>p, <2>3 DEF StartNext, TypeOK
<1>10a. CASE RecordStart
  <2>1. Head(batch) \in Services
    BY <1>10a, <1>t, ToSetTail DEF RecordStart, OperatorTypeOK
  <2>2. /\ recorded' \subseteq Services /\ owners' \subseteq Services
        /\ unsaved' \in BOOLEAN /\ faults' \in Nat
    <3>1. recorded \cup {Head(batch)} \in SUBSET Services
      BY <1>t, <2>1 DEF OperatorTypeOK
    <3>. QED BY <1>10a, <1>t, <3>1, SaveType DEF RecordStart, Add
  <2>3. batch' \in Seq(Services) /\ pc' \in Phases
    BY <1>10a, <1>t, TurnType DEF RecordStart, Phases, Loops
  <2>4. OperatorTypeOK'
    BY <1>10a, <1>t, <2>2, <2>3 DEF RecordStart, OperatorTypeOK
  <2>. QED BY <1>10a, <1>p, <2>4 DEF RecordStart, TypeOK
<1>11. CASE ScanDead
  <2>1. batch' \in Seq(Services)
    BY <1>11, <1>t, Orders DEF ScanDead, OperatorTypeOK
  <2>2. OperatorTypeOK'
    BY <1>11, <1>t, <2>1 DEF ScanDead, OperatorTypeOK, Phases
  <2>. QED BY <1>11, <1>p, <2>2 DEF ScanDead, TypeOK
<1>12. CASE ReviveNext
  <2>1. pc \in Loops /\ batch # <<>> /\ Head(batch) \in Services
    BY <1>12, <1>t, ToSetTail DEF ReviveNext, OperatorTypeOK, Loops
  <2>u. UNCHANGED <<hubState, edits, shutdown, fetchState, desired, queues, supervised, process>>
    BY <1>12 DEF ReviveNext
  <2>2. ASSUME UNCHANGED <<children, registry, faults>>, batch' = <<>>, pc' = "publish"
        PROVE  OperatorTypeOK'
    BY <1>t, <2>2, <2>u DEF OperatorTypeOK, Phases
  <2>3. ASSUME UNCHANGED <<children, registry, faults>>, TurnEnds
        PROVE  OperatorTypeOK'
    <3>1. batch' \in Seq(Services) /\ pc' \in Phases
      BY <1>t, <2>1, <2>3, TurnType DEF Phases, Loops
    <3>. QED BY <1>t, <2>3, <2>u, <3>1 DEF OperatorTypeOK
  <2>4. ASSUME ProvisionAndStart(Head(batch)) PROVE OperatorTypeOK'
    <3>1. pc' \in Phases
      BY <1>t, <2>1, <2>4, StartType DEF Phases, Loops
    <3>. QED BY <1>t, <2>1, <2>4, <2>u, <3>1, StartType DEF OperatorTypeOK
  <2>r. \/ UNCHANGED <<children, registry, faults>> /\ batch' = <<>> /\ pc' = "publish"
        \/ UNCHANGED <<children, registry, faults>> /\ TurnEnds
        \/ ProvisionAndStart(Head(batch))
    BY <1>12, Zenon DEF ReviveNext
  <2>5. OperatorTypeOK'
    BY <2>2, <2>3, <2>4, <2>r
  <2>. QED BY <1>12, <1>p, <2>5 DEF ReviveNext, TypeOK
<1>13. CASE Publish
  <2>1. OperatorTypeOK'
    BY <1>13, <1>l, <1>t, RecordType DEF Publish, LoopUnlessShutdown, OperatorTypeOK, Phases
  <2>. QED BY <1>13, <1>p, <2>1 DEF Publish, TypeOK
<1>14. CASE RefreshLive
  <2>1. OperatorTypeOK'
    BY <1>14, <1>l, <1>t, RecordType DEF RefreshLive, OperatorTypeOK
  <2>. QED BY <1>14, <1>p, <2>1 DEF RefreshLive, TypeOK
<1>15. CASE Wake
  <2>1. OperatorTypeOK'
    BY <1>15, <1>t DEF Wake, LoopUnlessShutdown, OperatorTypeOK, Phases
  <2>. QED BY <1>15, <1>p, <2>1 DEF Wake, TypeOK
<1>16. CASE Stop
  <2>1. child' \in [Services -> Child]
    BY <1>16, <1>t DEF Stop, StopAll, OperatorTypeOK, NoChild, Child, NoConfig, Config, NoClient
  <2>2. Record({}) /\ {} \in SUBSET Services
    BY <1>16 DEF Stop
  <2>3. OperatorTypeOK'
    BY <1>16, <1>t, <2>1, <2>2, RecordType DEF Stop, OperatorTypeOK, Phases
  <2>. QED BY <1>16, <1>p, <2>3 DEF Stop, TypeOK
<1>17. ASSUME NEW s \in Services, EditSpec(s) \/ EditFiles(s) PROVE TypeOK'
  <2>1. /\ edits' \in Nat
        /\ hubSpecs' \in [Services -> Nat] /\ hubFiles' \in [Services -> Nat]
    <3>1. CASE EditSpec(s)
      <4>1. /\ edits + 1 \in Nat
            /\ hubSpecs \in [Services -> Nat] /\ hubFiles \in [Services -> Nat]
        BY <1>t DEF OperatorTypeOK
      <4>2. /\ edits' = edits + 1
            /\ \/ /\ hubSpecs' = [hubSpecs EXCEPT ![s] = edits + 1]
                  /\ hubFiles' = [hubFiles EXCEPT ![s] = edits + 1]
               \/ hubSpecs' = [hubSpecs EXCEPT ![s] = 0] /\ hubFiles' = hubFiles
        BY <3>1 DEF EditSpec
      <4>3. CASE hubSpecs' = [hubSpecs EXCEPT ![s] = edits + 1]
                 /\ hubFiles' = [hubFiles EXCEPT ![s] = edits + 1]
        BY <4>1, <4>2, <4>3
      <4>4. CASE hubSpecs' = [hubSpecs EXCEPT ![s] = 0] /\ hubFiles' = hubFiles
        BY <4>1, <4>2, <4>4
      <4>. QED BY <4>2, <4>3, <4>4
    <3>2. CASE EditFiles(s)
      BY <3>2, <1>t DEF EditFiles, OperatorTypeOK
    <3>. QED BY <1>17, <3>1, <3>2
  <2>2. UNCHANGED <<pairingVars, authorized, faults, shutdown, pc, fetchState, desired, queues,
                    batch, procState>>
    BY <1>17 DEF EditSpec, EditFiles
  <2>. QED BY <1>t, <1>p, <2>1, <2>2 DEF TypeOK, OperatorTypeOK
<1>18a. ASSUME NEW s \in Services, ChildDies(s) PROVE TypeOK'
  <2>1. NoChild \in Child
    BY DEF NoChild, Child, NoConfig, Config, NoClient
  <2>2. child' \in [Services -> Child] /\ faults' \in Nat
    BY <1>18a, <1>t, <2>1 DEF ChildDies, Fail, OperatorTypeOK
  <2>3. OperatorTypeOK'
    BY <1>18a, <1>t, <2>2 DEF ChildDies, OperatorTypeOK
  <2>. QED BY <1>18a, <1>p, <2>3 DEF ChildDies, TypeOK
<1>18b. ASSUME NEW s \in Services, StrayExits(s) PROVE TypeOK'
  <2>1. strays' \in [Services -> Nat]
    BY <1>18b, <1>t DEF StrayExits, OperatorTypeOK
  <2>2. OperatorTypeOK'
    BY <1>18b, <1>t, <2>1 DEF StrayExits, OperatorTypeOK
  <2>. QED BY <1>18b, <1>p, <2>2 DEF StrayExits, TypeOK
<1>19. CASE HubMoves
  <2>1. Surroundings
    BY <1>19 DEF HubMoves, Surroundings
  <2>2. PairingTypeOK'
    BY <2>1, <1>t, PairingType
  <2>3. OperatorTypeOK'
    BY <1>19, <1>t DEF HubMoves, OperatorTypeOK
  <2>. QED BY <2>2, <2>3 DEF TypeOK
<1>20. CASE TimePasses
  <2>1. PairingTypeOK'
    BY <1>20, <1>t, PairingType DEF TimePasses
  <2>2. OperatorTypeOK'
    BY <1>20, <1>t DEF TimePasses, opVars, OperatorTypeOK
  <2>. QED BY <2>1, <2>2 DEF TypeOK
<1>21. CASE SyncFallsDue \/ RequestShutdown
  <2>1. OperatorTypeOK'
    BY <1>21, <1>t DEF SyncFallsDue, RequestShutdown, OperatorTypeOK
  <2>. QED BY <1>21, <1>p, <2>1 DEF SyncFallsDue, RequestShutdown, TypeOK
<1>22. CASE UNCHANGED vars
  <2>1. OperatorTypeOK'
    BY <1>22, <1>t DEF vars, opVars, OperatorTypeOK
  <2>. QED BY <1>22, <1>p, <2>1 DEF vars, TypeOK
<1>. QED
  BY <1>1, <1>2, <1>3, <1>4, <1>5, <1>6, <1>7, <1>8, <1>9, <1>10, <1>10a, <1>11, <1>12, <1>13,
     <1>14, <1>15, <1>16, <1>17, <1>18a, <1>18b, <1>19, <1>20, <1>21, <1>22
  DEF Next, Step, Environment, Halted

\* Every variable of the operator and of its surroundings keeps its type.
THEOREM TypeCorrect == Spec => []TypeOK
<1>. QED BY TypeInit, TypeStep, PTL DEF Spec

------------------------------------------------------------------------------
(* Safety.                                                                 *)

\* The state the safety properties speak of, except pc.
safetyVars == <<hubSpecs, hubFiles, edits, specs, synced, files, desired, changedNames,
                removedNames, supervised, process, child, registry>>

\* A step that only moves the thread keeps them, away from the removal step
\* and from the end of run().
LEMMA SafeMove ==
  ASSUME Safe, UNCHANGED safetyVars,
         removedNames # {} => pc' = "remove",
         pc' = "stopped" => pc = "stopped",
         spawned => UNCHANGED <<pc, batch>>
  PROVE  Safe'
<1> USE DEF safetyVars, registry, Present
<1>1. SupervisedIsDesired' /\ ChildIsSupervised' /\ StoppedMeansNoChild'
  BY DEF Safe, SupervisedIsDesired, ChildIsSupervised, StoppedMeansNoChild
<1>1a. LiveChildIsRecorded' /\ SpawnedIsFirst'
  BY DEF Safe, LiveChildIsRecorded, SpawnedIsFirst
<1>2. StaleChildIsQueued'
  BY DEF Safe, StaleChildIsQueued, ToSet
<1>3. ProcessIsCurrent' /\ FilesFollowSpecs'
  BY DEF Safe, ProcessIsCurrent, FilesFollowSpecs
<1>. QED BY <1>1, <1>1a, <1>2, <1>3 DEF Safe

\* A diff at the end of fetch() keeps them, given a next set whose files are
\* as new as its specifications.
LEMMA SafeDiff ==
  ASSUME TypeOK, Safe, pc \in {"fetch", "prepare"},
         NEW next \in [Services -> Config],
         \A s \in Services : next[s].spec <= next[s].files,
         \A s \in Services : synced'[s] <= files'[s],
         \A s \in Services : specs'[s] <= hubFiles'[s],
         Diff(next),
         UNCHANGED <<hubSpecs, hubFiles, edits, registry>>
  PROVE  Safe'
<1> DEFINE fresh == Added(next) \cup (Changed(next) \ supervised)
<1>1. removedNames = {} /\ supervised = Present(desired)
  BY DEF Safe, SupervisedIsDesired
<1>2. Changed(next) \cap supervised = Changed(next) /\ fresh = Added(next)
  BY <1>1 DEF Changed
<1>3. /\ desired' = next
      /\ supervised' = supervised \cup Added(next)
      /\ process' = [s \in Services |-> IF s \in Added(next) \cup Changed(next)
                                        THEN [cfg |-> next[s], ticket |-> client]
                                        ELSE process[s]]
      /\ child' = [s \in Services |-> IF s \in Added(next) THEN NoChild ELSE child[s]]
      /\ removedNames' = Removed(next)
      /\ pc' = "remove"
  BY <1>1, <1>2 DEF Diff
<1>4. ToSet(changedNames') = ToSet(changedNames) \cup Changed(next)
  <2>1. PICK q \in SetToSeqs(Changed(next)) : changedNames' = changedNames \o q
    BY <1>2 DEF Diff
  <2>2. q \in Seq(Services) /\ ToSet(q) = Changed(next)
    BY Orders DEF Changed, Present
  <2>. QED BY <2>1, <2>2, ToSetConcat DEF TypeOK, OperatorTypeOK
<1>5. SupervisedIsDesired'
  BY <1>1, <1>3 DEF SupervisedIsDesired, Added, Removed, Present
<1>6. StaleChildIsQueued'
  <2> SUFFICES ASSUME NEW s \in Services,
                      child'[s].live, s \in Present(desired)', child'[s].cfg # desired'[s]
               PROVE  s \in ToSet(changedNames')
    BY DEF StaleChildIsQueued
  <2>1. s \in Present(next) /\ child'[s].cfg # next[s]
    BY <1>3 DEF Present
  <2>2. s \notin Added(next) /\ child'[s] = child[s]
    BY <1>3 DEF NoChild
  <2>3. s \in Present(desired)
    BY <2>1, <2>2 DEF Added
  <2>4. CASE next[s] = desired[s]
    BY <1>4, <2>1, <2>2, <2>3, <2>4 DEF Safe, StaleChildIsQueued
  <2>5. CASE next[s] # desired[s]
    BY <1>4, <2>1, <2>3, <2>5 DEF Changed
  <2>. QED BY <2>4, <2>5
<1>7. ChildIsSupervised'
  BY <1>3 DEF Safe, ChildIsSupervised, NoChild
<1>7a. LiveChildIsRecorded' /\ SpawnedIsFirst'
  <2>1. ~spawned
    BY DEF Safe, SpawnedIsFirst, Loops
  <2>. QED BY <1>3, <2>1 DEF Safe, LiveChildIsRecorded, SpawnedIsFirst, NoChild, registry
<1>8. StoppedMeansNoChild'
  BY <1>3 DEF StoppedMeansNoChild
<1>9. ProcessIsCurrent'
  <2> SUFFICES ASSUME NEW s \in Services, s \in Present(next)
               PROVE  process'[s].cfg = next[s]
    BY <1>3 DEF ProcessIsCurrent, Present
  <2>1. CASE s \in Added(next) \cup Changed(next)
    BY <1>3, <2>1
  <2>2. CASE s \notin Added(next) \cup Changed(next)
    <3>1. s \in Present(desired) /\ next[s] = desired[s]
      BY <2>2 DEF Added, Changed
    <3>. QED BY <1>3, <2>2, <3>1 DEF Safe, ProcessIsCurrent
  <2>. QED BY <2>1, <2>2
<1>10. FilesFollowSpecs'
  <2> SUFFICES ASSUME NEW s \in Services
               PROVE  /\ hubSpecs'[s] <= hubFiles'[s] /\ hubFiles'[s] <= edits'
                      /\ desired'[s].spec <= desired'[s].files
                      /\ child'[s].cfg.spec <= child'[s].cfg.files
    BY DEF FilesFollowSpecs
  <2>1. child'[s].cfg.spec <= child'[s].cfg.files
    BY <1>3 DEF Safe, FilesFollowSpecs, NoChild, NoConfig
  <2>. QED BY <1>3, <2>1 DEF Safe, FilesFollowSpecs
<1>. QED BY <1>5, <1>6, <1>7, <1>7a, <1>8, <1>9, <1>10 DEF Safe

\* Stopping children keeps them: names removed leave the supervised set, names
\* taken off the queue of changes have no child left.
LEMMA SafeStops ==
  ASSUME TypeOK, Safe, pc # "stopped",
         NEW names, StopAll(names),
         supervised' = Present(desired) \cup removedNames',
         removedNames' \in {{}, removedNames},
         removedNames' # removedNames => removedNames \subseteq names,
         removedNames' # {} => pc' = "remove",
         ToSet(changedNames) \subseteq ToSet(changedNames') \cup names,
         LiveChildIsRecorded', SpawnedIsFirst',
         pc' = "stopped" => supervised \subseteq names,
         UNCHANGED <<hubSpecs, hubFiles, edits, specs, synced, files, desired, process>>
  PROVE  Safe'
<1>1. \A s \in Services : \/ child'[s] = child[s] /\ s \notin names \cap supervised
                          \/ child'[s] = NoChild
  BY DEF StopAll
<1>2. \A s \in Services : child[s].live => s \in supervised
  BY DEF Safe, ChildIsSupervised
<1>3. SupervisedIsDesired'
  BY DEF Safe, SupervisedIsDesired, Present
<1>4. StaleChildIsQueued'
  <2> SUFFICES ASSUME NEW s \in Services,
                      child'[s].live, s \in Present(desired)', child'[s].cfg # desired'[s]
               PROVE  s \in ToSet(changedNames')
    BY DEF StaleChildIsQueued
  <2>1. child'[s] = child[s] /\ s \notin names \cap supervised /\ s \in Present(desired)
    BY <1>1 DEF NoChild, Present
  <2>2. s \in ToSet(changedNames)
    BY <2>1 DEF Safe, StaleChildIsQueued
  <2>3. s \in supervised
    BY <1>2, <2>1
  <2>. QED BY <2>1, <2>2, <2>3
<1>5. ChildIsSupervised'
  BY <1>1, <1>2 DEF Safe, SupervisedIsDesired, ChildIsSupervised, NoChild
<1>7. StoppedMeansNoChild'
  BY <1>1, <1>2 DEF StoppedMeansNoChild, NoChild
<1>8. ProcessIsCurrent'
  BY DEF Safe, ProcessIsCurrent, Present
<1>9. FilesFollowSpecs'
  BY <1>1 DEF Safe, FilesFollowSpecs, NoChild, NoConfig
<1>. QED BY <1>3, <1>4, <1>5, <1>7, <1>8, <1>9 DEF Safe

\* One start keeps them: the process carries the desired configuration, so the
\* child it starts is not stale, and it is the one to be recorded next.
LEMMA SafeStart ==
  ASSUME TypeOK, Safe, pc \in Loops, batch # <<>>, ~spawned,
         Head(batch) \in Services, ProvisionAndStart(Head(batch)),
         UNCHANGED <<hubSpecs, hubFiles, edits, specs, synced, files, desired, changedNames,
                     removedNames, supervised, process>>
  PROVE  Safe'
<1> DEFINE s == Head(batch)
<1>1. removedNames = {} /\ supervised = Present(desired) /\ s \in Services
  BY DEF Safe, SupervisedIsDesired, Loops
<1>2. CASE TurnEnds /\ UNCHANGED <<children, registry>>
  <2>1. pc' # "stopped"
    BY <1>2, TurnType DEF TypeOK, Loops
  <2>. QED BY <1>1, <1>2, <2>1, SafeMove DEF safetyVars, children
<1>3. CASE s \in supervised /\ Spawn(s)
  <2>1. /\ child' = [child EXCEPT ![s] = [live   |-> TRUE,
                                         cfg    |-> process[s].cfg,
                                         ticket |-> process[s].ticket]]
        /\ spawned' = TRUE /\ recorded' = recorded \ {s} /\ owners' = owners \ {s}
        /\ UNCHANGED <<unsaved, batch, pc>>
    BY <1>3 DEF Spawn
  <2> HIDE DEF s
  <2>2. child'[s].cfg = desired[s] /\ \A t \in Services \ {s} : child'[t] = child[t]
    BY <1>1, <1>3, <2>1 DEF Safe, ProcessIsCurrent, TypeOK, OperatorTypeOK
  <2>3. SupervisedIsDesired' /\ ChildIsSupervised'
    BY <1>1, <1>3, <2>1, <2>2 DEF Safe, SupervisedIsDesired, ChildIsSupervised, Present
  <2>4. LiveChildIsRecorded' /\ SpawnedIsFirst'
    <3>1. SpawnedIsFirst' /\ Head(batch)' = s
      BY <2>1 DEF SpawnedIsFirst, s
    <3>. QED BY <2>1, <2>2, <3>1 DEF Safe, LiveChildIsRecorded
  <2>5. StaleChildIsQueued'
    BY <2>2 DEF Safe, StaleChildIsQueued, Present, ToSet
  <2>6. StoppedMeansNoChild' /\ ProcessIsCurrent'
    BY <2>1 DEF StoppedMeansNoChild, Loops, Safe, ProcessIsCurrent, Present
  <2>7. FilesFollowSpecs'
    BY <2>2 DEF Safe, FilesFollowSpecs
  <2>. QED BY <2>3, <2>4, <2>5, <2>6, <2>7 DEF Safe
<1>. QED BY <1>2, <1>3 DEF ProvisionAndStart

\* What is recorded changes, and nothing else the properties speak of: a step
\* that keeps the live children recorded keeps them all.
LEMMA SafeRecord ==
  ASSUME Safe, LiveChildIsRecorded', SpawnedIsFirst',
         removedNames # {} => pc' = "remove",
         pc' = "stopped" => pc = "stopped",
         UNCHANGED <<hubSpecs, hubFiles, edits, specs, synced, files, desired, changedNames,
                     removedNames, supervised, process, child>>
  PROVE  Safe'
<1>1. SupervisedIsDesired' /\ ChildIsSupervised' /\ StoppedMeansNoChild' /\ ProcessIsCurrent'
  BY DEF Safe, SupervisedIsDesired, ChildIsSupervised, StoppedMeansNoChild, ProcessIsCurrent,
         Present
<1>2. StaleChildIsQueued' /\ FilesFollowSpecs'
  BY DEF Safe, StaleChildIsQueued, FilesFollowSpecs, Present, ToSet
<1>. QED BY <1>1, <1>2 DEF Safe

\* publish_status records the live children: those it writes are in the file if
\* the write succeeds, and one it need not write is there from before.
LEMMA PublishedIsRecorded ==
  ASSUME LiveChildIsRecorded, ~spawned, NEW names, Record(names),
         \A s \in Services : child'[s].live => s \in names /\ child[s].live
  PROVE  LiveChildIsRecorded' /\ SpawnedIsFirst'
<1>1. ~spawned'
  BY DEF Record
<1>2. ASSUME NEW s \in Services, child'[s].live
      PROVE  s \in recorded' /\ (unsaved' \/ s \in owners')
  <2>1. s \in names /\ s \in recorded /\ (unsaved \/ s \in owners)
    BY <1>2 DEF LiveChildIsRecorded
  <2>. QED BY <2>1 DEF Record, Save
<1>. QED BY <1>1, <1>2 DEF LiveChildIsRecorded, SpawnedIsFirst

\* Initially nothing is supervised and nothing runs.
LEMMA SafeInit == Init => Safe
<1> SUFFICES ASSUME Init PROVE Safe
  OBVIOUS
<1> USE DEF Init, OperatorInit, NoChild, NoConfig
<1>1. SupervisedIsDesired /\ ProcessIsCurrent
  BY DEF SupervisedIsDesired, ProcessIsCurrent, Present
<1>2. /\ StaleChildIsQueued /\ ChildIsSupervised /\ LiveChildIsRecorded
      /\ SpawnedIsFirst /\ StoppedMeansNoChild
  BY DEF StaleChildIsQueued, ChildIsSupervised, LiveChildIsRecorded, SpawnedIsFirst,
         StoppedMeansNoChild
<1>3. FilesFollowSpecs
  <2>1. \A s \in Services : hubSpecs[s] \in {0, 1} /\ hubFiles[s] = hubSpecs[s]
    OBVIOUS
  <2>. QED BY <2>1 DEF FilesFollowSpecs
<1>. QED BY <1>1, <1>2, <1>3 DEF Safe

\* Every action keeps the safety properties.
LEMMA SafeStep == TypeOK /\ Safe /\ [Next]_vars => Safe'
<1> SUFFICES ASSUME TypeOK, Safe, [Next]_vars PROVE Safe'
  OBVIOUS
<1>s. /\ supervised = Present(desired) \cup removedNames
      /\ Present(desired) \cap removedNames = {}
      /\ removedNames # {} => pc = "remove"
      /\ spawned => pc \in Loops /\ batch # <<>>
  BY DEF Safe, SupervisedIsDesired, SpawnedIsFirst
<1>r. LiveChildIsRecorded
  BY DEF Safe
<1>f. \A s \in Services : /\ specs[s] <= hubFiles[s] /\ synced[s] <= files[s]
                          /\ desired[s].spec <= desired[s].files
                          /\ hubSpecs[s] <= hubFiles[s] /\ hubFiles[s] <= edits
  BY DEF Safe, FilesFollowSpecs
<1> USE DEF hubState, bounds, fetchState, queues, children, registry, procState, safetyVars
<1>1. CASE Connect \/ Pair
  BY <1>1, <1>s, SafeMove DEF Connect, Pair, Loops
<1>2. CASE FetchUnpaired
  <2> DEFINE next == [s \in Services |-> NoConfig]
  <2>1. next \in [Services -> Config] /\ \A s \in Services : next[s].spec <= next[s].files
    BY DEF NoConfig, Config
  <2>2. /\ pc = "fetch" /\ Diff(next)
        /\ UNCHANGED <<hubSpecs, hubFiles, edits, specs, synced, files, registry>>
    BY <1>2 DEF FetchUnpaired
  <2>. QED BY <1>f, <2>1, <2>2, SafeDiff
<1>3. CASE FetchFails
  <2>1. /\ pc = "fetch" /\ Diff(PollFailureKeeps)
        /\ UNCHANGED <<hubSpecs, hubFiles, edits, specs, synced, files, registry>>
    BY <1>3 DEF FetchFails
  <2>2. PollFailureKeeps \in [Services -> Config]
        /\ \A s \in Services : PollFailureKeeps[s].spec <= PollFailureKeeps[s].files
    BY <1>f DEF PollFailureKeeps, TypeOK, OperatorTypeOK
  <2>. QED BY <1>f, <2>1, <2>2, SafeDiff
<1>4. CASE FetchAnswered
  <2>1. /\ pc = "fetch" /\ pc' = "prepare" /\ specs' = hubSpecs
        /\ UNCHANGED <<hubSpecs, hubFiles, edits, synced, files, desired, changedNames,
                       removedNames, supervised, process, child, registry>>
    BY <1>4 DEF FetchAnswered
  <2>2. FilesFollowSpecs'
    BY <1>f, <2>1 DEF Safe, FilesFollowSpecs
  <2>3. /\ SupervisedIsDesired' /\ ChildIsSupervised' /\ LiveChildIsRecorded'
        /\ SpawnedIsFirst' /\ StoppedMeansNoChild' /\ ProcessIsCurrent'
    BY <1>s, <2>1 DEF Safe, SupervisedIsDesired, ChildIsSupervised, LiveChildIsRecorded, Loops,
                      SpawnedIsFirst, StoppedMeansNoChild, ProcessIsCurrent, Present
  <2>4. StaleChildIsQueued'
    BY <2>1 DEF Safe, StaleChildIsQueued, Present, ToSet
  <2>. QED BY <2>2, <2>3, <2>4 DEF Safe
<1>5. CASE Prepare
  <2>1. PICK syncOk \in BOOLEAN, authOk \in BOOLEAN :
          LET ready  == FilesReady(syncOk)
              onDisk == IF syncOk THEN hubFiles ELSE files
              next   == [s \in Services |->
                           IF specs[s] = 0 THEN NoConfig
                           ELSE IF ready THEN [spec |-> specs[s], files |-> onDisk[s]]
                           ELSE desired[s]]
              failed == (IF SyncNeeded /\ ~syncOk THEN 1 ELSE 0) + (IF authOk THEN 0 ELSE 1)
          IN  /\ syncOk => SyncNeeded
              /\ IF Reachable THEN Fail(failed)
                 ELSE ~syncOk /\ ~authOk /\ UNCHANGED faults
              /\ files' = onDisk
              /\ haveFiles' = (haveFiles \/ syncOk)
              /\ syncDue' = (syncDue /\ ~syncOk)
              /\ synced' = IF ready THEN specs ELSE synced
              /\ hostKeys' = Present(next)
              /\ Authorize(authOk, next)
              /\ Diff(next)
    BY <1>5, Zenon DEF Prepare
  <2> DEFINE ready  == FilesReady(syncOk)
             onDisk == IF syncOk THEN hubFiles ELSE files
             next   == [s \in Services |->
                           IF specs[s] = 0 THEN NoConfig
                           ELSE IF ready THEN [spec |-> specs[s], files |-> onDisk[s]]
                           ELSE desired[s]]
  <2>2. files' = onDisk /\ synced' = (IF ready THEN specs ELSE synced) /\ Diff(next)
    BY <2>1
  <2>3. pc = "prepare" /\ UNCHANGED <<hubSpecs, hubFiles, edits, specs, registry>>
    BY <1>5 DEF Prepare
  \* Files that are ready are those of a sync in this cycle, or of the set the
  \* specifications have not changed from.
  <2>4. ready => \A s \in Services : specs[s] <= onDisk[s]
    BY <1>f DEF FilesReady, Forced
  <2>5. \A s \in Services : synced'[s] <= files'[s]
    <3>1. CASE ready
      BY <2>2, <2>4, <3>1
    <3>2. CASE ~ready
      BY <1>f, <2>2, <3>2 DEF FilesReady
    <3>. QED BY <3>1, <3>2
  <2>6. next \in [Services -> Config] /\ \A s \in Services : next[s].spec <= next[s].files
    <3>1. onDisk \in [Services -> Nat] /\ specs \in [Services -> Nat]
          /\ desired \in [Services -> Config]
      BY DEF TypeOK, OperatorTypeOK
    <3>2. SUFFICES ASSUME NEW s \in Services
                   PROVE  next[s] \in Config /\ next[s].spec <= next[s].files
      BY Zenon
    <3>3. CASE specs[s] = 0
      BY <3>3 DEF NoConfig, Config
    <3>4. CASE specs[s] # 0 /\ ready
      <4>1. next[s] = [spec |-> specs[s], files |-> onDisk[s]]
        BY <3>4
      <4>. QED BY <2>4, <3>1, <3>4, <4>1 DEF Config
    <3>5. CASE specs[s] # 0 /\ ~ready
      <4>1. next[s] = desired[s]
        BY <3>5
      <4>. QED BY <1>f, <3>1, <4>1
    <3>. QED BY <3>3, <3>4, <3>5
  <2> HIDE DEF next, ready, onDisk
  <2>. QED BY <1>f, <2>2, <2>3, <2>5, <2>6, SafeDiff
<1>6. CASE RemoveOld
  <2>1. /\ pc = "remove" /\ pc' = "changed" /\ StopAll(removedNames)
        /\ supervised' = supervised \ removedNames /\ removedNames' = {}
        /\ UNCHANGED <<hubSpecs, hubFiles, edits, specs, synced, files, desired, process,
                       changedNames, registry>>
    BY <1>6 DEF RemoveOld
  <2>2. supervised' = Present(desired) \cup removedNames'
    BY <1>s, <2>1
  <2>3. LiveChildIsRecorded' /\ SpawnedIsFirst'
    BY <1>r, <1>s, <2>1 DEF LiveChildIsRecorded, SpawnedIsFirst, Loops, StopAll, NoChild
  <2>. QED BY <2>1, <2>2, <2>3, SafeStops
<1>7. CASE RespawnChanged
  <2> DEFINE count == CycleCount(Len(changedNames))
             cycle == SubSeq(changedNames, 1, count)
  <2>1. /\ pc = "changed" /\ StopAll(ToSet(cycle)) /\ pc' \in {"start", "restarting"}
        /\ changedNames' = SubSeq(changedNames, count + 1, Len(changedNames))
        /\ UNCHANGED <<hubSpecs, hubFiles, edits, specs, synced, files, desired, process,
                       removedNames, supervised, registry>>
    BY <1>7 DEF RespawnChanged
  <2>2. ToSet(changedNames) = ToSet(cycle) \cup ToSet(changedNames')
    <3>1. changedNames \in Seq(Services) /\ count \in 0..Len(changedNames)
      BY CycleCountBound DEF TypeOK, OperatorTypeOK
    <3>. HIDE DEF count
    <3>. QED BY <2>1, <3>1, ToSetDrain
  <2>3. LiveChildIsRecorded' /\ SpawnedIsFirst'
    BY <1>r, <1>s, <2>1 DEF LiveChildIsRecorded, SpawnedIsFirst, Loops, StopAll, NoChild
  <2>4. supervised' = Present(desired) \cup removedNames' /\ removedNames' = {}
    BY <1>s, <2>1
  <2>. QED BY <1>s, <2>1, <2>2, <2>3, <2>4, SafeStops
<1>8. CASE StartNew \/ ScanDead
  BY <1>8, <1>s, SafeMove DEF StartNew, ScanDead, Loops
<1>9. CASE StartNext
  <2>1. Head(batch) \in Services /\ pc \in Loops /\ batch # <<>> /\ ~spawned
    BY <1>9, ToSetTail DEF StartNext, TypeOK, OperatorTypeOK, Loops
  <2>. QED BY <1>9, <2>1, SafeStart DEF StartNext
<1>9a. CASE RecordStart
  <2>1. /\ recorded' = recorded \cup {Head(batch)}
        /\ (owners' = recorded' /\ unsaved' = FALSE) \/ unsaved' = TRUE
        /\ spawned' = FALSE /\ child' = child
    BY <1>9a DEF RecordStart, Add, Save
  <2>2. LiveChildIsRecorded' /\ SpawnedIsFirst'
    BY <1>r, <2>1 DEF LiveChildIsRecorded, SpawnedIsFirst
  <2>3. removedNames = {} /\ pc' # "stopped"
    BY <1>9a, <1>s, TurnType DEF RecordStart, TypeOK, Loops
  <2>. QED BY <1>9a, <2>2, <2>3, SafeRecord DEF RecordStart
<1>10. CASE ReviveNext
  <2>1. /\ Head(batch) \in Services /\ pc \in Loops /\ pc = "reviving"
        /\ batch # <<>> /\ ~spawned
    BY <1>10, ToSetTail DEF ReviveNext, TypeOK, OperatorTypeOK, Loops
  <2>2. CASE UNCHANGED <<children, registry, faults>> /\ (TurnEnds \/ pc' = "publish")
    <3>1. pc' # "stopped"
      BY <2>1, <2>2, TurnType DEF TypeOK, Loops
    <3>. QED BY <1>10, <1>s, <2>1, <2>2, <3>1, SafeMove DEF ReviveNext
  <2>3. CASE ProvisionAndStart(Head(batch))
    BY <1>10, <2>1, <2>3, SafeStart DEF ReviveNext
  <2>. QED BY <1>10, <2>2, <2>3, Zenon DEF ReviveNext
<1>12. CASE Publish \/ RefreshLive
  <2>1. /\ pc \in {"publish", "sleep"} /\ pc' \in {"stopping", "sleep"} /\ Record(LiveNames)
        /\ UNCHANGED <<hubSpecs, hubFiles, edits, specs, synced, files, desired, changedNames,
                       removedNames, supervised, process, child>>
    BY <1>12 DEF Publish, RefreshLive, LoopUnlessShutdown
  <2>2. ~spawned /\ removedNames = {}
    BY <1>s, <2>1 DEF Loops
  <2>3. \A s \in Services : child'[s].live => s \in LiveNames /\ child[s].live
    BY <2>1 DEF Safe, ChildIsSupervised, LiveNames
  <2>4. LiveChildIsRecorded' /\ SpawnedIsFirst'
    BY <1>r, <2>1, <2>2, <2>3, PublishedIsRecorded
  <2>. QED BY <2>1, <2>2, <2>4, SafeRecord
<1>14. CASE Wake
  BY <1>14, <1>s, SafeMove DEF Wake, LoopUnlessShutdown, Loops
<1>15. CASE Stop
  <2>1. /\ pc = "stopping" /\ StopAll(supervised) /\ Record({})
        /\ UNCHANGED <<hubSpecs, hubFiles, edits, specs, synced, files, desired, process,
                       changedNames, removedNames, supervised>>
    BY <1>15 DEF Stop
  <2>2. supervised' = Present(desired) \cup removedNames' /\ removedNames' = {}
    BY <1>s, <2>1
  <2>3. \A s \in Services : ~child'[s].live
    BY <2>1 DEF Safe, ChildIsSupervised, StopAll, NoChild
  <2>4. LiveChildIsRecorded' /\ SpawnedIsFirst'
    <3>1. ~spawned
      BY <1>s, <2>1 DEF Loops
    <3>. QED BY <1>r, <2>1, <2>3, <3>1, PublishedIsRecorded
  <2>. QED BY <1>s, <2>1, <2>2, <2>4, SafeStops
<1>16. ASSUME NEW s \in Services, EditSpec(s) \/ EditFiles(s) PROVE Safe'
  <2>1. /\ UNCHANGED <<pc, specs, synced, files, desired, changedNames, removedNames,
                       supervised, process, child, registry, batch>>
        /\ edits' = edits + 1
        /\ \/ hubSpecs'[s] = edits + 1 /\ hubFiles'[s] = edits + 1
           \/ hubSpecs'[s] = 0 /\ hubFiles'[s] = hubFiles[s]
           \/ hubSpecs'[s] = hubSpecs[s] /\ hubFiles'[s] = edits + 1
        /\ \A t \in Services \ {s} : hubSpecs'[t] = hubSpecs[t] /\ hubFiles'[t] = hubFiles[t]
    BY <1>16 DEF EditSpec, EditFiles, TypeOK, OperatorTypeOK
  <2>2. \A t \in Services : hubSpecs[t] \in Nat /\ hubFiles[t] \in Nat /\ specs[t] \in Nat
    BY DEF TypeOK, OperatorTypeOK
  <2>3. edits \in Nat
    BY DEF TypeOK, OperatorTypeOK
  <2>4. FilesFollowSpecs'
    <3>1. SUFFICES ASSUME NEW t \in Services
                   PROVE  /\ hubSpecs'[t] <= hubFiles'[t] /\ hubFiles'[t] <= edits'
                          /\ specs[t] <= hubFiles'[t]
      BY <2>1 DEF Safe, FilesFollowSpecs
    <3>2. CASE t = s
      BY <1>f, <2>1, <2>2, <2>3, <3>2
    <3>3. CASE t # s
      BY <1>f, <2>1, <2>2, <2>3, <3>3
    <3>. QED BY <3>2, <3>3
  <2>5. /\ SupervisedIsDesired' /\ ChildIsSupervised' /\ LiveChildIsRecorded'
        /\ SpawnedIsFirst' /\ StoppedMeansNoChild' /\ ProcessIsCurrent'
    BY <2>1 DEF Safe, SupervisedIsDesired, ChildIsSupervised, LiveChildIsRecorded,
                SpawnedIsFirst, StoppedMeansNoChild, ProcessIsCurrent, Present
  <2>6. StaleChildIsQueued'
    BY <2>1 DEF Safe, StaleChildIsQueued, Present, ToSet
  <2>. QED BY <2>4, <2>5, <2>6 DEF Safe
<1>17. ASSUME NEW s \in Services, ChildDies(s) PROVE Safe'
  <2>1. /\ child[s].live /\ child' = [child EXCEPT ![s] = NoChild]
        /\ UNCHANGED <<pc, hubSpecs, hubFiles, edits, specs, synced, files, desired, process,
                       changedNames, removedNames, supervised, registry, batch>>
    BY <1>17 DEF ChildDies
  <2>2. pc # "stopped" /\ s \in supervised
    BY <2>1 DEF Safe, StoppedMeansNoChild, ChildIsSupervised
  <2>3. StopAll({s})
    BY <2>1, <2>2 DEF StopAll, TypeOK, OperatorTypeOK
  <2>4. LiveChildIsRecorded' /\ SpawnedIsFirst'
    BY <1>r, <1>s, <2>1, <2>3 DEF LiveChildIsRecorded, SpawnedIsFirst, StopAll, NoChild
  <2>. QED BY <1>s, <2>1, <2>2, <2>3, <2>4, SafeStops
<1>18. ASSUME NEW s \in Services, StrayExits(s) PROVE Safe'
  BY <1>18, <1>s, SafeMove DEF StrayExits
<1>19. CASE HubMoves
  BY <1>19, <1>s, SafeMove DEF HubMoves
<1>20. CASE TimePasses \/ UNCHANGED vars
  BY <1>20, <1>s, SafeMove DEF TimePasses, opVars, vars
<1>21. CASE SyncFallsDue \/ RequestShutdown
  BY <1>21, <1>s, SafeMove DEF SyncFallsDue, RequestShutdown
<1>. QED
  BY <1>1, <1>2, <1>3, <1>4, <1>5, <1>6, <1>7, <1>8, <1>9, <1>9a, <1>10, <1>12, <1>14, <1>15,
     <1>16, <1>17, <1>18, <1>19, <1>20, <1>21
  DEF Next, Step, Environment, Halted

\* Every safety property holds of the operator, together with the facts about
\* configurations that make them inductive.
THEOREM SafetyInvariant == Spec => [](TypeOK /\ Safe)
<1>1. Init => TypeOK /\ Safe
  BY TypeInit, SafeInit
<1>2. TypeOK /\ Safe /\ [Next]_vars => (TypeOK /\ Safe)'
  BY TypeStep, SafeStep
<1>. QED BY <1>1, <1>2, PTL DEF Spec

\* Removal and start never disagree about which services exist.
THEOREM SupervisionIsExact == Spec => []SupervisedIsDesired
<1>1. TypeOK /\ Safe => SupervisedIsDesired
  BY DEF Safe
<1>. QED BY <1>1, SafetyInvariant, PTL

\* No change of the desired set is forgotten, whatever the start limit.
THEOREM ChangesAreKept == Spec => []StaleChildIsQueued
<1>1. TypeOK /\ Safe => StaleChildIsQueued
  BY DEF Safe
<1>. QED BY <1>1, SafetyInvariant, PTL

\* No child outlives its process: nothing is started behind the supervisor's
\* back and nothing is dropped while it runs.
THEOREM NoChildEscapes == Spec => []ChildIsSupervised
<1>1. TypeOK /\ Safe => ChildIsSupervised
  BY DEF Safe
<1>. QED BY <1>1, SafetyInvariant, PTL

\* A live child is among the recorded pids from registry.add to its end, and in
\* the owners file as well unless the last write of it failed.
THEOREM RecordIsComplete == Spec => []LiveChildIsRecorded
<1>1. TypeOK /\ Safe => LiveChildIsRecorded
  BY DEF Safe
<1>. QED BY <1>1, SafetyInvariant, PTL

\* After run() returns no process holds a live child.
THEOREM StoppedIsEmpty == Spec => []StoppedMeansNoChild
<1>1. TypeOK /\ Safe => StoppedMeansNoChild
  BY DEF Safe
<1>. QED BY <1>1, SafetyInvariant, PTL

\* No child runs a specification newer than the files it was given.
THEOREM FilesComeFirst == Spec => []FilesPrecedeStart
<1>1. TypeOK /\ Safe => FilesPrecedeStart
  <2> SUFFICES ASSUME TypeOK, Safe, NEW s \in Services
               PROVE  child[s].cfg.files >= child[s].cfg.spec
    BY DEF FilesPrecedeStart
  <2>1. child[s].cfg.spec \in Nat /\ child[s].cfg.files \in Nat
    BY DEF TypeOK, OperatorTypeOK, Child, Config
  <2>. QED BY <2>1 DEF Safe, FilesFollowSpecs
<1>. QED BY <1>1, SafetyInvariant, PTL

------------------------------------------------------------------------------
(* A child is stopped for a cause.                                         *)

\* Initially nothing runs.
LEMMA CauseInit == Init => CauseRemains
<1> SUFFICES ASSUME Init, NEW s \in Services
             PROVE  /\ desired[s].files <= edits /\ files[s] <= edits
                    /\ child[s].cfg.files <= edits /\ ~child[s].live
  BY DEF CauseRemains
<1>. QED BY DEF Init, OperatorInit, NoChild, NoConfig

\* A step that leaves children, configurations and the hub's revisions alone,
\* within the phase or into another than that of the removal.
LEMMA CauseMove ==
  ASSUME CauseRemains,
         \A s \in Services : child'[s] = child[s] \/ child'[s] = NoChild,
         edits \in Nat,
         UNCHANGED <<hubSpecs, edits, desired, files>>,
         \/ pc' \notin {"prepare", "remove"}
         \/ pc' = pc /\ UNCHANGED <<specs, removedNames, client>>
  PROVE  CauseRemains'
<1> SUFFICES ASSUME NEW s \in Services
             PROVE  /\ desired'[s].files <= edits' /\ files'[s] <= edits'
                    /\ child'[s].cfg.files <= edits'
                    /\ child'[s].live =>
                         /\ child'[s].cfg.spec # 0
                         /\ pc' = "prepare" /\ specs'[s] = 0 => hubSpecs'[s] # child'[s].cfg.spec
                         /\ pc' = "remove" /\ s \in removedNames' =>
                              client' = NoClient \/ hubSpecs'[s] # child'[s].cfg.spec
  BY DEF CauseRemains
<1>1. CASE child'[s] = child[s]
  BY <1>1 DEF CauseRemains
<1>2. CASE child'[s] = NoChild
  BY <1>2 DEF CauseRemains, NoChild, NoConfig
<1>. QED BY <1>1, <1>2

\* The next set of Prepare, as in fetch().
NextSet(ready, onDisk) ==
  [s \in Services |-> IF specs[s] = 0 THEN NoConfig
                      ELSE IF ready THEN [spec |-> specs[s], files |-> onDisk[s]]
                      ELSE desired[s]]

\* A diff queues for removal only what has a cause by then.
LEMMA CauseDiff ==
  ASSUME TypeOK, Safe, CauseRemains, pc \in {"fetch", "prepare"},
         NEW next \in [Services -> Config],
         \A s \in Services : next[s].files <= edits /\ files'[s] <= edits,
         \A s \in Services : child[s].live /\ s \in Removed(next) =>
                               client = NoClient \/ hubSpecs[s] # child[s].cfg.spec,
         Diff(next),
         UNCHANGED <<hubSpecs, edits, client>>
  PROVE  CauseRemains'
<1>1. removedNames = {} /\ supervised = Present(desired)
  BY DEF Safe, SupervisedIsDesired
<1>2. Changed(next) \ supervised = {}
  BY <1>1 DEF Changed
<1>3. /\ desired' = next /\ removedNames' = Removed(next) /\ pc' = "remove"
      /\ child' = [s \in Services |-> IF s \in Added(next) THEN NoChild ELSE child[s]]
  BY <1>1, <1>2 DEF Diff
<1>4. edits \in Nat
  BY DEF TypeOK, OperatorTypeOK
<1> SUFFICES ASSUME NEW s \in Services
             PROVE  /\ desired'[s].files <= edits' /\ files'[s] <= edits'
                    /\ child'[s].cfg.files <= edits'
                    /\ child'[s].live =>
                         /\ child'[s].cfg.spec # 0
                         /\ pc' = "prepare" /\ specs'[s] = 0 => hubSpecs'[s] # child'[s].cfg.spec
                         /\ pc' = "remove" /\ s \in removedNames' =>
                              client' = NoClient \/ hubSpecs'[s] # child'[s].cfg.spec
  BY DEF CauseRemains
<1>5. CASE s \in Added(next)
  BY <1>3, <1>4, <1>5 DEF NoChild, NoConfig
<1>6. CASE s \notin Added(next)
  BY <1>3, <1>6 DEF CauseRemains
<1>. QED BY <1>5, <1>6

\* A start gives a child a specification, and its files are no newer than the
\* hub's last edit.
LEMMA CauseStart ==
  ASSUME TypeOK, Safe, CauseRemains, pc \in Loops, batch # <<>>,
         NEW s \in Services, ProvisionAndStart(s),
         UNCHANGED <<hubSpecs, edits, desired, files>>
  PROVE  CauseRemains'
<1>t. edits \in Nat
  BY DEF TypeOK, OperatorTypeOK
<1>1. supervised = Present(desired)
  BY DEF Safe, SupervisedIsDesired, Loops
<1>p. pc' \notin {"prepare", "remove"}
  BY StartType DEF TypeOK, Loops
<1>2. CASE UNCHANGED children
  BY <1>p, <1>t, <1>2, CauseMove DEF children
<1>3. CASE s \in supervised /\ Spawn(s)
  <2>1. /\ s \in Present(desired)
        /\ child' = [child EXCEPT ![s] = [live   |-> TRUE,
                                         cfg    |-> process[s].cfg,
                                         ticket |-> process[s].ticket]]
    BY <1>1, <1>3 DEF Spawn
  <2>2. process[s].cfg = desired[s] /\ desired[s].spec # 0
    BY <2>1 DEF Safe, ProcessIsCurrent, Present
  <2>3. child'[s].cfg = desired[s] /\ \A r \in Services \ {s} : child'[r] = child[r]
    BY <2>1, <2>2 DEF TypeOK, OperatorTypeOK
  <2>. QED BY <1>p, <2>2, <2>3 DEF CauseRemains
<1>. QED BY <1>2, <1>3 DEF ProvisionAndStart

\* Every action keeps the causes.
LEMMA CauseStep == TypeOK /\ Safe /\ CauseRemains /\ [Next]_vars => CauseRemains'
<1> SUFFICES ASSUME TypeOK, Safe, CauseRemains, [Next]_vars PROVE CauseRemains'
  OBVIOUS
<1>t. /\ edits \in Nat /\ batch \in Seq(Services)
      /\ hubSpecs \in [Services -> Nat] /\ hubFiles \in [Services -> Nat]
      /\ specs \in [Services -> Nat] /\ files \in [Services -> Nat]
      /\ desired \in [Services -> Config] /\ child \in [Services -> Child]
  BY DEF TypeOK, OperatorTypeOK
<1>c. \A s \in Services : desired[s].files <= edits /\ files[s] <= edits
                          /\ hubFiles[s] <= edits
  BY DEF CauseRemains, Safe, FilesFollowSpecs
<1> USE DEF hubState, bounds, fetchState, queues, children, registry, procState
<1>1. CASE Connect \/ Pair
  BY <1>1, <1>t, CauseMove DEF Connect, Pair
<1>2. CASE FetchUnpaired
  <2> DEFINE next == [s \in Services |-> NoConfig]
  <2>1. next \in [Services -> Config] /\ \A s \in Services : next[s].files <= edits
    BY <1>t DEF NoConfig, Config
  <2>2. /\ pc = "fetch" /\ Diff(next) /\ client = NoClient
        /\ UNCHANGED <<hubSpecs, edits, files, client>>
    BY <1>2 DEF FetchUnpaired, pairingVars
  <2>. QED BY <1>c, <2>1, <2>2, CauseDiff
<1>3. CASE FetchFails
  <2>1. pc = "fetch" /\ Diff(desired) /\ UNCHANGED <<hubSpecs, edits, files, client>>
    BY <1>3 DEF FetchFails, PollFailureKeeps, pairingVars
  <2>2. Removed(desired) = {}
    BY DEF Removed
  <2>. QED BY <1>c, <1>t, <2>1, <2>2, CauseDiff
<1>4. CASE FetchAnswered
  <2>1. /\ pc' = "prepare" /\ specs' = hubSpecs
        /\ UNCHANGED <<hubSpecs, edits, desired, files, child>>
    BY <1>4 DEF FetchAnswered
  <2>. QED BY <2>1 DEF CauseRemains
<1>5. CASE Prepare
  <2>1. PICK syncOk \in BOOLEAN, authOk \in BOOLEAN :
          LET onDisk == IF syncOk THEN hubFiles ELSE files
          IN  files' = onDisk /\ Diff(NextSet(FilesReady(syncOk), onDisk))
    BY <1>5, Zenon DEF Prepare, NextSet
  <2> DEFINE onDisk == IF syncOk THEN hubFiles ELSE files
             next   == NextSet(FilesReady(syncOk), onDisk)
  <2>2. onDisk \in [Services -> Nat] /\ \A s \in Services : onDisk[s] <= edits
    BY <1>t, <1>c
  <2>3. files' = onDisk /\ Diff(next)
    BY <2>1
  <2>4. pc = "prepare" /\ UNCHANGED <<hubSpecs, edits, client>>
    BY <1>5 DEF Prepare, pairingVars
  <2> HIDE DEF onDisk
  <2>5. ASSUME NEW s \in Services
        PROVE  /\ next[s] \in Config /\ next[s].files <= edits
               /\ child[s].live /\ s \in Removed(next) => hubSpecs[s] # child[s].cfg.spec
    <3>1. CASE specs[s] = 0
      <4>1. next[s] = NoConfig
        BY <3>1 DEF NextSet
      <4>2. child[s].live => hubSpecs[s] # child[s].cfg.spec
        BY <2>4, <3>1 DEF CauseRemains
      <4>. QED BY <1>t, <4>1, <4>2 DEF NoConfig, Config
    <3>2. CASE specs[s] # 0 /\ FilesReady(syncOk)
      <4>1. next[s] = [spec |-> specs[s], files |-> onDisk[s]]
        BY <3>2 DEF NextSet
      <4>2. s \notin Removed(next)
        <5>1. next[s].spec = specs[s]
          BY <4>1
        <5>. QED BY <3>2, <5>1, Zenon DEF Removed, Present
      <4>3. next[s] \in Config /\ next[s].files <= edits
        <5>1. specs[s] \in Nat /\ onDisk[s] \in Nat /\ onDisk[s] <= edits
          BY <1>t, <2>2
        <5>. QED BY <4>1, <5>1 DEF Config
      <4>. QED BY <4>2, <4>3
    <3>3. CASE specs[s] # 0 /\ ~FilesReady(syncOk)
      <4>1. next[s] = desired[s]
        BY <3>3 DEF NextSet
      <4>2. s \notin Removed(next)
        BY <4>1 DEF Removed, Present
      <4>. QED BY <1>t, <1>c, <4>1, <4>2
    <3>. QED BY <3>1, <3>2, <3>3
  <2>6. next \in [Services -> Config]
    BY <2>5 DEF NextSet
  <2> HIDE DEF next
  <2>. QED BY <2>2, <2>3, <2>4, <2>5, <2>6, CauseDiff
<1>6. CASE RemoveOld \/ RespawnChanged \/ Stop
  BY <1>6, <1>t, CauseMove DEF RemoveOld, RespawnChanged, Stop, StopAll
<1>7. CASE StartNew \/ ScanDead \/ Publish \/ Wake
  BY <1>7, <1>t, CauseMove DEF StartNew, ScanDead, Publish, Wake, LoopUnlessShutdown
<1>8. CASE RefreshLive
  BY <1>8, <1>t, CauseMove DEF RefreshLive
<1>9. CASE StartNext
  <2>1. Head(batch) \in Services /\ pc \in Loops /\ batch # <<>>
    BY <1>9, <1>t, ToSetTail DEF StartNext, Loops
  <2>. QED BY <1>9, <2>1, CauseStart DEF StartNext
<1>9a. CASE RecordStart
  <2>1. pc' \notin {"prepare", "remove"}
    BY <1>9a, TurnType DEF RecordStart, TypeOK, Loops
  <2>. QED BY <1>9a, <1>t, <2>1, CauseMove DEF RecordStart
<1>10. CASE ReviveNext
  <2>1. Head(batch) \in Services /\ pc \in Loops /\ batch # <<>>
    BY <1>10, <1>t, ToSetTail DEF ReviveNext, Loops
  <2>2. CASE UNCHANGED children /\ (TurnEnds \/ pc' = "publish")
    <3>1. pc' \notin {"prepare", "remove"}
      BY <2>1, <2>2, TurnType DEF TypeOK, Loops
    <3>. QED BY <1>10, <1>t, <2>2, <3>1, CauseMove DEF ReviveNext
  <2>3. CASE ProvisionAndStart(Head(batch))
    BY <1>10, <2>1, <2>3, CauseStart DEF ReviveNext
  <2>4. \/ UNCHANGED children /\ (TurnEnds \/ pc' = "publish")
        \/ ProvisionAndStart(Head(batch))
    BY <1>10 DEF ReviveNext
  <2>. QED BY <2>2, <2>3, <2>4
<1>11. ASSUME NEW s \in Services, EditSpec(s) \/ EditFiles(s) PROVE CauseRemains'
  <2>1. /\ UNCHANGED <<pc, specs, desired, files, child, removedNames, client>>
        /\ edits' = edits + 1
        /\ \A r \in Services : hubSpecs'[r] \in {hubSpecs[r], 0, edits + 1}
    BY <1>11, <1>t DEF EditSpec, EditFiles, pairingVars
  \* A live child's specification is neither 0 nor newer than the last edit.
  <2>2. ASSUME NEW r \in Services, child[r].live, hubSpecs[r] # child[r].cfg.spec
        PROVE  hubSpecs'[r] # child[r].cfg.spec
    <3>1. /\ child[r].cfg.spec # 0 /\ child[r].cfg.spec <= child[r].cfg.files
          /\ child[r].cfg.files <= edits
      BY <2>2 DEF CauseRemains, Safe, FilesFollowSpecs
    <3>2. child[r].cfg.spec \in Nat /\ child[r].cfg.files \in Nat
      BY <1>t DEF Child, Config
    <3>3. child[r].cfg.spec # edits + 1
      BY <1>t, <3>1, <3>2
    <3>. QED BY <2>1, <2>2, <3>1, <3>3
  <2>3. \A r \in Services : /\ desired[r].files \in Nat /\ files[r] \in Nat
                            /\ child[r].cfg.files \in Nat
    BY <1>t DEF Child, Config
  <2>4. \A r \in Services : /\ desired[r].files <= edits + 1 /\ files[r] <= edits + 1
                            /\ child[r].cfg.files <= edits + 1
    BY <1>t, <2>3 DEF CauseRemains
  <2>. QED BY <2>1, <2>2, <2>4 DEF CauseRemains
<1>12. ASSUME NEW s \in Services, ChildDies(s) \/ StrayExits(s) PROVE CauseRemains'
  BY <1>12, <1>t, CauseMove DEF ChildDies, StrayExits, pairingVars
<1>13. CASE HubMoves
  <2>1. client' = client
    BY <1>13 DEF HubMoves, HubStops, HubStarts, HubReplaced, PressRetry, CosmosChanges, gateVars
  <2>. QED BY <1>13, <1>t, <2>1, CauseMove DEF HubMoves
<1>14. CASE TimePasses
  BY <1>14, <1>t, CauseMove DEF TimePasses, Tick, opVars
<1>15. CASE SyncFallsDue \/ RequestShutdown \/ UNCHANGED vars
  BY <1>15, <1>t, CauseMove DEF SyncFallsDue, RequestShutdown, vars, opVars, pairingVars
<1>. QED
  BY <1>1, <1>2, <1>3, <1>4, <1>5, <1>6, <1>7, <1>8, <1>9, <1>9a, <1>10, <1>11, <1>12, <1>13, <1>14,
     <1>15
  DEF Next, Step, Environment, Halted

\* The conjunction the model checker checks is inductive.
THEOREM InductiveInvariant == Spec => []Inductive
<1>1. Init => Inductive
  BY TypeInit, SafeInit, CauseInit DEF Inductive
<1>2. Inductive /\ [Next]_vars => Inductive'
  BY TypeStep, SafeStep, CauseStep DEF Inductive
<1>. QED BY <1>1, <1>2, PTL DEF Spec

\* A start, or a diff, ends no child.
LEMMA NoneEnds ==
  ASSUME TypeOK, Safe, NEW s \in Services,
         \/ \E r \in Services : ProvisionAndStart(r)
         \/ pc \in {"fetch", "prepare"} /\ \E next : Diff(next)
  PROVE  child[s].live => child'[s].live
<1>1. CASE \E r \in Services : ProvisionAndStart(r)
  BY <1>1 DEF ProvisionAndStart, Spawn, children, TypeOK, OperatorTypeOK
<1>2. CASE pc \in {"fetch", "prepare"} /\ \E next : Diff(next)
  <2>1. PICK next : Diff(next)
    BY <1>2
  <2>2. supervised = Present(desired)
    BY <1>2 DEF Safe, SupervisedIsDesired
  <2>3. child[s].live => s \notin Added(next) \cup (Changed(next) \ supervised)
    BY <2>2 DEF Safe, ChildIsSupervised, Added, Changed
  <2>. QED BY <2>1, <2>3 DEF Diff
<1>. QED BY <1>1, <1>2

\* What a step that ends a child shows as its cause.
LEMMA EndsForCause ==
  ASSUME TypeOK, Safe, CauseRemains, [Next]_vars,
         NEW s \in Services, child[s].live, ~child'[s].live
  PROVE  \/ faults' # faults
         \/ s \in ToSet(changedNames)
         \/ [spec |-> hubSpecs[s], files |-> hubFiles[s]] # child[s].cfg
         \/ client = NoClient
         \/ pc = "stopping"
<1>t. /\ changedNames \in Seq(Services) /\ batch \in Seq(Services)
      /\ faults \in Nat /\ child \in [Services -> Child]
  BY DEF TypeOK, OperatorTypeOK
<1> USE DEF procState, children
<1>1. CASE Connect \/ Pair \/ FetchAnswered \/ StartNew \/ ScanDead \/ Publish \/ RefreshLive \/ Wake
  BY <1>1 DEF Connect, Pair, FetchAnswered, StartNew, ScanDead, Publish, RefreshLive, Wake
<1>2. CASE FetchUnpaired \/ FetchFails \/ Prepare
  <2>1. pc \in {"fetch", "prepare"} /\ \E next : Diff(next)
    BY <1>2, Zenon DEF FetchUnpaired, FetchFails, Prepare
  <2>. QED BY <2>1, NoneEnds
<1>3. CASE RemoveOld
  <2>1. pc = "remove" /\ s \in removedNames
    BY <1>3 DEF RemoveOld, StopAll
  <2>2. client = NoClient \/ hubSpecs[s] # child[s].cfg.spec
    BY <2>1 DEF CauseRemains
  <2>. QED BY <2>2
<1>4. CASE RespawnChanged
  <2> DEFINE count == CycleCount(Len(changedNames))
             cycle == SubSeq(changedNames, 1, count)
  <2>1. s \in ToSet(cycle)
    BY <1>4 DEF RespawnChanged, StopAll
  <2>2. count \in 0..Len(changedNames)
    BY <1>t, CycleCountBound
  <2> HIDE DEF count
  <2>. QED BY <1>t, <2>1, <2>2, ToSetDrain
<1>5. CASE StartNext \/ ReviveNext
  <2>1. Head(batch) \in Services
    BY <1>5, <1>t, ToSetTail DEF StartNext, ReviveNext
  <2>2. UNCHANGED child \/ ProvisionAndStart(Head(batch))
    BY <1>5 DEF StartNext, ReviveNext
  <2>. QED BY <2>1, <2>2, NoneEnds
<1>5a. CASE RecordStart
  BY <1>5a DEF RecordStart
<1>6. CASE Stop
  BY <1>6 DEF Stop
<1>7. ASSUME NEW r \in Services, EditSpec(r) \/ EditFiles(r) \/ StrayExits(r)
      PROVE  UNCHANGED child
  BY <1>7 DEF EditSpec, EditFiles, StrayExits
<1>8. ASSUME NEW r \in Services, ChildDies(r) PROVE faults' # faults
  BY <1>8, <1>t DEF ChildDies, Fail
<1>9. CASE HubMoves \/ TimePasses \/ SyncFallsDue \/ RequestShutdown \/ UNCHANGED vars
  BY <1>9 DEF HubMoves, TimePasses, SyncFallsDue, RequestShutdown, vars, opVars
<1>. QED
  BY <1>1, <1>2, <1>3, <1>4, <1>5, <1>5a, <1>6, <1>7, <1>8, <1>9
  DEF Next, Step, Environment, Halted

\* An unreachable hub or a failed sync stops nothing: a live child is stopped
\* only when the hub no longer wants what it runs, when a change of it was
\* queued, when the pairing was given up, or at the end.
THEOREM StopsHaveCauses == Spec => StopsOnlyWithCause
<1>1. TypeOK /\ Safe /\ CauseRemains /\ [Next]_vars =>
        [\A s \in Services :
           child[s].live /\ ~child'[s].live =>
             \/ faults' # faults
             \/ s \in ToSet(changedNames)
             \/ [spec |-> hubSpecs[s], files |-> hubFiles[s]] # child[s].cfg
             \/ client = NoClient
             \/ pc = "stopping"]_vars
  BY EndsForCause
<1>2. Inductive => TypeOK /\ Safe /\ CauseRemains
  BY DEF Inductive
<1>. QED BY <1>1, <1>2, InductiveInvariant, PTL DEF Spec, StopsOnlyWithCause

------------------------------------------------------------------------------
(* The loop implements Supervisor.  (That every service gets to run what   *)
(* is desired of it is liveness, and left to the model checker.)           *)

\* A service without a specification has no files in its configuration either,
\* so that the two ways of saying "not desired" agree.
NoSpecNoConfig == \A s \in Services : desired[s].spec = 0 => desired[s] = NoConfig

Running == [s \in Services |-> IF child[s].live THEN child[s].cfg ELSE NoConfig]

Implementing == TypeOK /\ Safe /\ NoSpecNoConfig

\* A step that leaves the desired set, the children and the queue of changes
\* alone, and does not end the operator, is not seen.
LEMMA Unseen ==
  ASSUME UNCHANGED <<desired, child, changedNames>>,
         (pc' = "stopped") = (pc = "stopped")
  PROVE  UNCHANGED Promise!vars
<1>1. ToSet(changedNames)' = ToSet(changedNames)
  BY DEF ToSet
<1>. QED BY <1>1 DEF Promise!vars

\* A diff changes what is wanted, and nothing that runs.
LEMMA DiffWants ==
  ASSUME Implementing, pc \in {"fetch", "prepare"},
         NEW next \in [Services -> Config],
         \A s \in Services : next[s].spec = 0 => next[s] = NoConfig,
         Diff(next)
  PROVE  [Promise!Next]_(Promise!vars) /\ NoSpecNoConfig'
<1> DEFINE fresh == Added(next) \cup (Changed(next) \ supervised)
<1>1. removedNames = {} /\ supervised = Present(desired)
  BY DEF Implementing, Safe, SupervisedIsDesired
<1>2. Changed(next) \cap supervised = Changed(next) /\ fresh = Added(next)
  BY <1>1 DEF Changed
<1>3. /\ desired' = next
      /\ child' = [s \in Services |-> IF s \in Added(next) THEN NoChild ELSE child[s]]
      /\ pc' = "remove"
  BY <1>2 DEF Diff
<1>4. ToSet(changedNames)' = ToSet(changedNames) \cup Changed(next)
  <2>1. PICK q \in SetToSeqs(Changed(next)) : changedNames' = changedNames \o q
    BY <1>2 DEF Diff
  <2>2. q \in Seq(Services) /\ ToSet(q) = Changed(next)
    BY Orders DEF Changed, Present
  <2>3. ToSet(changedNames') = ToSet(changedNames) \cup Changed(next)
    BY <2>1, <2>2, ToSetConcat DEF Implementing, TypeOK, OperatorTypeOK
  <2>4. ToSet(changedNames)' = ToSet(changedNames')
    BY DEF ToSet
  <2>. QED BY <2>3, <2>4
<1>5. Running' = Running
  <2>1. \A s \in Added(next) : ~child[s].live
    BY <1>1 DEF Implementing, Safe, ChildIsSupervised, Added, Present
  <2>. QED BY <1>3, <2>1 DEF Running, NoChild, Added, Present
<1>6. Changed(next) = {s \in Services : desired[s] # NoConfig /\ next[s] # NoConfig
                                          /\ next[s] # desired[s]}
  BY DEF Changed, Present, NoConfig, Implementing, NoSpecNoConfig
<1>7. NoSpecNoConfig'
  BY <1>3 DEF NoSpecNoConfig
<1>8. CASE next = desired
  <2>1. ToSet(changedNames)' = ToSet(changedNames)
    BY <1>4, <1>8 DEF Changed
  <2>. QED BY <1>3, <1>5, <1>7, <1>8, <2>1 DEF Promise!vars, Running
<1>9. CASE next # desired
  <2>1. Promise!ChangedTo(next) = Changed(next)
    BY <1>6 DEF Promise!ChangedTo
  <2>2. Promise!Want
    BY <1>3, <1>4, <1>5, <1>9, <2>1 DEF Promise!Want, Running
  <2>. QED BY <1>7, <2>2 DEF Promise!Next
<1>. QED BY <1>8, <1>9

\* Stopping children that are not desired, or whose change is taken off the
\* queue, is a stop.
LEMMA StopsAreStops ==
  ASSUME Implementing, pc \in {"remove", "changed"}, pc' # "stopped",
         NEW names, StopAll(names),
         \A s \in names \cap supervised : desired[s].spec = 0 \/ s \in ToSet(changedNames),
         ToSet(changedNames') \subseteq ToSet(changedNames),
         ToSet(changedNames) \subseteq ToSet(changedNames') \cup names,
         desired' = desired
  PROVE  Promise!Next
<1>1. \A s \in Services : child'[s] = IF s \in names \cap supervised THEN NoChild ELSE child[s]
  BY DEF StopAll
<1>2. ToSet(changedNames)' = ToSet(changedNames')
  BY DEF ToSet
<1>3. \A s \in Services : Running'[s] # Running[s] =>
        Running'[s] = NoConfig /\ (desired[s] = NoConfig \/ s \in ToSet(changedNames))
  BY <1>1 DEF Running, NoChild, Implementing, NoSpecNoConfig
<1>4. ToSet(changedNames) \subseteq Services
  BY DEF Implementing, TypeOK, OperatorTypeOK, ToSet
<1>5. \A s \in ToSet(changedNames) \ ToSet(changedNames') : Running'[s] = NoConfig
  BY <1>1, <1>4 DEF Running, NoChild, Implementing, Safe, ChildIsSupervised
<1>6. Promise!Stop
  BY <1>2, <1>3, <1>5 DEF Promise!Stop, Running
<1>. QED BY <1>6 DEF Promise!Next

\* A start gives the child what is desired by then.
LEMMA StartsAreStarts ==
  ASSUME Implementing, pc \in Loops, batch # <<>>,
         NEW s \in Services, ProvisionAndStart(s),
         UNCHANGED <<desired, changedNames>>
  PROVE  [Promise!Next]_(Promise!vars)
<1>1. supervised = Present(desired)
  BY DEF Implementing, Safe, SupervisedIsDesired, Loops
<1>2. ToSet(changedNames)' = ToSet(changedNames)
  BY DEF ToSet
<1>p. pc # "stopped" /\ pc' # "stopped"
  BY StartType DEF Implementing, TypeOK, Loops
<1>3. CASE UNCHANGED children
  BY <1>p, <1>2, <1>3, Unseen DEF children
<1>4. CASE s \in supervised /\ Spawn(s)
  <2>1. /\ s \in supervised
        /\ child' = [child EXCEPT ![s] = [live   |-> TRUE,
                                         cfg    |-> process[s].cfg,
                                         ticket |-> process[s].ticket]]
    BY <1>4 DEF Spawn
  <2>2. desired[s] # NoConfig /\ process[s].cfg = desired[s]
    BY <1>1, <2>1 DEF Present, NoConfig, Implementing, Safe, ProcessIsCurrent
  <2>3. child \in [Services -> Child]
    BY DEF Implementing, TypeOK, OperatorTypeOK
  <2>4. /\ child'[s].live /\ child'[s].cfg = desired[s]
        /\ \A t \in Services \ {s} : child'[t] = child[t]
    BY <2>1, <2>2, <2>3
  <2>5. Running' = [Running EXCEPT ![s] = desired[s]]
    BY <2>4 DEF Running
  <2>6. Promise!Start(s)
    BY <1>p, <1>2, <2>2, <2>5 DEF Promise!Start, Running
  <2>. QED BY <1>p, <2>6 DEF Promise!Next
<1>. QED BY <1>3, <1>4 DEF ProvisionAndStart

\* Every step of the operator is a step of the supervisor, or is not seen.
LEMMA StepImplements ==
  ASSUME Implementing, [Next]_vars
  PROVE  [Promise!Next]_(Promise!vars) /\ NoSpecNoConfig'
<1>s. /\ supervised = Present(desired) \cup removedNames
      /\ Present(desired) \cap removedNames = {}
      /\ removedNames # {} => pc = "remove"
  BY DEF Implementing, Safe, SupervisedIsDesired
<1>t. changedNames \in Seq(Services) /\ batch \in Seq(Services)
      /\ desired \in [Services -> Config] /\ child \in [Services -> Child]
      /\ specs \in [Services -> Nat] /\ files \in [Services -> Nat]
      /\ hubFiles \in [Services -> Nat]
  BY DEF Implementing, TypeOK, OperatorTypeOK
<1>d. desired' = desired => NoSpecNoConfig'
  BY DEF Implementing, NoSpecNoConfig
<1> USE DEF hubState, bounds, fetchState, queues, children, registry, procState
<1>1. CASE Connect \/ Pair \/ FetchAnswered \/ StartNew \/ ScanDead
  BY <1>1, <1>d, Unseen DEF Connect, Pair, FetchAnswered, StartNew, ScanDead
<1>2. CASE FetchUnpaired
  <2> DEFINE next == [s \in Services |-> NoConfig]
  <2>1. next \in [Services -> Config] /\ \A s \in Services : next[s].spec = 0 => next[s] = NoConfig
    BY DEF NoConfig, Config
  <2>2. pc = "fetch" /\ Diff(next)
    BY <1>2 DEF FetchUnpaired
  <2>. QED BY <2>1, <2>2, DiffWants
<1>3. CASE FetchFails
  <2>1. pc = "fetch" /\ Diff(desired)
    BY <1>3 DEF FetchFails, PollFailureKeeps
  <2>2. \A s \in Services : desired[s].spec = 0 => desired[s] = NoConfig
    BY DEF Implementing, NoSpecNoConfig
  <2>. QED BY <1>t, <2>1, <2>2, DiffWants
<1>4. CASE Prepare
  <2>1. PICK ready \in BOOLEAN, onDisk \in {files, hubFiles} : Diff(NextSet(ready, onDisk))
    <3>1. PICK syncOk \in BOOLEAN, authOk \in BOOLEAN :
            Diff(NextSet(FilesReady(syncOk), IF syncOk THEN hubFiles ELSE files))
      BY <1>4, Zenon DEF Prepare, NextSet
    <3>2. FilesReady(syncOk) \in BOOLEAN
      BY DEF FilesReady, Forced, Implementing, TypeOK, OperatorTypeOK
    <3>3. (IF syncOk THEN hubFiles ELSE files) \in {files, hubFiles}
      OBVIOUS
    <3>. QED BY <3>1, <3>2, <3>3
  <2>2. onDisk \in [Services -> Nat]
    BY <1>t
  <2>3. ASSUME NEW s \in Services
        PROVE  /\ NextSet(ready, onDisk)[s] \in Config
               /\ NextSet(ready, onDisk)[s].spec = 0 => NextSet(ready, onDisk)[s] = NoConfig
    <3>1. CASE specs[s] = 0
      BY <3>1 DEF NextSet, NoConfig, Config
    <3>2. CASE specs[s] # 0 /\ ready
      <4>1. NextSet(ready, onDisk)[s] = [spec |-> specs[s], files |-> onDisk[s]]
        BY <3>2 DEF NextSet
      <4>2. NextSet(ready, onDisk)[s].spec # 0 /\ NextSet(ready, onDisk)[s] \in Config
        <5>1. specs[s] \in Nat /\ onDisk[s] \in Nat
          BY <1>t, <2>2
        <5>2. [spec |-> specs[s], files |-> onDisk[s]] \in Config
          BY <5>1 DEF Config
        <5>3. [spec |-> specs[s], files |-> onDisk[s]].spec # 0
          BY <3>2
        <5>. QED BY <4>1, <5>2, <5>3, Zenon
      <4>. QED BY <4>2
    <3>3. CASE specs[s] # 0 /\ ~ready
      <4>1. NextSet(ready, onDisk)[s] = desired[s]
        BY <3>3 DEF NextSet
      <4>. QED BY <1>t, <4>1 DEF Implementing, NoSpecNoConfig
    <3>. QED BY <3>1, <3>2, <3>3
  <2>4. NextSet(ready, onDisk) \in [Services -> Config]
    BY <2>3 DEF NextSet
  <2>5. pc = "prepare"
    BY <1>4 DEF Prepare
  <2>. QED BY <2>1, <2>3, <2>4, <2>5, DiffWants
<1>5. CASE RemoveOld
  <2>1. /\ pc = "remove" /\ pc' = "changed" /\ StopAll(removedNames)
        /\ UNCHANGED <<desired, changedNames>>
    BY <1>5 DEF RemoveOld
  <2>2. \A s \in removedNames \cap supervised : desired[s].spec = 0
    BY <1>s DEF Implementing, TypeOK, OperatorTypeOK, Present
  <2>. QED BY <1>d, <2>1, <2>2, StopsAreStops
<1>6. CASE RespawnChanged
  <2> DEFINE count == CycleCount(Len(changedNames))
             cycle == SubSeq(changedNames, 1, count)
  <2>1. /\ pc = "changed" /\ StopAll(ToSet(cycle)) /\ pc' \in {"start", "restarting"}
        /\ changedNames' = SubSeq(changedNames, count + 1, Len(changedNames))
        /\ UNCHANGED desired
    BY <1>6 DEF RespawnChanged
  <2>2. ToSet(changedNames) = ToSet(cycle) \cup ToSet(changedNames')
    <3>1. count \in 0..Len(changedNames)
      BY <1>t, CycleCountBound
    <3>. HIDE DEF count
    <3>. QED BY <1>t, <2>1, <3>1, ToSetDrain
  <2>. QED BY <1>d, <2>1, <2>2, StopsAreStops
<1>7. CASE StartNext
  <2>1. /\ pc \in Loops /\ batch # <<>>
        /\ ProvisionAndStart(Head(batch)) /\ UNCHANGED <<desired, changedNames>>
        /\ Head(batch) \in Services
    BY <1>7, <1>t, ToSetTail DEF StartNext, Loops
  <2>. QED BY <1>d, <2>1, StartsAreStarts
<1>7a. CASE RecordStart
  <2>1. (pc' = "stopped") = (pc = "stopped")
    BY <1>7a, TurnType DEF RecordStart, Implementing, TypeOK, Loops
  <2>. QED BY <1>7a, <1>d, <2>1, Unseen DEF RecordStart
<1>8. CASE ReviveNext
  <2>1. /\ pc \in Loops /\ batch # <<>> /\ UNCHANGED <<desired, changedNames>>
        /\ Head(batch) \in Services
        /\ \/ UNCHANGED children /\ (TurnEnds \/ pc' = "publish")
           \/ ProvisionAndStart(Head(batch))
    BY <1>8, <1>t, ToSetTail DEF ReviveNext, Loops
  <2>2. CASE UNCHANGED children /\ (TurnEnds \/ pc' = "publish")
    <3>1. pc # "stopped" /\ pc' # "stopped"
      BY <2>1, <2>2, TurnType DEF Implementing, TypeOK, Loops
    <3>. QED BY <1>d, <2>1, <2>2, <3>1, Unseen
  <2>3. CASE ProvisionAndStart(Head(batch))
    BY <1>d, <2>1, <2>3, StartsAreStarts
  <2>. QED BY <2>1, <2>2, <2>3
<1>9. CASE Publish \/ RefreshLive \/ Wake
  BY <1>9, <1>d, Unseen DEF Publish, RefreshLive, Wake, LoopUnlessShutdown
<1>10. CASE Stop
  <2>1. /\ pc = "stopping" /\ pc' = "stopped" /\ StopAll(supervised)
        /\ UNCHANGED <<desired, changedNames>>
    BY <1>10 DEF Stop
  <2>2. Running' = [s \in Services |-> NoConfig]
    BY <2>1 DEF Running, StopAll, NoChild, Implementing, Safe, ChildIsSupervised
  <2>3. ToSet(changedNames)' = ToSet(changedNames)
    BY <2>1 DEF ToSet
  <2>4. Promise!Close
    BY <2>1, <2>2, <2>3 DEF Promise!Close, Running
  <2>. QED BY <1>d, <2>1, <2>4 DEF Promise!Next
<1>11. ASSUME NEW s \in Services, ChildDies(s)
       PROVE  [Promise!Next]_(Promise!vars) /\ NoSpecNoConfig'
  <2>1. /\ child[s].live /\ child' = [child EXCEPT ![s] = NoChild]
        /\ UNCHANGED <<pc, desired, changedNames>>
    BY <1>11 DEF ChildDies
  <2>2. pc # "stopped"
    BY <2>1 DEF Implementing, Safe, StoppedMeansNoChild
  <2>3. Running' = [Running EXCEPT ![s] = NoConfig]
    BY <1>t, <2>1 DEF Running, NoChild
  <2>4. ToSet(changedNames)' = ToSet(changedNames)
    BY <2>1 DEF ToSet
  <2>5. Promise!Die(s)
    BY <2>1, <2>3, <2>4 DEF Promise!Die, Running
  <2>. QED BY <1>d, <2>1, <2>2, <2>5 DEF Promise!Next
<1>12. ASSUME NEW s \in Services, EditSpec(s) \/ EditFiles(s) \/ StrayExits(s)
       PROVE  [Promise!Next]_(Promise!vars) /\ NoSpecNoConfig'
  BY <1>12, <1>d, Unseen DEF EditSpec, EditFiles, StrayExits
<1>13. CASE HubMoves \/ TimePasses \/ SyncFallsDue \/ RequestShutdown \/ UNCHANGED vars
  BY <1>13, <1>d, Unseen DEF HubMoves, TimePasses, SyncFallsDue, RequestShutdown, vars, opVars
<1>. QED
  BY <1>1, <1>2, <1>3, <1>4, <1>5, <1>6, <1>7, <1>7a, <1>8, <1>9, <1>10, <1>11, <1>12, <1>13
  DEF Next, Step, Environment, Halted

\* The supervision loop does what a Supervisor may do, and nothing else: every
\* child it starts gets what is desired by then, every child it stops is
\* stopped for a cause, no change is forgotten, nothing happens after run()
\* returned.
THEOREM LoopIsASupervisor == Spec => Promise!Spec
<1>1. Init => Promise!Init /\ NoSpecNoConfig
  <2> SUFFICES ASSUME Init PROVE Promise!Init /\ NoSpecNoConfig
    OBVIOUS
  <2>1. ToSet(changedNames) = {}
    BY DEF Init, OperatorInit, ToSet
  <2>. QED BY <2>1 DEF Init, OperatorInit, Promise!Init, NoSpecNoConfig, NoChild, NoConfig
<1>2. TypeOK /\ Safe /\ NoSpecNoConfig /\ [Next]_vars
        => [Promise!Next]_(Promise!vars) /\ NoSpecNoConfig'
  BY StepImplements DEF Implementing
<1>. QED BY <1>1, <1>2, SafetyInvariant, PTL DEF Spec, Promise!Spec
==============================================================================
