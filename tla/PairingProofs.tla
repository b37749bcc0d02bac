---------------------------- MODULE PairingProofs ----------------------------
(***************************************************************************)
(* Theorems about how the app pairs with a hub, for any containers, sites  *)
(* and bounds: about the gate (Pairing), and after it about the tickets    *)
(* and keys of enrolment (Enrollment).  The two are separate systems.      *)
(***************************************************************************)
EXTENDS Pairing, Enrollment, WellFoundedInduction, TLAPS

------------------------------------------------------------------------------
(* Numbers.                                                                *)

\* A set of numbers has a least one.
LEMMA Least ==
  ASSUME NEW S \in SUBSET Nat, S # {}
  PROVE  Min(S) \in S /\ \A s \in S : Min(S) <= s
<1> DEFINE less == {ss \in Nat \X Nat : ss[1] < ss[2]}
<1>1. IsWellFoundedOn(less, Nat)
  BY NatLessThanWellFounded DEF OpToRel
<1>2. ASSUME NEW x \in Nat, NEW y \in Nat, y < x
      PROVE  <<y, x>> \in less
  <2> DEFINE p == <<y, x>>
  <2>1. p \in Nat \X Nat
    OBVIOUS
  <2>2. p[1] < p[2]
    BY <1>2
  <2> HIDE DEF p
  <2>3. p \in less
    BY <2>1, <2>2
  <2>. QED BY <2>3 DEF p
<1> HIDE DEF less
<1>3. \E x \in S : \A y \in S : ~(<<y, x>> \in less)
  BY <1>1, WFMin
<1>4. \E x \in S : \A y \in S : x <= y
  <2>1. PICK x \in S : \A y \in S : ~(<<y, x>> \in less)
    BY <1>3
  <2>2. \A y \in S : ~(y < x)
    BY <1>2, <2>1
  <2>. QED BY <2>2
<1>. QED BY <1>4 DEF Min

\* Division rounds down.
LEMMA Division ==
  ASSUME NEW a \in Nat, NEW b \in Nat \ {0}
  PROVE  /\ a \div b \in Nat
         /\ b * (a \div b) <= a /\ a < b * (a \div b) + b
OBVIOUS

\* The number of whole intervals is found by multiplication.
LEMMA Whole ==
  ASSUME NEW a \in Nat, NEW b \in Nat \ {0}, NEW q \in Nat
  PROVE  q <= a \div b <=> b * q <= a
OBVIOUS

\* Time that passes by the interval is counted by it.
LEMMA OneMore ==
  ASSUME NEW a \in Nat, NEW b \in Nat \ {0}
  PROVE  (a + b) \div b = (a \div b) + 1
OBVIOUS

------------------------------------------------------------------------------
(* What the words say of the time.                                         *)

\* The steps of the scale do not overlap, and go on for 68 years.
LEMMA OneStep ==
  ASSUME NEW s \in Nat, s < Long
  PROVE  \E u \in Scale : /\ u.from <= s /\ s < u.below
                          /\ \A v \in Scale : v.from <= s /\ s < v.below => v = u
<1>1. \E u \in Scale : u.from <= s /\ s < u.below
  BY DEF Scale, Long
<1>2. \A u, v \in Scale : u = v \/ u.below <= v.from \/ v.below <= u.from
  BY DEF Scale
<1>3. \A u \in Scale : u.from \in Nat /\ u.below \in Nat
  BY DEF Scale
<1>. QED BY <1>1, <1>2, <1>3

\* Read from the words, a container that runs for less than a minute does so for
\* exactly as long as it does, and another one for a minute at least.
LEMMA Words ==
  ASSUME NEW s \in Nat, s < Long
  PROVE  /\ Uptime(HumanDuration(s)) \in Nat
         /\ s < 60 => Uptime(HumanDuration(s)) = s
         /\ s >= 60 => Uptime(HumanDuration(s)) >= 60
<1> DEFINE step  == CHOOSE u \in Scale : u.from <= s /\ s < u.below
           count == IF step.unit = "hour" THEN (s + 1800) \div 3600 ELSE s \div step.size
<1>1. step \in Scale /\ step.from <= s /\ s < step.below
  BY OneStep
<1>2. HumanDuration(s) =
        [count |-> IF s = 0 THEN LessThanA
                   ELSE IF count = 1 /\ step.unit \in {"minute", "hour"} THEN About ELSE count,
         unit  |-> step.unit]
  BY DEF HumanDuration
<1> HIDE DEF step
<1>3. CASE s < 60
  <2>1. step.unit = "second" /\ step.size = 1
    BY <1>1, <1>3 DEF Scale
  <2>2. count = s
    BY <2>1
  <2>3. HumanDuration(s).unit = "second" /\ HumanDuration(s).count = IF s = 0 THEN LessThanA ELSE s
    BY <1>2, <2>1, <2>2
  <2>. QED BY <1>3, <2>3 DEF Uptime, LessThanA, About, Units
<1>4. CASE s >= 60
  <2>1. step.unit # "second" /\ step.unit \in {"minute", "hour", "day", "week", "month", "year"}
    BY <1>1, <1>4 DEF Scale
  <2>2. count \in Nat /\ count >= 1
    <3>1. CASE step.unit = "hour"
      <4>1. s >= 3600
        BY <1>1, <3>1 DEF Scale
      <4>. QED BY <3>1, <4>1
    <3>2. CASE step.unit # "hour"
      <4>1. step.size \in Nat \ {0} /\ step.size <= step.from
        BY <1>1, <2>1, <3>2 DEF Scale
      <4>2. step.size * 1 <= s
        BY <1>1, <4>1 DEF Scale
      <4>3. s \div step.size \in Nat /\ 1 <= s \div step.size
        BY <4>1, <4>2, Division, Whole
      <4>. QED BY <3>2, <4>3
    <3>. QED BY <3>1, <3>2
  <2> HIDE DEF count
  <2>3. /\ HumanDuration(s).unit = step.unit
        /\ HumanDuration(s).count \in {About, count} /\ HumanDuration(s).count # LessThanA
    BY <1>2, <1>4, <2>2 DEF LessThanA, About
  <2>4. CASE step.unit = "year"
    BY <1>4, <2>3, <2>4 DEF Uptime, Units, Long
  <2>5. CASE step.unit # "year"
    <3> DEFINE n == IF HumanDuration(s).count = About THEN 1 ELSE HumanDuration(s).count
    <3>1. n \in Nat /\ n >= 1
      BY <2>2, <2>3 DEF About
    <3>2. step.unit \in DOMAIN Units /\ Units[step.unit] \in Nat /\ Units[step.unit] >= 60
      BY <2>1, <2>5 DEF Units
    <3>3. Uptime(HumanDuration(s)) = n * Units[step.unit]
      BY <2>3, <3>2 DEF Uptime
    <3> HIDE DEF n
    <3>4. ASSUME NEW a \in Nat, a >= 1, NEW b \in Nat, b >= 60 PROVE a * b \in Nat /\ a * b >= 60
      BY <3>4
    <3>. QED BY <1>4, <3>1, <3>2, <3>3, <3>4
  <2>. QED BY <2>4, <2>5
<1>. QED BY <1>3, <1>4

------------------------------------------------------------------------------
(* The uptime in intervals.                                                *)

\* The intervals are counted up to the warm-up.
LEMMA Counting ==
  ASSUME NEW s \in Nat
  PROVE  /\ Ticks(s) \in 0..WarmupTicks
         /\ Ticks(s) = WarmupTicks <=> s >= WarmupTicks * Interval
         /\ Ticks(s) < WarmupTicks => Ticks(s) = s \div Interval
<1> DEFINE n == s \div Interval
<1>1. WarmupTicks \in Nat \ {0} /\ Interval \in Nat \ {0} /\ n \in Nat
  BY PairingAssumption, ContainersAssumption, Division
<1>2. WarmupTicks <= n <=> s >= WarmupTicks * Interval
  <2>1. WarmupTicks <= n <=> Interval * WarmupTicks <= s
    BY <1>1, Whole
  <2>2. Interval * WarmupTicks = WarmupTicks * Interval /\ Interval * WarmupTicks \in Nat
    BY <1>1
  <2>. QED BY <2>1, <2>2
<1> HIDE DEF n
<1>3. Ticks(s) \in {WarmupTicks, n} /\ Ticks(s) <= WarmupTicks /\ Ticks(s) <= n
  <2>1. {WarmupTicks, n} \in SUBSET Nat /\ {WarmupTicks, n} # {}
    BY <1>1
  <2>. QED BY <2>1, Least DEF Ticks, n
<1>4. WarmupTicks <= n <=> Ticks(s) = WarmupTicks
  BY <1>1, <1>3
<1>5. Ticks(s) \in 0..WarmupTicks /\ (Ticks(s) < WarmupTicks => Ticks(s) = n)
  BY <1>1, <1>3
<1>. QED BY <1>2, <1>4, <1>5 DEF n

\* Nothing is as long as no interval; a minute is longer than the warm-up.
LEMMA Limits ==
  /\ Ticks(0) = 0
  /\ \A s \in Nat : s >= 60 => Ticks(s) = WarmupTicks
<1>1. WarmupTicks \in Nat \ {0} /\ Interval \in Nat \ {0} /\ WarmupTicks * Interval \in Nat
      /\ WarmupTicks * Interval <= 60
  BY PairingAssumption, ContainersAssumption, GateAssumption
<1>2. Ticks(0) = 0
  <2>1. 0 \div Interval = 0
    BY <1>1
  <2>2. WarmupTicks * Interval > 0
    BY <1>1
  <2>. QED BY <1>1, <2>1, <2>2, Counting
<1>3. ASSUME NEW s \in Nat, s >= 60 PROVE Ticks(s) = WarmupTicks
  BY <1>1, <1>3, Counting
<1>. QED BY <1>2, <1>3

\* Who runs for longer has at least as many intervals.
LEMMA Longer ==
  ASSUME NEW r \in Nat, NEW s \in Nat, r <= s
  PROVE  Ticks(r) <= Ticks(s)
<1>1. WarmupTicks \in Nat \ {0} /\ Interval \in Nat \ {0} /\ WarmupTicks * Interval \in Nat
  BY PairingAssumption, ContainersAssumption
<1>2. r \div Interval <= s \div Interval
  <2>1. r \div Interval \in Nat /\ Interval * (r \div Interval) <= r
    BY <1>1, Division
  <2>2. Interval * (r \div Interval) <= s
    BY <1>1, <2>1
  <2>. QED BY <1>1, <2>1, <2>2, Whole
<1>3. /\ Ticks(r) \in 0..WarmupTicks /\ Ticks(s) \in 0..WarmupTicks
      /\ r \div Interval \in Nat /\ s \div Interval \in Nat
  BY <1>1, Counting, Division
<1>4. CASE Ticks(s) = WarmupTicks
  BY <1>1, <1>3, <1>4
<1>5. CASE Ticks(s) # WarmupTicks
  <2>1. Ticks(s) < WarmupTicks /\ Ticks(r) < WarmupTicks
    BY <1>1, <1>3, <1>5, Counting
  <2>. QED BY <1>2, <2>1, Counting
<1>. QED BY <1>4, <1>5

\* An interval adds one until the warm-up is over.
LEMMA Later ==
  ASSUME NEW s \in Nat
  PROVE  Ticks(s + Interval) = IF Ticks(s) < WarmupTicks THEN Ticks(s) + 1 ELSE Ticks(s)
<1>1. WarmupTicks \in Nat \ {0} /\ Interval \in Nat \ {0} /\ WarmupTicks * Interval \in Nat
      /\ s + Interval \in Nat
  BY PairingAssumption, ContainersAssumption
<1>2. (s + Interval) \div Interval = (s \div Interval) + 1 /\ s \div Interval \in Nat
  BY <1>1, OneMore, Division
<1>3. Ticks(s) \in 0..WarmupTicks /\ Ticks(s + Interval) \in 0..WarmupTicks
  BY <1>1, Counting
<1>4. CASE Ticks(s) = WarmupTicks
  <2>1. Ticks(s + Interval) = WarmupTicks
    BY <1>1, <1>4, Counting
  <2>. QED BY <1>1, <1>4, <2>1
<1>5. CASE Ticks(s) < WarmupTicks
  <2>1. Ticks(s) = s \div Interval
    BY <1>5, Counting
  <2>2. CASE Ticks(s + Interval) < WarmupTicks
    BY <1>1, <1>2, <1>5, <2>1, <2>2, Counting
  <2>3. CASE Ticks(s + Interval) = WarmupTicks
    <3>1. WarmupTicks <= (s \div Interval) + 1
      <4>1. Interval * WarmupTicks <= s + Interval
        <5>1. s + Interval >= WarmupTicks * Interval
          BY <1>1, <2>3, Counting
        <5>2. WarmupTicks * Interval = Interval * WarmupTicks
          BY <1>1
        <5>. QED BY <1>1, <5>1, <5>2
      <4>. QED BY <1>1, <1>2, <4>1, Whole
    <3>. QED BY <1>1, <1>2, <1>5, <2>1, <2>3, <3>1
  <2>. QED BY <1>1, <1>3, <2>2, <2>3
<1>. QED BY <1>1, <1>3, <1>4, <1>5

------------------------------------------------------------------------------
(* What is read of the containers.                                         *)

PresentOnes == {c \in Own : containers[c] # NoContainer}
Seconds == {containers[c].for : c \in RunningOnes}

\* A container counts as running exactly when it runs.
LEMMA RunsAsItSays ==
  ASSUME NEW c \in Container, c.does # "absent"
  PROVE  RunState(StatusOf(c)) = "Running" <=> c.does = "running"
<1>. QED BY DEF RunState, StatusOf, Says, Container

\* The readiness, without the words.
LEMMA Reading ==
  ContainersTypeOK =>
    /\ Read.state = IF ~daemon THEN "docker_unavailable"
                    ELSE IF PresentOnes = {} THEN "no_containers"
                    ELSE IF RunningOnes = {} THEN "not_running" ELSE "up"
    /\ Read.uptime \in Nat
    /\ Read.state # "up" => Read.uptime = 0
    /\ Read.state = "up" => Ticks(Read.uptime) = Ticks(Min(Seconds))
    /\ Seconds \in SUBSET Nat
    /\ RunningOnes # {} => Seconds # {}
    /\ RunningOnes \subseteq PresentOnes
<1> SUFFICES ASSUME ContainersTypeOK
             PROVE  /\ Read.state = IF ~daemon THEN "docker_unavailable"
                                    ELSE IF PresentOnes = {} THEN "no_containers"
                                    ELSE IF RunningOnes = {} THEN "not_running" ELSE "up"
                    /\ Read.uptime \in Nat
                    /\ Read.state # "up" => Read.uptime = 0
                    /\ Read.state = "up" => Ticks(Read.uptime) = Ticks(Min(Seconds))
                    /\ Seconds \in SUBSET Nat
                    /\ RunningOnes # {} => Seconds # {}
                    /\ RunningOnes \subseteq PresentOnes
  OBVIOUS
<1> DEFINE Said(c)  == Uptime(HumanDuration(containers[c].for))
           uptimes  == {Uptime(status.up) : status \in {s \in Snapshot : RunState(s) = "Running"}}
<1>0. Long \in Nat
  BY DEF Long
<1>1. \A c \in Own : containers[c] \in Container
  BY DEF ContainersTypeOK
<1>2. Snapshot = {StatusOf(containers[c]) : c \in PresentOnes}
  <2>1. Labelled({k \in Own \cup Others : containers[k] # NoContainer}) = PresentOnes
    BY GateAssumption DEF Labelled, PresentOnes
  <2>. QED BY <2>1 DEF Snapshot
<1>3. RunningOnes \subseteq PresentOnes /\ PresentOnes \subseteq Own
  BY DEF RunningOnes, PresentOnes, IsRunning, NoContainer
<1>4. \A c \in PresentOnes : RunState(StatusOf(containers[c])) = "Running" <=> c \in RunningOnes
  <2>1. \A c \in PresentOnes : containers[c] \in Container /\ containers[c].does # "absent"
    BY <1>1, <1>3 DEF ContainersTypeOK, PresentOnes
  <2>. QED BY <1>3, <2>1, RunsAsItSays DEF RunningOnes, IsRunning
<1>5. \A c \in RunningOnes : /\ containers[c].for \in Nat /\ containers[c].for < Long
                             /\ StatusOf(containers[c]).up = HumanDuration(containers[c].for)
  BY <1>0, <1>1, <1>3 DEF Container, StatusOf
<1>6. uptimes = {Said(c) : c \in RunningOnes}
  <2>1. {s \in Snapshot : RunState(s) = "Running"} = {StatusOf(containers[c]) : c \in RunningOnes}
    BY <1>2, <1>3, <1>4
  <2>. QED BY <1>5, <2>1
<1>7. \A c \in RunningOnes :
        /\ Said(c) \in Nat
        /\ containers[c].for < 60 => Said(c) = containers[c].for
        /\ containers[c].for >= 60 => Said(c) >= 60
  BY <1>5, Words
<1>8. Read = [state  |-> IF ~daemon THEN "docker_unavailable"
                         ELSE IF Snapshot = {} THEN "no_containers"
                         ELSE IF uptimes = {} THEN "not_running" ELSE "up",
              uptime |-> IF ~daemon \/ uptimes = {} THEN 0 ELSE Min(uptimes)]
  BY DEF Read, CosmosReadiness
<1>9. (Snapshot = {} <=> PresentOnes = {}) /\ (uptimes = {} <=> RunningOnes = {})
  BY <1>2, <1>6
<1>10. uptimes \in SUBSET Nat /\ Seconds \in SUBSET Nat /\ (RunningOnes # {} => Seconds # {})
  BY <1>5, <1>6, <1>7 DEF Seconds
<1>11. RunningOnes # {} => Ticks(Min(uptimes)) = Ticks(Min(Seconds))
  <2> SUFFICES ASSUME RunningOnes # {} PROVE Ticks(Min(uptimes)) = Ticks(Min(Seconds))
    OBVIOUS
  <2>1. /\ Min(uptimes) \in uptimes /\ \A t \in uptimes : Min(uptimes) <= t
        /\ Min(Seconds) \in Seconds /\ \A t \in Seconds : Min(Seconds) <= t
    <3> HIDE DEF uptimes
    <3>. QED BY <1>9, <1>10, Least
  <2>2. PICK c \in RunningOnes : Min(uptimes) = Said(c)
    BY <1>6, <2>1
  <2>3. PICK d \in RunningOnes : Min(Seconds) = containers[d].for
    BY <2>1 DEF Seconds
  <2> HIDE DEF uptimes, Said
  <2>4. Said(c) <= Said(d) /\ containers[d].for <= containers[c].for
    <3>1. Said(d) \in uptimes /\ containers[c].for \in Seconds
      BY <1>6 DEF Seconds
    <3>. QED BY <2>1, <2>2, <2>3, <3>1
  <2>5. \A e \in RunningOnes : Ticks(Said(e)) = Ticks(containers[e].for)
    BY <1>5, <1>7, Limits
  <2>6. Ticks(Said(c)) <= Ticks(Said(d)) /\ Ticks(containers[d].for) <= Ticks(containers[c].for)
    BY <1>5, <1>7, <2>4, Longer
  <2>7. Ticks(Said(c)) \in Nat /\ Ticks(Said(d)) \in Nat
    BY <1>7, Counting
  <2>. QED BY <2>2, <2>3, <2>5, <2>6, <2>7
<1>12. uptimes # {} => Min(uptimes) \in Nat
  <2> HIDE DEF uptimes
  <2>. QED BY <1>10, Least
<1> HIDE DEF uptimes
<1>. QED BY <1>3, <1>8, <1>9, <1>10, <1>11, <1>12

------------------------------------------------------------------------------
(* What the containers do.                                                 *)

LEMMA Numbers ==
  /\ Long \in Nat /\ Long > 200
  /\ WarmupTicks \in Nat \ {0} /\ Interval \in 1..60
  /\ Ages \in [Own \cup Others -> Nat] /\ \A c \in Own \cup Others : Ages[c] < Long
<1>1. Long \in Nat /\ Long > 200
  BY DEF Long
<1>2. ASSUME NEW w \in Nat \ {0}, NEW i \in Nat \ {0}, w * i <= 60 PROVE i \in 1..60
  BY <1>2
<1>. QED BY <1>1, <1>2, PairingAssumption, ContainersAssumption, GateAssumption

LEMMA ContainersInitType == ContainersInit => ContainersTypeOK
<1> SUFFICES ASSUME ContainersInit PROVE ContainersTypeOK
  OBVIOUS
<1>1. PICK all \in {"absent", "exited", "running"} :
        containers = [c \in Own \cup Others |->
                        IF c \in Others \/ all = "running" THEN Running(Ages[c])
                        ELSE [does |-> all, for |-> 0]]
  BY DEF ContainersInit
<1>2. \A c \in Own \cup Others : Running(Ages[c]) \in Container /\ Running(Ages[c]).does = "running"
  <2>1. \A c \in Own \cup Others : Ages[c] \in 0..(Long - 1)
    BY Numbers
  <2>. QED BY <2>1 DEF Running, Container
<1>3. all # "running" => [does |-> all, for |-> 0] \in Container
  BY Numbers DEF Container
<1>4. all = "absent" => [does |-> all, for |-> 0] = NoContainer
  BY DEF NoContainer
<1>. QED BY <1>1, <1>2, <1>3, <1>4 DEF ContainersInit, ContainersTypeOK

LEMMA TurnsType ==
  ASSUME ContainersTypeOK, NEW c \in Own, NEW what \in {"absent", "exited", "running", "restarting", "paused"},
         NEW s \in 0..(Long - 1), what = "absent" => s = 0, Turns(c, what, s)
  PROVE  ContainersTypeOK'
<1>1. [does |-> what, for |-> s] \in Container
  BY DEF Container
<1>2. what = "absent" => [does |-> what, for |-> s] = NoContainer
  BY DEF NoContainer
<1>3. [does |-> what, for |-> s].does = what
  OBVIOUS
<1>. QED BY <1>1, <1>2, <1>3 DEF Turns, ContainersTypeOK

LEMMA MoveType ==
  ASSUME ContainersTypeOK, ContainersMove
  PROVE  ContainersTypeOK'
<1>0. 0 \in 0..(Long - 1) /\ \A c \in Own : containers[c].for \in 0..(Long - 1)
  BY Numbers DEF ContainersTypeOK, Container
<1>1. ASSUME NEW c \in Own,
             \/ StartContainer(c) \/ StopContainer(c) \/ CrashContainer(c)
             \/ RemoveContainer(c) \/ PauseContainer(c) \/ UnpauseContainer(c)
      PROVE  ContainersTypeOK'
  <2>1. \E what \in {"absent", "exited", "running", "restarting", "paused"}, s \in 0..(Long - 1) :
          Turns(c, what, s) /\ (what = "absent" => s = 0)
    BY <1>0, <1>1
    DEF StartContainer, StopContainer, CrashContainer, RemoveContainer, PauseContainer,
        UnpauseContainer
  <2>. QED BY <2>1, TurnsType
<1>2. CASE DaemonChanges
  <2>1. daemon' \in BOOLEAN
    BY <1>2 DEF DaemonChanges, ContainersTypeOK
  <2>2. CASE UNCHANGED containers
    BY <2>1, <2>2 DEF ContainersTypeOK
  <2>3. CASE containers' = [c \in DOMAIN containers |->
                              IF c \in Own /\ IsRunning(c) THEN Running(0) ELSE containers[c]]
    <3>1. Running(0) \in Container /\ Running(0).does = "running"
      BY <1>0 DEF Running, Container
    <3>. QED BY <2>1, <2>3, <3>1 DEF ContainersTypeOK
  <2>. QED BY <1>2, <2>2, <2>3 DEF DaemonChanges
<1>. QED BY <1>1, <1>2 DEF ContainersMove

\* An interval makes those younger that a minute older, and changes nothing else.
LEMMA Aging ==
  ASSUME ContainersTypeOK, ContainersAge
  PROVE  /\ ContainersTypeOK' /\ daemon' = daemon
         /\ RunningOnes' = RunningOnes /\ PresentOnes' = PresentOnes
         /\ \A c \in RunningOnes :
              containers'[c].for = IF containers[c].for < 60 THEN containers[c].for + Interval
                                   ELSE containers[c].for
<1>1. /\ containers' = [c \in Own \cup Others |->
                          IF IsRunning(c) /\ containers[c].for < 60
                          THEN Running(containers[c].for + Interval) ELSE containers[c]]
      /\ daemon' = daemon
  BY DEF ContainersAge, ContainersTypeOK
<1>2. ASSUME NEW c \in Own \cup Others, IsRunning(c), containers[c].for < 60
      PROVE  Running(containers[c].for + Interval) \in Container
  <2>1. containers[c].for \in Nat
    BY Numbers DEF ContainersTypeOK, Container
  <2>2. containers[c].for + Interval \in 0..(Long - 1)
    BY <1>2, <2>1, Numbers
  <2>. QED BY <2>2 DEF Running, Container
<1>3. \A s : Running(s).does = "running" /\ Running(s).for = s /\ Running(s) # NoContainer
  BY DEF Running, NoContainer
<1>4. \A c \in Own \cup Others :
        /\ containers'[c] \in Container
        /\ containers'[c].does = containers[c].does
        /\ containers[c].does = "absent" => containers'[c] = containers[c]
        /\ containers'[c] # NoContainer <=> containers[c] # NoContainer
  BY <1>1, <1>2, <1>3 DEF IsRunning, ContainersTypeOK, NoContainer
<1>5. ContainersTypeOK'
  BY <1>1, <1>4 DEF ContainersTypeOK
<1>6. RunningOnes' = RunningOnes /\ PresentOnes' = PresentOnes
  BY <1>4 DEF RunningOnes, PresentOnes, IsRunning
<1>. QED BY <1>1, <1>3, <1>5, <1>6 DEF RunningOnes

\* The youngest that runs ages by an interval, until the warm-up is over.
LEMMA AgingCounts ==
  ASSUME ContainersTypeOK, ContainersAge, RunningOnes # {}
  PROVE  Ticks(Min(Seconds')) = IF Ticks(Min(Seconds)) < WarmupTicks
                                THEN Ticks(Min(Seconds)) + 1 ELSE Ticks(Min(Seconds))
<1> DEFINE young == Min(Seconds)
           older == Min(Seconds')
           grown(c) == containers'[c].for
<1>1. /\ Seconds \in SUBSET Nat /\ Seconds # {}
      /\ young \in Seconds /\ \A s \in Seconds : young <= s
  BY Reading, Least
<1>2. Seconds' = {grown(c) : c \in RunningOnes}
  BY Aging DEF Seconds
<1>3. \A c \in RunningOnes :
        /\ containers[c].for \in Nat /\ containers[c].for \in Seconds
        /\ grown(c) = IF containers[c].for < 60 THEN containers[c].for + Interval
                      ELSE containers[c].for
        /\ grown(c) \in Nat
  <2>1. \A c \in RunningOnes : containers[c].for \in Nat /\ containers[c].for \in Seconds
    BY <1>1 DEF Seconds
  <2>2. \A c \in RunningOnes :
          grown(c) = IF containers[c].for < 60 THEN containers[c].for + Interval
                     ELSE containers[c].for
    BY Aging
  <2> HIDE DEF grown
  <2>. QED BY <2>1, <2>2, Numbers
<1>4. /\ Seconds' \in SUBSET Nat /\ Seconds' # {}
      /\ older \in Seconds' /\ \A s \in Seconds' : older <= s
  <2>1. Seconds' \in SUBSET Nat /\ Seconds' # {}
    BY <1>2, <1>3
  <2>. QED BY <2>1, Least
<1>5. PICK c \in RunningOnes : young = containers[c].for
  BY <1>1 DEF Seconds
<1>6. PICK d \in RunningOnes : older = grown(d)
  BY <1>2, <1>4
<1>7. older <= grown(c) /\ young <= containers[d].for /\ young \in Nat /\ older \in Nat
  BY <1>1, <1>2, <1>3, <1>4
<1> HIDE DEF young, older, grown
<1>8. CASE young < 60 /\ older >= 60
  <2>1. young + Interval \in Nat /\ young + Interval >= 60
    BY <1>3, <1>5, <1>7, <1>8, Numbers
  <2>2. Ticks(older) = WarmupTicks /\ Ticks(young + Interval) = WarmupTicks
    BY <1>7, <1>8, <2>1, Limits
  <2>3. Ticks(young) \in 0..WarmupTicks
    BY <1>7, Counting
  <2>. QED BY <1>7, <2>2, <2>3, Later, Numbers DEF young, older
<1>9. CASE young < 60 /\ older < 60
  <2>1. older = young + Interval
    BY <1>3, <1>5, <1>6, <1>7, <1>9, Numbers
  <2>. QED BY <1>7, <2>1, Later DEF young, older
<1>10. CASE young >= 60
  <2>1. older >= 60
    BY <1>3, <1>6, <1>7, <1>10
  <2>. QED BY <1>7, <1>10, <2>1, Limits, Numbers DEF young, older
<1>. QED BY <1>7, <1>8, <1>9, <1>10

------------------------------------------------------------------------------
(* The gate.                                                               *)

\* What the gate knows of COSMOS is what is read of the containers.
GateInvariant ==
  /\ PairingTypeOK
  /\ ContainersTypeOK
  /\ cosmos = Read.state
  /\ uptime = Ticks(Read.uptime)

\* BridgePairing keeps its types.
LEMMA PairingType == ASSUME PairingTypeOK, PairingNext PROVE PairingTypeOK'
<1> USE PairingAssumption DEF PairingTypeOK, cosmosVars, hubVars, gateVars, NoClient
<1>1. CASE CheckCosmos
  <2>1. Held \in 0..hub /\ Tried \in 0..MaxAttempts /\ Spent \in 0..MaxAttempts
    BY DEF Held, Tried, Spent, MayAttempt
  <2>2. client' \in 0..hub /\ attempts' \in 0..MaxAttempts
    BY <1>1, <2>1 DEF CheckCosmos
  <2>3. retry' \in BOOLEAN /\ checkDue' \in BOOLEAN /\ connecting' \in BOOLEAN
    BY <1>1 DEF CheckCosmos, Settled, MayAttempt
  <2>4. UNCHANGED <<cosmos, uptime, changes, serving, hub, outages, retries>>
    BY <1>1 DEF CheckCosmos
  <2>. QED BY <2>2, <2>3, <2>4
<1>2. CASE ConnectorReturns
  <2>1. client' \in 0..hub /\ connecting' = FALSE
    BY <1>2 DEF ConnectorReturns, ConnectSucceeds, ConnectFails
  <2>2. UNCHANGED <<cosmos, uptime, changes, serving, hub, outages, retries, retry, attempts,
                    checkDue>>
    BY <1>2 DEF ConnectorReturns, ConnectSucceeds, ConnectFails
  <2>. QED BY <2>1, <2>2
<1>3. CASE Surroundings
  <2>1. CASE \E to \in CosmosStates : CosmosChanges(to)
    BY <2>1 DEF CosmosChanges
  <2>2. CASE HubStops
    <3>1. serving' = FALSE /\ outages' \in Nat
      BY <2>2 DEF HubStops
    <3>. QED BY <2>2, <3>1 DEF HubStops
  <2>3. CASE HubStarts
    BY <2>3 DEF HubStarts
  <2>4. CASE HubReplaced
    BY <2>4 DEF HubReplaced
  <2>5. CASE PressRetry
    BY <2>5 DEF PressRetry
  <2>. QED BY <1>3, <2>1, <2>2, <2>3, <2>4, <2>5 DEF Surroundings
<1>4. CASE Tick
  <2>1. uptime' \in 0..WarmupTicks /\ checkDue' \in BOOLEAN
    BY <1>4 DEF Tick, DeadlineNears
  <2>2. UNCHANGED <<cosmos, changes, serving, hub, outages, retries, retry, client, attempts,
                    connecting>>
    BY <1>4 DEF Tick, DeadlineNears
  <2>. QED BY <2>1, <2>2
<1>. QED BY <1>1, <1>2, <1>3, <1>4 DEF PairingNext

\* A reading is one the gate knows.
LEMMA ReadingType ==
  ContainersTypeOK =>
    /\ Read.state \in Readiness /\ Ticks(Read.uptime) \in 0..WarmupTicks
    /\ Read.state # "up" => Ticks(Read.uptime) = 0
<1> SUFFICES ASSUME ContainersTypeOK
             PROVE  /\ Read.state \in Readiness /\ Ticks(Read.uptime) \in 0..WarmupTicks
                    /\ Read.state # "up" => Ticks(Read.uptime) = 0
  OBVIOUS
<1>1. Read.uptime \in Nat /\ (Read.state # "up" => Read.uptime = 0)
  BY Reading
<1>2. Read.state \in Readiness
  BY Reading DEF Readiness
<1>. QED BY <1>1, <1>2, Counting, Limits

LEMMA ReadingNext ==
  ContainersTypeOK' =>
    /\ Read'.state \in Readiness /\ Ticks(Read'.uptime) \in 0..WarmupTicks
    /\ Read'.state # "up" => Ticks(Read'.uptime) = 0
    /\ Read'.state = IF ~daemon' THEN "docker_unavailable"
                     ELSE IF PresentOnes' = {} THEN "no_containers"
                     ELSE IF RunningOnes' = {} THEN "not_running" ELSE "up"
    /\ Read'.state = "up" => Ticks(Read'.uptime) = Ticks(Min(Seconds'))
<1>1. ContainersTypeOK =>
        /\ Read.state \in Readiness /\ Ticks(Read.uptime) \in 0..WarmupTicks
        /\ Read.state # "up" => Ticks(Read.uptime) = 0
        /\ Read.state = IF ~daemon THEN "docker_unavailable"
                        ELSE IF PresentOnes = {} THEN "no_containers"
                        ELSE IF RunningOnes = {} THEN "not_running" ELSE "up"
        /\ Read.state = "up" => Ticks(Read.uptime) = Ticks(Min(Seconds))
  BY Reading, ReadingType
<1>2. (ContainersTypeOK =>
        /\ Read.state \in Readiness /\ Ticks(Read.uptime) \in 0..WarmupTicks
        /\ Read.state # "up" => Ticks(Read.uptime) = 0
        /\ Read.state = IF ~daemon THEN "docker_unavailable"
                        ELSE IF PresentOnes = {} THEN "no_containers"
                        ELSE IF RunningOnes = {} THEN "not_running" ELSE "up"
        /\ Read.state = "up" => Ticks(Read.uptime) = Ticks(Min(Seconds)))'
  BY <1>1, PTL
<1>. QED BY <1>2

LEMMA GateInit == Init => GateInvariant /\ PairingInit
<1> SUFFICES ASSUME Init PROVE GateInvariant /\ PairingInit
  OBVIOUS
<1>1. ContainersTypeOK
  BY ContainersInitType DEF Init
<1>2. cosmos = Read.state /\ uptime = Ticks(Read.uptime) /\ PairingInit
  BY DEF Init
<1>3. cosmos \in Readiness /\ uptime \in 0..WarmupTicks
  BY <1>1, <1>2, ReadingType
<1>4. PairingTypeOK
  <2>1. hub \in Nat \ {NoClient} /\ client \in 0..hub /\ attempts \in 0..MaxAttempts
    BY <1>2, PairingAssumption DEF PairingInit, NoClient
  <2>. QED BY <1>2, <1>3, <2>1 DEF PairingInit, PairingTypeOK
<1>. QED BY <1>1, <1>2, <1>4 DEF GateInvariant

\* A step of the gate over the containers is one that BridgePairing allows.
LEMMA GateStep ==
  ASSUME GateInvariant, Next
  PROVE  GateInvariant' /\ PairingNext
<1>t. ContainersTypeOK /\ PairingTypeOK /\ cosmos = Read.state /\ uptime = Ticks(Read.uptime)
  BY DEF GateInvariant
<1>s. ASSUME UNCHANGED <<containerVars, cosmos, uptime>>, PairingNext PROVE GateInvariant'
  <2>1. ContainersTypeOK' /\ Read' = Read
    BY <1>s, <1>t DEF containerVars, ContainersTypeOK, Read, CosmosReadiness, Snapshot
  <2>2. PairingTypeOK'
    BY <1>s, <1>t, PairingType
  <2>3. Ticks(Read.uptime)' = Ticks(Read'.uptime)
    BY DEF Ticks
  <2>. QED BY <1>s, <1>t, <2>1, <2>2, <2>3 DEF GateInvariant
<1>r. ASSUME ReadCosmos, ContainersTypeOK', PairingNext PROVE GateInvariant'
  <2>1. cosmos' = Read'.state /\ uptime' = Ticks(Read'.uptime)
    BY <1>r DEF ReadCosmos, Ticks
  <2>2. PairingTypeOK'
    BY <1>r, <1>t, PairingType
  <2>3. Ticks(Read.uptime)' = Ticks(Read'.uptime)
    BY DEF Ticks
  <2>. QED BY <1>r, <2>1, <2>2, <2>3 DEF GateInvariant
<1>1. CASE Check \/ Returns
  <2>1. PairingNext /\ UNCHANGED containerVars
    BY <1>1 DEF Check, Returns, PairingNext
  <2>2. UNCHANGED <<cosmos, uptime>>
    BY <1>1 DEF Check, Returns, CheckCosmos, ConnectorReturns, ConnectSucceeds, ConnectFails,
                cosmosVars
  <2>. QED BY <1>s, <2>1, <2>2
<1>2. CASE HubOrUser
  <2>1. PairingNext /\ UNCHANGED containerVars
    BY <1>2 DEF HubOrUser, PairingNext, Surroundings
  <2>2. UNCHANGED <<cosmos, uptime>>
    BY <1>2 DEF HubOrUser, HubStops, HubStarts, HubReplaced, PressRetry, cosmosVars
  <2>. QED BY <1>s, <2>1, <2>2
<1>3. CASE Moves
  <2>1. ContainersTypeOK' /\ ReadCosmos
    BY <1>t, <1>3, MoveType DEF Moves
  <2>2. cosmos' = Read'.state /\ uptime' = Ticks(Read'.uptime)
    BY <2>1 DEF ReadCosmos, Ticks
  <2>3. cosmos' \in CosmosStates /\ uptime' \in IF cosmos' = "up" THEN 0..WarmupTicks ELSE {0}
    BY <2>1, <2>2, ReadingNext, GateAssumption
  <2>4. CosmosChanges(cosmos')
    BY <1>3, <2>3 DEF Moves, CosmosChanges
  <2>5. PairingNext
    BY <2>3, <2>4 DEF PairingNext, Surroundings
  <2>. QED BY <1>r, <2>1, <2>5
<1>4. CASE TimePasses
  <2>1. ContainersAge /\ ReadCosmos /\ DeadlineNears
    BY <1>4 DEF TimePasses
  <2>2. /\ ContainersTypeOK' /\ daemon' = daemon
        /\ RunningOnes' = RunningOnes /\ PresentOnes' = PresentOnes
    BY <1>t, <2>1, Aging
  <2>3. cosmos' = Read'.state /\ uptime' = Ticks(Read'.uptime)
    BY <2>1 DEF ReadCosmos, Ticks
  <2>4. cosmos' = cosmos
    BY <1>t, <2>2, <2>3, Reading, ReadingNext
  <2>5. uptime' = IF cosmos = "up" /\ uptime < WarmupTicks THEN uptime + 1 ELSE uptime
    <3>1. CASE cosmos = "up"
      <4>1. RunningOnes # {}
        BY <1>t, <3>1, Reading
      <4>2. uptime = Ticks(Min(Seconds)) /\ uptime' = Ticks(Min(Seconds'))
        BY <1>t, <2>2, <2>3, <2>4, <3>1, Reading, ReadingNext
      <4>. QED BY <1>t, <2>1, <3>1, <4>1, <4>2, AgingCounts
    <3>2. CASE cosmos # "up"
      BY <1>t, <2>2, <2>3, <2>4, <3>2, ReadingType, ReadingNext
    <3>. QED BY <3>1, <3>2
  <2>6. Tick
    BY <1>4, <2>1, <2>4, <2>5 DEF TimePasses, Tick
  <2>. QED BY <1>r, <2>1, <2>2, <2>6 DEF PairingNext
<1>. QED BY <1>1, <1>2, <1>3, <1>4 DEF Next

\* When nothing happens, nothing is read anew.
LEMMA GateStutter == GateInvariant /\ UNCHANGED vars => GateInvariant' /\ UNCHANGED pairingVars
<1> SUFFICES ASSUME GateInvariant, UNCHANGED vars PROVE GateInvariant' /\ UNCHANGED pairingVars
  OBVIOUS
<1>1. UNCHANGED <<pairingVars, containerVars>>
  BY DEF vars
<1>2. ContainersTypeOK' /\ Read' = Read
  BY <1>1 DEF GateInvariant, containerVars, ContainersTypeOK, Read, CosmosReadiness, Snapshot
<1>3. PairingTypeOK' /\ UNCHANGED <<cosmos, uptime>>
  BY <1>1 DEF GateInvariant, pairingVars, PairingTypeOK
<1>4. Ticks(Read.uptime)' = Ticks(Read'.uptime)
  BY DEF Ticks
<1>. QED BY <1>1, <1>2, <1>3, <1>4 DEF GateInvariant

LEMMA GateAlways == Spec => []GateInvariant
<1>1. GateInvariant /\ [Next]_vars => GateInvariant'
  BY GateStep, GateStutter
<1>. QED BY <1>1, GateInit, PTL DEF Spec

\* Read from the words of the engine, the containers move as the gate over an
\* abstract COSMOS expects: the gate over containers implements BridgePairing
\* (cosmos_readiness, ContainerStatus::uptime).
THEOREM GateImplementsPairing == Spec => ReadsAsTheGateExpects
<1>1. GateInvariant /\ [Next]_vars => [PairingNext]_pairingVars
  BY GateStep, GateStutter
<1>2. Init => PairingInit
  BY GateInit
<1>. QED BY <1>1, <1>2, GateAlways, PTL DEF Spec, ReadsAsTheGateExpects

\* The connector is called only when containers of the app's own project run,
\* and each of them has run for the warm-up (maybe_connect).
THEOREM ConnectorIsCalledWarm == Spec => ConnectsWarm
<1> DEFINE Warm == /\ RunningOnes # {}
                   /\ \A c \in RunningOnes : containers[c].for >= WarmupTicks * Interval
<1>1. ASSUME GateInvariant, Next, connecting', ~connecting PROVE Warm
  <2>1. CheckCosmos
    BY <1>1 DEF Next, Check, Returns, TimePasses, Moves, HubOrUser, ConnectorReturns, ConnectSucceeds,
                ConnectFails, HubStops, HubStarts, HubReplaced, PressRetry, gateVars
  <2>2. cosmos = "up" /\ uptime = WarmupTicks
    BY <1>1, <2>1 DEF CheckCosmos, Settled
  <2>3. ContainersTypeOK /\ Read.state = "up" /\ Ticks(Read.uptime) = WarmupTicks
    BY <1>1, <2>2 DEF GateInvariant
  <2>4. /\ RunningOnes # {} /\ Ticks(Min(Seconds)) = WarmupTicks
        /\ Seconds \in SUBSET Nat /\ Seconds # {}
    BY <2>3, Reading
  <2>5. Min(Seconds) \in Nat /\ \A c \in RunningOnes : Min(Seconds) <= containers[c].for
    BY <2>4, Least DEF Seconds
  <2>6. Min(Seconds) >= WarmupTicks * Interval
    BY <2>4, <2>5, Counting
  <2>7. WarmupTicks * Interval \in Nat /\ \A c \in RunningOnes : containers[c].for \in Nat
    BY <2>4, PairingAssumption, ContainersAssumption DEF Seconds
  <2>. QED BY <2>4, <2>5, <2>6, <2>7
<1>2. GateInvariant /\ [Next]_vars => [connecting' /\ ~connecting => Warm]_vars
  BY <1>1
<1>. QED BY <1>2, GateAlways, PTL DEF Spec, ConnectsWarm

------------------------------------------------------------------------------
(* Enrolment.  Most of the argument is about one task at a time: TaskOf    *)
(* says what an actor holds at each place, and every action gives its      *)
(* actor such a task.                                                      *)

PlacesOf(a) ==
  {"off", "load", "mint", "minting", "save", "saving", "unlinked"} \cup
  CASE a = Op  -> {"resolve", "enroll", "validate", "forget", "remove", "paired"}
    [] a = Job -> {"redeem", "forget", "remove", "stop"}
    [] a = Cli -> {"redeem"}

\* The actor is past load_or_create_secret.
Keyed(a) ==
  {"mint", "minting", "redeem", "resolve", "enroll", "save", "saving", "unlinked", "validate"}
    \cup {p \in {"forget", "remove"} : a = Op}

\* The operator is going to write current.json over what it resolved, or may be.
Writing(a) ==
  {p \in {"enroll", "save", "saving", "unlinked", "forget", "remove"} : a = Op}

TaskOf(a, t) ==
  /\ t \in Task
  /\ t.at \in PlacesOf(a)
  /\ t.at \in Keyed(a) => t.key \in Keys
  /\ t.at \in {"save", "saving", "unlinked"} => t.ticket \in Ticket
  /\ a # Op /\ t.at \in {"load", "mint", "minting", "redeem"} => t.ticket \in Ticket
  /\ a # Cli /\ t.at # "off" => t.site \in Sites
  /\ a # Op => t.source = None
  /\ t.at \in Writing(a) => t.resolved.kind # "manual"
  /\ t.at = "remove" => t.dropped.kind # "manual"
  /\ t.at = "validate" /\ t.source = "cached_auto" => t.resolved.kind # "manual"

TasksOK ==
  /\ EnrollmentTypeOK
  /\ \A a \in Actors : TaskOf(a, task[a])

USE DEF Op, Job, Cli

\* The actors are three.
LEMMA ThreeActors ==
  /\ Actors = {Op, Job, Cli} /\ Op # Job /\ Op # Cli /\ Job # Cli
BY DEF Actors

\* A fresh task without places that hold anything is right for its actor.
LEMMA FreshTask ==
  ASSUME NEW a \in Actors, NEW s \in Sites \cup {None}, NEW p \in {"off", "load", "forget", "stop"},
         p = "off" \/ (a = Op /\ p = "load" /\ s \in Sites)
                   \/ (a = Job /\ p \in {"forget", "stop"} /\ s \in Sites)
  PROVE  TaskOf(a, Fresh(p, s))
BY ThreeActors DEF Fresh, TaskOf, Task, Absent, Current, Sources, NoTicket, Places, PlacesOf, Keyed, Writing

\* An actor that is given a task of its own leaves every actor with one.
LEMMA TasksKept ==
  ASSUME TasksOK, NEW a \in Actors, NEW t, TaskOf(a, t), Becomes(a, t)
  PROVE  task' \in [Actors -> Task] /\ \A b \in Actors : TaskOf(b, task'[b])
<1>1. t \in Task /\ task \in [Actors -> Task]
  BY DEF TaskOf, TasksOK, EnrollmentTypeOK
<1>2. task' = [task EXCEPT ![a] = t]
  BY DEF Becomes
<1> QED  BY <1>1, <1>2 DEF TasksOK

\* A failed attempt ends in such a task.
LEMMA EndedTask ==
  ASSUME TasksOK, NEW a \in Actors, task[a].at # "off"
  PROVE  TaskOf(a, Ended(a))
<1>1. TaskOf(a, task[a])
  BY DEF TasksOK
<1>2. a = Op => task[a].site \in Sites
  BY <1>1, ThreeActors DEF TaskOf
<1>3. TaskOf(a, Off)
  BY FreshTask DEF Off
<1>4. a = Op => TaskOf(a, Fresh("load", task[a].site))
  BY <1>2, FreshTask
<1> QED  BY <1>3, <1>4 DEF Ended

\* So does a drop of the cached ticket, read or removed.
LEMMA AfterForgetTask ==
  ASSUME TasksOK, NEW a \in Actors, task[a].at \in {"forget", "remove"}
  PROVE  TaskOf(a, AfterForget(a))
<1>1. TaskOf(a, task[a])
  BY DEF TasksOK
<1>2. a = Op \/ a = Job
  BY <1>1, ThreeActors DEF TaskOf, PlacesOf
<1>3. CASE a = Op
  BY <1>1, <1>3, ThreeActors
  DEF AfterForget, TaskOf, Task, Places, Sources, PlacesOf, Keyed, Writing
<1>4. CASE a = Job
  <2>1. task[a].site \in Sites
    BY <1>1, <1>4, ThreeActors DEF TaskOf
  <2> QED  BY <1>4, <2>1, FreshTask DEF AfterForget
<1> QED  BY <1>2, <1>3, <1>4

\* And what the drop has read is noted in a task that is no removal, or of a
\* ticket that is not manual.
LEMMA DroppedTask ==
  ASSUME TasksOK, NEW a \in Actors, NEW t, TaskOf(a, t),
         t.at = "remove" => current.kind # "manual"
  PROVE  TaskOf(a, Dropped(t)) /\ Dropped(t).at = t.at /\ Dropped(t).key = t.key
<1>1. current \in Current /\ Absent \in Current /\ Absent.kind # "manual" /\ t \in Task
  BY DEF TasksOK, EnrollmentTypeOK, Current, Absent, TaskOf
<1>2. PICK c \in Current : /\ Dropped(t) = [t EXCEPT !.dropped = c]
                           /\ t.at = "remove" => c.kind # "manual"
  BY <1>1 DEF Dropped
<1>3. [t EXCEPT !.dropped = c] \in Task
  BY <1>1 DEF Task
<1>4. LET u == [t EXCEPT !.dropped = c]
      IN  /\ u.at = t.at /\ u.site = t.site /\ u.key = t.key /\ u.ticket = t.ticket
          /\ u.source = t.source /\ u.resolved = t.resolved /\ u.dropped = c
  BY <1>1 DEF Task
<1> QED  BY <1>2, <1>3, <1>4 DEF TaskOf

\* The ticket a hub hands out is one of the tickets.
LEMMA TicketOfTyped ==
  ASSUME EnrollmentTypeOK, NEW h \in Sites
  PROVE  TicketOf(h) \in Ticket
BY DEF EnrollmentTypeOK, TicketOf, Ticket

\* NoTicket is not one of them.
LEMMA NoTicketIsNone == NoTicket \notin Ticket
BY EnrollmentAssumption DEF NoTicket, Ticket

\* What holds at the start.
LEMMA TasksInit == EnrollmentInit => TasksOK
<1> SUFFICES ASSUME EnrollmentInit PROVE TasksOK
  OBVIOUS
<1>1. site \in Sites /\ gen \in [Sites -> 0..MaxRecreations] /\ registered \in [Sites -> Keys \cup {None}]
  BY EnrollmentAssumption DEF EnrollmentInit
<1>2. override \in Ticket \cup {NoTicket}
  BY <1>1 DEF EnrollmentInit, Ticket, TicketOf
<1>3. \A a \in Actors : TaskOf(a, task[a])
  BY <1>1, FreshTask, ThreeActors DEF EnrollmentInit, Off
<1>4. task \in [Actors -> Task]
  BY <1>3 DEF TaskOf, EnrollmentInit
<1> QED  BY <1>1, <1>2, <1>3, <1>4
         DEF TasksOK, EnrollmentTypeOK, EnrollmentInit, Keys, Current, Absent

------------------------------------------------------------------------------
(* Every action gives its actor a task of the right kind.                  *)

\* load_or_create_secret.
LEMMA IdentityTasks ==
  ASSUME TasksOK, NEW a \in Actors,
         LoadIdentity(a) \/ TruncateIdentity(a) \/ WriteIdentity(a)
  PROVE  TasksOK'
<1>t. TaskOf(a, task[a])
  BY DEF TasksOK
<1>1. CASE LoadIdentity(a)
  <2>1. CASE identity \in Keys /\ Becomes(a, [task[a] EXCEPT !.at = AfterIdentity(a), !.key = identity])
             /\ UNCHANGED minters
    <3>1. TaskOf(a, [task[a] EXCEPT !.at = AfterIdentity(a), !.key = identity])
      BY <1>t, <1>1, <2>1, ThreeActors
      DEF LoadIdentity, At, AfterIdentity, TaskOf, Task, Places, PlacesOf, Keyed, Writing
    <3> QED  BY <1>1, <2>1, <3>1, TasksKept
             DEF LoadIdentity, files, hubs, counts, TasksOK, EnrollmentTypeOK
  <2>2. CASE identity = "torn" /\ Becomes(a, Ended(a)) /\ UNCHANGED minters
    <3>1. TaskOf(a, Ended(a))
      BY <1>1, EndedTask DEF LoadIdentity, At
    <3> QED  BY <1>1, <2>2, <3>1, TasksKept
             DEF LoadIdentity, files, hubs, counts, TasksOK, EnrollmentTypeOK
  <2>3. CASE Becomes(a, [task[a] EXCEPT !.at = AfterMint(a), !.key = a]) /\ minters' = minters \cup {a}
    <3>1. TaskOf(a, [task[a] EXCEPT !.at = AfterMint(a), !.key = a])
      BY <1>t, <1>1, ThreeActors
      DEF LoadIdentity, At, AfterMint, Keys, TaskOf, Task, Places, PlacesOf, Keyed, Writing
    <3> QED  BY <1>1, <2>3, <3>1, TasksKept
             DEF LoadIdentity, files, hubs, counts, TasksOK, EnrollmentTypeOK
  <2> QED  BY <1>1, <2>1, <2>2, <2>3 DEF LoadIdentity
<1>2. CASE TruncateIdentity(a)
  <2>1. TaskOf(a, [task[a] EXCEPT !.at = "minting"])
    BY <1>t, <1>2, ThreeActors
    DEF TruncateIdentity, At, TaskOf, Task, Places, PlacesOf, Keyed, Writing
  <2> QED  BY <1>2, <2>1, TasksKept
           DEF TruncateIdentity, Goes, hubs, counts, TasksOK, EnrollmentTypeOK
<1>3. CASE WriteIdentity(a)
  <2>1. TaskOf(a, [task[a] EXCEPT !.at = AfterIdentity(a)]) /\ task[a].key \in Keys
    BY <1>t, <1>3, ThreeActors
    DEF WriteIdentity, At, AfterIdentity, TaskOf, Task, Places, PlacesOf, Keyed, Writing
  <2> QED  BY <1>3, <2>1, TasksKept
           DEF WriteIdentity, Goes, hubs, counts, TasksOK, EnrollmentTypeOK
<1> QED  BY <1>1, <1>2, <1>3

\* write_current.
LEMMA SaveTasks ==
  ASSUME TasksOK, NEW a \in Actors, TruncateCurrent(a) \/ WriteCurrent(a)
  PROVE  TasksOK'
<1>t. TaskOf(a, task[a])
  BY DEF TasksOK
<1>1. CASE TruncateCurrent(a)
  <2>1. TaskOf(a, [task[a] EXCEPT !.at = "saving"])
    BY <1>t, <1>1, ThreeActors
    DEF TruncateCurrent, At, TaskOf, Task, Places, PlacesOf, Keyed, Writing
  <2> QED  BY <1>1, <2>1, TasksKept
           DEF TruncateCurrent, Goes, hubs, counts, TasksOK, EnrollmentTypeOK, Current
<1>2. CASE WriteCurrent(a)
  <2>1. task[a].ticket \in Ticket
    BY <1>t, <1>2 DEF WriteCurrent, TaskOf
  <2>2. current' \in Current
    BY <1>2, <2>1 DEF WriteCurrent, Current, TasksOK, EnrollmentTypeOK
  <2>3. CASE a = Cli
    <3>1. TaskOf(a, Off)
      BY FreshTask DEF Off
    <3> QED  BY <1>2, <2>2, <2>3, <3>1, TasksKept
             DEF WriteCurrent, hubs, counts, TasksOK, EnrollmentTypeOK
  <2>4. CASE a # Cli
    <3>1. TaskOf(a, [task[a] EXCEPT !.at = AfterSave(a)])
      BY <1>t, <1>2, <2>4, ThreeActors
      DEF WriteCurrent, At, AfterSave, TaskOf, Task, Places, PlacesOf, Keyed, Writing
    <3> QED  BY <1>2, <2>2, <2>4, <3>1, TasksKept
             DEF WriteCurrent, Goes, hubs, counts, TasksOK, EnrollmentTypeOK
  <2> QED  BY <2>3, <2>4
<1> QED  BY <1>1, <1>2

\* forget_cached_ticket.
LEMMA ForgetTasks ==
  ASSUME TasksOK, NEW a \in Actors, ForgetReads(a) \/ ForgetRemoves(a)
  PROVE  TasksOK'
<1>t. \A b \in Actors : TaskOf(b, task[b])
  BY DEF TasksOK
<1>1. CASE ForgetReads(a)
  <2>1. TaskOf(a, AfterForget(a))
    BY <1>1, AfterForgetTask DEF ForgetReads, At
  <2>2. ASSUME KeptByForget(current)
        PROVE  task' \in [Actors -> Task] /\ \A b \in Actors : TaskOf(b, task'[b])
    <3>1. AfterForget(a).at # "remove"
      BY DEF AfterForget, Fresh, TaskOf, Task, TasksOK, EnrollmentTypeOK
    <3>2. TaskOf(a, Dropped(AfterForget(a)))
      BY <2>1, <3>1, DroppedTask
    <3> QED  BY <1>1, <2>2, <3>2, TasksKept DEF ForgetReads
  <2>3. ASSUME ~KeptByForget(current)
        PROVE  task' \in [Actors -> Task] /\ \A b \in Actors : TaskOf(b, task'[b])
    <3> DEFINE t == [task[a] EXCEPT !.at = "remove", !.dropped = current]
    <3>1. task[a].at = "forget" /\ TaskOf(a, task[a]) /\ current \in Current /\ task[a] \in Task
      BY <1>t, <1>1 DEF ForgetReads, At, TasksOK, EnrollmentTypeOK, TaskOf
    <3>2. current.kind # "manual"
      BY <2>3 DEF KeptByForget
    <3>3. Dropped([task[a] EXCEPT !.at = "remove"]) = t
      BY <3>1 DEF Dropped, Task
    <3>4. t \in Task
      BY <3>1 DEF Task, Places
    <3>5. /\ t.at = "remove" /\ t.site = task[a].site /\ t.key = task[a].key
          /\ t.ticket = task[a].ticket /\ t.source = task[a].source
          /\ t.resolved = task[a].resolved /\ t.dropped = current
      BY <3>1 DEF Task
    <3>6. a = Op \/ a = Job
      BY <3>1, ThreeActors DEF TaskOf, PlacesOf
    <3> HIDE DEF t
    <3>7. TaskOf(a, t)
      BY <3>1, <3>2, <3>4, <3>5, <3>6, ThreeActors DEF TaskOf, PlacesOf, Keyed, Writing
    <3>8. Becomes(a, t)
      BY <1>1, <2>3, <3>3 DEF ForgetReads
    <3> QED  BY <3>7, <3>8, TasksKept
  <2>4. task' \in [Actors -> Task] /\ \A b \in Actors : TaskOf(b, task'[b])
    BY <2>2, <2>3
  <2> QED  BY <1>1, <2>4 DEF ForgetReads, files, hubs, counts, TasksOK, EnrollmentTypeOK
<1>2. CASE ForgetRemoves(a)
  <2>1. TaskOf(a, AfterForget(a))
    BY <1>2, AfterForgetTask DEF ForgetRemoves, At
  <2>2. ASSUME NEW b \in Actors, b # a PROVE TaskOf(b, task'[b])
    <3>1. task'[b] = task[b] \/ (At(b, "saving") /\ task'[b] = [task[b] EXCEPT !.at = "unlinked"])
      BY <1>2, <2>2 DEF ForgetRemoves
    <3>2. At(b, "saving") => TaskOf(b, [task[b] EXCEPT !.at = "unlinked"])
      BY <1>t, ThreeActors DEF At, TaskOf, Task, Places, PlacesOf, Keyed, Writing
    <3> QED  BY <1>t, <3>1, <3>2
  <2>3. task'[a] = AfterForget(a)
    BY <1>2 DEF ForgetRemoves
  <2>4. \A b \in Actors : TaskOf(b, task'[b])
    BY <2>1, <2>2, <2>3
  <2>5. task' \in [Actors -> Task]
    BY <1>2, <2>4 DEF ForgetRemoves, TaskOf
  <2> QED  BY <1>2, <2>4, <2>5
           DEF ForgetRemoves, hubs, counts, TasksOK, EnrollmentTypeOK, Current
<1> QED  BY <1>1, <1>2

\* connect_bridge.
LEMMA ConnectTasks ==
  ASSUME TasksOK, Connects
  PROVE  TasksOK'
<1>a. Op \in Actors
  BY ThreeActors
<1>t. TaskOf(Op, task[Op])
  BY <1>a DEF TasksOK
<1>1. CASE Ends
  <2>1. TaskOf(Op, Off)
    BY <1>a, FreshTask DEF Off
  <2> QED  BY <1>a, <1>1, <2>1, TasksKept
           DEF Ends, files, hubs, counts, TasksOK, EnrollmentTypeOK
<1>2. CASE Resolve
  <2>1. PICK t : Becomes(Op, t) /\ TaskOf(Op, t)
    <3>1. ASSUME override # NoTicket
          PROVE  TaskOf(Op, [task[Op] EXCEPT !.at = "validate", !.ticket = override,
                                             !.source = "environment"])
      BY <1>t, <1>2, <3>1, ThreeActors
      DEF Resolve, At, TasksOK, EnrollmentTypeOK, TaskOf, Task, Places, Sources, PlacesOf, Keyed, Writing
    <3>2. ASSUME current.kind \in {"auto", "manual"}
          PROVE  TaskOf(Op, [task[Op] EXCEPT !.at = "validate", !.ticket = current.ticket,
                                             !.source = SourceOf(current), !.resolved = current])
      <4>1. current \in Current /\ current.ticket \in Ticket
        BY <3>2 DEF Current, Absent, Torn, TasksOK, EnrollmentTypeOK
      <4>2. SourceOf(current) \in Sources
        BY DEF SourceOf, Sources
      <4>3. SourceOf(current) = "cached_auto" => current.kind # "manual"
        BY DEF SourceOf
      <4>4. task[Op].at = "resolve"
        BY <1>2 DEF Resolve, At
      <4> QED  BY <1>t, <4>1, <4>2, <4>3, <4>4, ThreeActors
               DEF TaskOf, Task, Places, PlacesOf, Keyed, Writing
    <3>3. ASSUME current.kind \in {"absent", "torn"}
          PROVE  TaskOf(Op, [task[Op] EXCEPT !.at = "enroll", !.source = "auto_enrolled",
                                             !.resolved = current])
      BY <1>t, <1>2, <3>3, ThreeActors
      DEF Resolve, At, TasksOK, EnrollmentTypeOK, TaskOf, Task,
          Places, Sources, PlacesOf, Keyed, Writing
    <3> QED  BY <1>2, <3>1, <3>2, <3>3 DEF Resolve
  <2> QED  BY <1>a, <1>2, <2>1, TasksKept
           DEF Resolve, files, hubs, counts, TasksOK, EnrollmentTypeOK
<1>3. CASE AutoEnroll
  <2>1. task[Op].site \in Sites /\ task[Op].key \in Keys
    BY <1>t, <1>3, ThreeActors DEF AutoEnroll, At, TaskOf, Keyed
  <2>2. PICK out \in {TicketOf(task[Op].site), NoTicket} :
          /\ IF out = NoTicket THEN Trouble ELSE UNCHANGED troubles
          /\ Becomes(Op, IF Printed(out) THEN [task[Op] EXCEPT !.at = "save", !.ticket = out]
                                         ELSE Ended(Op))
    BY <1>3 DEF AutoEnroll
  <2>3. Printed(out) => out \in Ticket
    BY <2>1, <2>2, TicketOfTyped DEF Printed, TasksOK
  <2>4. Printed(out) => TaskOf(Op, [task[Op] EXCEPT !.at = "save", !.ticket = out])
    BY <1>t, <1>3, <2>3, ThreeActors
    DEF AutoEnroll, At, TaskOf, Task, Places, PlacesOf, Keyed, Writing
  <2>5. TaskOf(Op, Ended(Op))
    BY <1>a, <1>3, EndedTask DEF AutoEnroll, At
  <2>6. task' \in [Actors -> Task] /\ \A b \in Actors : TaskOf(b, task'[b])
    BY <1>a, <2>2, <2>4, <2>5, TasksKept
  <2>7. troubles' \in Nat
    BY <2>2 DEF Trouble, TasksOK, EnrollmentTypeOK
  <2>8. registered' \in [Sites -> Keys \cup {None}]
    BY <1>3, <2>1 DEF AutoEnroll, TasksOK, EnrollmentTypeOK
  <2> QED  BY <1>3, <2>6, <2>7, <2>8 DEF AutoEnroll, files, TasksOK, EnrollmentTypeOK
<1>4. CASE Validate
  <2>1. TaskOf(Op, [task[Op] EXCEPT !.at = "paired", !.key = None, !.resolved = Absent,
                                    !.dropped = Absent])
    <3>1. Absent \in Current
      BY DEF Current
    <3>2. task[Op].at = "validate"
      BY <1>4 DEF Validate, At
    <3> QED  BY <1>t, <3>1, <3>2, ThreeActors DEF TaskOf, Task, Places, PlacesOf, Keyed, Writing
  <2>2. ASSUME Replaceable(task[Op].source)
        PROVE  TaskOf(Op, [task[Op] EXCEPT !.at = "forget"])
    BY <1>t, <1>4, <2>2, ThreeActors
    DEF Validate, At, Replaceable, TaskOf, Task, Places, PlacesOf, Keyed, Writing
  <2>3. TaskOf(Op, Ended(Op))
    BY <1>a, <1>4, EndedTask DEF Validate, At
  <2>4. task' \in [Actors -> Task] /\ \A b \in Actors : TaskOf(b, task'[b])
    BY <1>a, <1>4, <2>1, <2>2, <2>3, TasksKept DEF Validate, Goes
  <2> QED  BY <1>4, <2>4 DEF Validate, files, hubs, counts, TasksOK, EnrollmentTypeOK
<1> QED  BY <1>1, <1>2, <1>3, <1>4 DEF Connects

\* The jobs, and the command.
LEMMA JobTasks ==
  ASSUME TasksOK, (\E a \in Actors : Redeem(a)) \/ StartNew
  PROVE  TasksOK'
<1>1. ASSUME NEW a \in Actors, Redeem(a) PROVE TasksOK'
  <2>1. TaskOf(a, task[a]) /\ task[a].at = "redeem"
    BY <1>1 DEF TasksOK, Redeem, At
  <2>2. a # Op /\ task[a].ticket \in Ticket /\ task[a].key \in Keys
    BY <2>1, ThreeActors DEF TaskOf, PlacesOf, Keyed
  <2>3. TaskOf(a, [task[a] EXCEPT !.at = "save"])
    BY <2>1, <2>2, ThreeActors DEF TaskOf, Task, Places, PlacesOf, Keyed, Writing
  <2>4. TaskOf(a, Ended(a))
    BY <2>1, EndedTask
  <2>5. task' \in [Actors -> Task] /\ \A b \in Actors : TaskOf(b, task'[b])
    BY <1>1, <2>3, <2>4, TasksKept DEF Redeem, Goes
  <2>6. registered' \in [Sites -> Keys \cup {None}] /\ troubles' \in Nat
    BY <1>1, <2>2 DEF Redeem, Trouble, TasksOK, EnrollmentTypeOK
  <2> QED  BY <1>1, <2>5, <2>6 DEF Redeem, files, TasksOK, EnrollmentTypeOK
<1>2. CASE StartNew
  <2>1. TaskOf(Job, task[Job]) /\ task[Job].at = "stop"
    BY <1>2, ThreeActors DEF StartNew, At, TasksOK
  <2>2. task[Job].site \in Sites
    BY <2>1, ThreeActors DEF TaskOf
  <2>3. TaskOf(Op, Fresh("load", task[Job].site)) /\ TaskOf(Job, Off)
    BY <2>2, FreshTask, ThreeActors DEF Off
  <2>4. task \in [Actors -> Task]
    BY DEF TasksOK, EnrollmentTypeOK
  <2>5. \A b \in Actors : TaskOf(b, task'[b])
    BY <1>2, <2>3, <2>4, ThreeActors DEF StartNew, TasksOK
  <2>6. task' \in [Actors -> Task]
    BY <1>2, <2>3, <2>4, ThreeActors DEF StartNew, TaskOf
  <2> QED  BY <1>2, <2>5, <2>6 DEF StartNew, files, hubs, counts, TasksOK, EnrollmentTypeOK
<1> QED  BY <1>1, <1>2

\* Failures, the user and the hubs.
LEMMA OutsideTasks ==
  ASSUME TasksOK, Outside
  PROVE  TasksOK'
<1>1. ASSUME NEW a \in Actors, Fault(a) PROVE TasksOK'
  <2>1. TaskOf(a, task[a])
    BY DEF TasksOK
  <2>2. ASSUME At(a, "remove") PROVE TaskOf(a, AfterForget(a))
    BY <2>2, AfterForgetTask DEF At
  <2>3. ASSUME task[a].at \in {"save", "saving", "unlinked"}, task[a].source = "auto_enrolled"
        PROVE  a = Op => TaskOf(a, [task[a] EXCEPT !.at = "validate"])
    BY <2>1, <2>3, ThreeActors DEF TaskOf, Task, Places, PlacesOf, Keyed, Writing
  <2>4. TaskOf(a, Ended(a))
    BY <1>1, EndedTask DEF Fault
  <2>5. a # Op => task[a].source # "auto_enrolled"
    BY <2>1 DEF TaskOf, None
  <2>6. task' \in [Actors -> Task] /\ \A b \in Actors : TaskOf(b, task'[b])
    BY <1>1, <2>2, <2>3, <2>4, <2>5, TasksKept DEF Fault
  <2> QED  BY <1>1, <2>6 DEF Fault, Trouble, files, hubs, TasksOK, EnrollmentTypeOK
<1>2. ASSUME NEW a \in Actors, NEW h \in Sites, Pair(a, h) PROVE TasksOK'
  <2>1. TicketOf(h) \in Ticket
    BY TicketOfTyped DEF TasksOK
  <2>2. site \in Sites
    BY DEF TasksOK, EnrollmentTypeOK
  <2>3. TaskOf(a, [Fresh("load", IF a = Job THEN site ELSE None) EXCEPT !.ticket = TicketOf(h)])
    BY <1>2, <2>1, <2>2, ThreeActors
    DEF Pair, Fresh, Absent, Current, Sources, TaskOf, Task, Places, PlacesOf, Keyed, Writing
  <2> QED  BY <1>2, <2>3, TasksKept
           DEF Pair, Input, files, hubs, TasksOK, EnrollmentTypeOK
<1>3. ASSUME NEW s \in Sites, Reenroll(s) PROVE TasksOK'
  <2>1. TaskOf(Job, Fresh("forget", s))
    BY FreshTask, ThreeActors
  <2> QED  BY <1>3, <2>1, TasksKept, ThreeActors
           DEF Reenroll, Input, files, hubs, TasksOK, EnrollmentTypeOK
<1>4. CASE Restart
  <2>1. TaskOf(Job, Fresh("stop", site))
    BY FreshTask, ThreeActors DEF TasksOK, EnrollmentTypeOK
  <2> QED  BY <1>4, <2>1, TasksKept, ThreeActors
           DEF Restart, Input, files, hubs, TasksOK, EnrollmentTypeOK
<1>5. CASE Retry
  <2>1. TaskOf(Op, Ended(Op))
    BY <1>5, EndedTask, ThreeActors DEF Retry, At
  <2> QED  BY <1>5, <2>1, TasksKept, ThreeActors
           DEF Retry, Input, files, hubs, TasksOK, EnrollmentTypeOK
<1>6. ASSUME NEW h \in Sites, RecreateHub(h) PROVE TasksOK'
  <2>1. gen' \in [Sites -> 0..MaxRecreations]
    BY <1>6, EnrollmentAssumption DEF RecreateHub, TasksOK, EnrollmentTypeOK
  <2> QED  BY <1>6, <2>1 DEF RecreateHub, files, counts, TasksOK, EnrollmentTypeOK
<1>7. CASE Crash
  <2>1. TaskOf(Op, Fresh("load", site)) /\ TaskOf(Job, Off) /\ TaskOf(Cli, Off)
    BY FreshTask, ThreeActors DEF Off, TasksOK, EnrollmentTypeOK
  <2>2. task \in [Actors -> Task]
    BY DEF TasksOK, EnrollmentTypeOK
  <2>3. \A b \in Actors : TaskOf(b, task'[b])
    BY <1>7, <2>1, <2>2, ThreeActors DEF Crash, Becomes, TasksOK
  <2>4. task' \in [Actors -> Task]
    BY <1>7, <2>1, <2>2, ThreeActors DEF Crash, Becomes, TaskOf
  <2> QED  BY <1>7, <2>3, <2>4 DEF Crash, Trouble, files, hubs, TasksOK, EnrollmentTypeOK
<1> QED  BY <1>1, <1>2, <1>3, <1>4, <1>5, <1>6, <1>7 DEF Outside

\* The step.
LEMMA TasksStep == TasksOK /\ [EnrollmentNext]_enrollmentVars => TasksOK'
<1> SUFFICES ASSUME TasksOK, [EnrollmentNext]_enrollmentVars PROVE TasksOK'
  OBVIOUS
<1>1. ASSUME NEW a \in Actors, Works(a) PROVE TasksOK'
  BY <1>1, IdentityTasks, SaveTasks, ForgetTasks, JobTasks DEF Works
<1>2. CASE UNCHANGED enrollmentVars
  BY <1>2 DEF enrollmentVars, files, hubs, counts, TasksOK, EnrollmentTypeOK
<1> QED  BY <1>1, <1>2, ConnectTasks, JobTasks, OutsideTasks DEF EnrollmentNext

\* Every state is well typed.
THEOREM EnrollmentTypeCorrect == EnrollmentSpec => []EnrollmentTypeOK
<1>1. TasksOK => EnrollmentTypeOK
  BY DEF TasksOK
<1> QED  BY <1>1, TasksInit, TasksStep, PTL DEF EnrollmentSpec

------------------------------------------------------------------------------
\* A ticket paired by hand is neither overwritten by an attempt to connect that
\* resolved it nor removed by a drop that read it.  (An attempt that resolved
\* another may still overwrite it: ManualIsUntouched is not a theorem.)
THEOREM ManualIsKeptByItsReaders == EnrollmentSpec => ManualIsKept
<1>1. ASSUME TasksOK, [EnrollmentNext]_enrollmentVars, IsManual(current), current' # current
      PROVE  \E a \in Actors : /\ task'[a] # task[a]
                               /\ \/ PairsByHand(a)
                                  \/ Saves(a) /\ task[a].resolved # current
                                  \/ At(a, "remove") /\ task[a].dropped # current
  <2>1. PICK a \in Actors : TruncateCurrent(a) \/ WriteCurrent(a) \/ ForgetRemoves(a)
    <3>1. ~ UNCHANGED enrollmentVars
      BY <1>1 DEF enrollmentVars, files
    <3>2. ~ (Connects \/ StartNew \/ Outside)
      BY <1>1 DEF Connects, Ends, Resolve, AutoEnroll, Validate, StartNew, Outside, Fault, Pair,
                  Reenroll, RecreateHub, Restart, Retry, Crash, files
    <3>3. PICK a \in Actors : Works(a)
      BY <1>1, <3>1, <3>2 DEF EnrollmentNext
    <3>4. ~ (LoadIdentity(a) \/ TruncateIdentity(a) \/ WriteIdentity(a) \/ ForgetReads(a) \/ Redeem(a))
      BY <1>1 DEF LoadIdentity, TruncateIdentity, WriteIdentity, ForgetReads, Redeem, files
    <3> QED  BY <3>3, <3>4 DEF Works
  <2>2. TaskOf(a, task[a]) /\ task \in [Actors -> Task] /\ task[a] \in Task
    BY <1>1 DEF TasksOK, EnrollmentTypeOK
  <2>3. task[a].at \in {"save", "saving", "remove"}
    BY <1>1, <2>1 DEF TruncateCurrent, WriteCurrent, ForgetRemoves, At
  <2>4. task'[a].at # task[a].at
    <3>1. CASE TruncateCurrent(a)
      BY <3>1, <2>2 DEF TruncateCurrent, At, Goes, Becomes, Task
    <3>2. CASE WriteCurrent(a)
      BY <3>2, <2>2 DEF WriteCurrent, Goes, Becomes, Task, AfterSave, Off, Fresh, Actors
    <3>3. CASE ForgetRemoves(a)
      BY <3>3, <2>2 DEF ForgetRemoves, At, AfterForget, Fresh, Task
    <3> QED  BY <2>1, <3>1, <3>2, <3>3
  <2>5. CASE Saves(a) /\ a = Op
    <3>1. task[a].resolved # current
      BY <1>1, <2>2, <2>5, ThreeActors DEF TaskOf, Writing, IsManual, Saves
    <3> QED  BY <2>4, <2>5, <3>1
  <2>6. CASE Saves(a) /\ a # Op
    BY <2>4, <2>6 DEF PairsByHand
  <2>7. CASE At(a, "remove")
    <3>1. task[a].dropped # current
      BY <1>1, <2>2, <2>7 DEF TaskOf, IsManual, At
    <3> QED  BY <2>4, <2>7, <3>1
  <2> QED  BY <2>3, <2>5, <2>6, <2>7 DEF Saves, At
<1> QED  BY <1>1, TasksInit, TasksStep, PTL DEF EnrollmentSpec, ManualIsKept

------------------------------------------------------------------------------
(* The key on disk.  While one actor at most has found no identity, every  *)
(* other key in use is the one on disk.                                    *)

Minting == {"mint", "minting"}

KeyInv ==
  AloneToMint =>
    /\ \A a \in Actors : task[a].at \in Minting => task[a].key = a /\ a \in minters
    /\ \A a \in Actors : At(a, "mint") => identity = "absent"
    /\ \A a \in Actors : At(a, "minting") => identity = "torn"
    /\ \A a \in Actors : task[a].at \notin Minting => task[a].key \in {None, identity}
    /\ \A h \in Sites : registered[h] \in {None, identity}

\* The actor takes no new key and does not begin to mint.
KeyKept(b) ==
  \/ task'[b] = task[b]
  \/ /\ task'[b].at \notin Minting
     /\ task'[b].key = None \/ (task[b].at \notin Minting /\ task'[b].key = task[b].key)

\* Neither a torn nor an absent identity is a key.
LEMMA KeysAreKeys == "absent" \notin Keys /\ "torn" \notin Keys /\ None \notin Keys
BY DEF Keys, Actors, Existing, None

\* A step that leaves the file alone and registers no other key.
LEMMA KeyInvKept ==
  ASSUME TasksOK, KeyInv, UNCHANGED <<identity, minters>>,
         \A b \in Actors : KeyKept(b),
         AloneToMint => \A h \in Sites : registered'[h] \in {None, identity}
  PROVE  KeyInv'
<1>1. AloneToMint' <=> AloneToMint
  BY DEF AloneToMint
<1> QED  BY <1>1 DEF KeyInv, KeyKept, At, Minting

\* Becoming a task with the old key, or with none, keeps the key.
LEMMA KeyKeptByTask ==
  ASSUME TasksOK, NEW a \in Actors, NEW t, Becomes(a, t), t.at \notin Minting,
         t.key = None \/ (task[a].at \notin Minting /\ t.key = task[a].key)
  PROVE  \A b \in Actors : KeyKept(b)
<1>1. task \in [Actors -> Task] /\ task' = [task EXCEPT ![a] = t]
  BY DEF TasksOK, EnrollmentTypeOK, Becomes
<1> QED  BY <1>1 DEF KeyKept

\* A failed attempt gives its key up.
LEMMA EndedKeyless == ASSUME NEW a \in Actors PROVE Ended(a).key = None /\ Ended(a).at \notin Minting
BY DEF Ended, Off, Fresh, Minting

\* load_or_create_secret.
LEMMA IdentityKeys ==
  ASSUME TasksOK, KeyInv, NEW a \in Actors,
         LoadIdentity(a) \/ TruncateIdentity(a) \/ WriteIdentity(a)
  PROVE  KeyInv'
<1>t. task \in [Actors -> Task] /\ \A b \in Actors : TaskOf(b, task[b])
  BY DEF TasksOK, EnrollmentTypeOK
<1>k. \A b \in Actors : task[b].key \in Keys \cup {None}
  BY <1>t DEF Task
<1>r. \A h \in Sites : registered[h] \in Keys \cup {None}
  BY DEF TasksOK, EnrollmentTypeOK
<1>1. CASE LoadIdentity(a)
  <2>0. UNCHANGED <<identity, registered>> /\ task[a].at = "load"
    BY <1>1 DEF LoadIdentity, files, hubs, At
  <2>1. CASE identity \in Keys /\ Becomes(a, [task[a] EXCEPT !.at = AfterIdentity(a), !.key = identity])
             /\ UNCHANGED minters
    <3>1. AfterIdentity(a) \notin Minting
      BY DEF AfterIdentity, Minting
    <3>2. task'[a].at = AfterIdentity(a) /\ task'[a].key = identity
      BY <1>t, <2>1 DEF Becomes, Task
    <3>3. \A b \in Actors : b # a => task'[b] = task[b]
      BY <1>t, <2>1 DEF Becomes
    <3> QED  BY <2>0, <2>1, <3>1, <3>2, <3>3, KeysAreKeys
             DEF KeyInv, AloneToMint, At, Minting
  <2>2. CASE Becomes(a, Ended(a)) /\ UNCHANGED minters
    <3>1. \A b \in Actors : KeyKept(b)
      BY <2>2, EndedKeyless, KeyKeptByTask
    <3> QED  BY <2>0, <2>2, <3>1, KeyInvKept DEF KeyInv
  <2>3. CASE identity = "absent" /\ Becomes(a, [task[a] EXCEPT !.at = AfterMint(a), !.key = a])
             /\ minters' = minters \cup {a}
    <3> SUFFICES ASSUME AloneToMint' PROVE KeyInv'
      BY DEF KeyInv
    <3>1. AloneToMint /\ \A b \in minters : b = a
      BY <2>3 DEF AloneToMint
    <3>2. task'[a].at = "mint" /\ task'[a].key = a
      BY <1>t, <2>3 DEF Becomes, Task, AfterMint
    <3>3. \A b \in Actors : b # a => task'[b] = task[b] /\ task[b].at \notin Minting
      BY <1>t, <2>0, <2>3, <3>1 DEF Becomes, KeyInv
    <3> QED  BY <2>0, <2>3, <3>1, <3>2, <3>3 DEF KeyInv, At, Minting
  <2> QED  BY <1>1, <2>1, <2>2, <2>3 DEF LoadIdentity
<1>2. CASE TruncateIdentity(a)
  <2>1. UNCHANGED <<minters, registered>> /\ task[a].at = "mint" /\ identity' = "torn"
    BY <1>2 DEF TruncateIdentity, hubs, At
  <2>2. task'[a].at = "minting" /\ task'[a].key = task[a].key
    BY <1>t, <1>2 DEF TruncateIdentity, Goes, Becomes, Task
  <2>3. \A b \in Actors : b # a => task'[b] = task[b]
    BY <1>t, <1>2 DEF TruncateIdentity, Goes, Becomes
  <2> SUFFICES ASSUME AloneToMint' PROVE KeyInv'
    BY DEF KeyInv
  <2>4. AloneToMint
    BY <2>1 DEF AloneToMint
  <2>5. identity = "absent" /\ a \in minters /\ task[a].key = a
    BY <2>1, <2>4 DEF KeyInv, At, Minting
  <2>6. \A b \in Actors : b # a => task[b].at \notin Minting /\ task[b].key = None
    BY <1>k, <2>4, <2>5, KeysAreKeys DEF KeyInv, AloneToMint
  <2>7. \A h \in Sites : registered[h] = None
    BY <1>r, <2>4, <2>5, KeysAreKeys DEF KeyInv
  <2> QED  BY <2>1, <2>2, <2>3, <2>5, <2>6, <2>7 DEF KeyInv, At, Minting
<1>3. CASE WriteIdentity(a)
  <2>1. UNCHANGED <<minters, registered>> /\ task[a].at = "minting" /\ identity' = task[a].key
    BY <1>3 DEF WriteIdentity, hubs, At
  <2>2. task'[a].at = AfterIdentity(a) /\ task'[a].key = task[a].key
    BY <1>t, <1>3 DEF WriteIdentity, Goes, Becomes, Task
  <2>3. \A b \in Actors : b # a => task'[b] = task[b]
    BY <1>t, <1>3 DEF WriteIdentity, Goes, Becomes
  <2>a. AfterIdentity(a) \notin Minting
    BY DEF AfterIdentity, Minting
  <2> SUFFICES ASSUME AloneToMint' PROVE KeyInv'
    BY DEF KeyInv
  <2>4. AloneToMint
    BY <2>1 DEF AloneToMint
  <2>5. identity = "torn" /\ a \in minters /\ task[a].key = a
    BY <2>1, <2>4 DEF KeyInv, At, Minting
  <2>6. \A b \in Actors : b # a => task[b].at \notin Minting /\ task[b].key = None
    BY <1>k, <2>4, <2>5, KeysAreKeys DEF KeyInv, AloneToMint
  <2>7. \A h \in Sites : registered[h] = None
    BY <1>r, <2>4, <2>5, KeysAreKeys DEF KeyInv
  <2> QED  BY <2>1, <2>2, <2>3, <2>a, <2>5, <2>6, <2>7 DEF KeyInv, At, Minting
<1> QED  BY <1>1, <1>2, <1>3

\* Everything else an actor does.
LEMMA WorkKeys ==
  ASSUME TasksOK, KeyInv, NEW a \in Actors,
         TruncateCurrent(a) \/ WriteCurrent(a) \/ ForgetReads(a) \/ ForgetRemoves(a) \/ Redeem(a)
  PROVE  KeyInv'
<1>t. task \in [Actors -> Task] /\ task[a] \in Task
  BY DEF TasksOK, EnrollmentTypeOK
<1>0. UNCHANGED <<identity, minters>>
  BY DEF TruncateCurrent, WriteCurrent, ForgetReads, ForgetRemoves, Redeem, files
<1>1. task[a].at \notin Minting
  BY DEF TruncateCurrent, WriteCurrent, ForgetReads, ForgetRemoves, Redeem, At, Minting
<1>2. ASSUME NEW p, p \notin Minting, Goes(a, p) PROVE \A b \in Actors : KeyKept(b)
  BY <1>t, <1>1, <1>2, KeyKeptByTask DEF Goes, Task
<1>3. AfterForget(a).at \notin Minting /\ AfterForget(a).key \in {None, task[a].key}
  BY <1>t DEF AfterForget, Fresh, Minting, Task
<1>4. \A b \in Actors : KeyKept(b)
  <2>1. CASE TruncateCurrent(a)
    BY <1>2, <2>1 DEF TruncateCurrent, Minting
  <2>2. CASE WriteCurrent(a)
    <3>1. Off.at \notin Minting /\ Off.key = None
      BY DEF Off, Fresh, Minting
    <3>2. a # Cli => AfterSave(a) \notin Minting
      BY ThreeActors DEF AfterSave, Minting
    <3> QED  BY <1>2, <2>2, <3>1, <3>2, KeyKeptByTask DEF WriteCurrent
  <2>3. CASE ForgetReads(a)
    <3> DEFINE t == IF KeptByForget(current) THEN AfterForget(a)
                                             ELSE [task[a] EXCEPT !.at = "remove"]
    <3>1. AfterForget(a) \in Task
      <4>1. TaskOf(a, AfterForget(a))
        BY <2>3, AfterForgetTask DEF ForgetReads, At
      <4> QED  BY <4>1 DEF TaskOf
    <3>2. t \in Task /\ t.at \notin Minting /\ t.key \in {None, task[a].key}
      BY <1>t, <1>3, <3>1 DEF Minting, Task, Places
    <3>3. Dropped(t).at = t.at /\ Dropped(t).key = t.key
      BY <3>2 DEF Dropped, Task
    <3>4. Becomes(a, Dropped(t))
      BY <2>3 DEF ForgetReads
    <3> HIDE DEF t
    <3> QED  BY <1>1, <3>2, <3>3, <3>4, KeyKeptByTask
  <2>4. CASE ForgetRemoves(a)
    <3>1. task'[a] = AfterForget(a)
      BY <2>4 DEF ForgetRemoves
    <3>2. ASSUME NEW b \in Actors, b # a
          PROVE  \/ task'[b] = task[b]
                 \/ task[b].at = "saving" /\ task'[b] = [task[b] EXCEPT !.at = "unlinked"]
      BY <2>4, <3>2 DEF ForgetRemoves, At
    <3>3. \A b \in Actors : task[b] \in Task
      BY <1>t
    <3> QED  BY <1>1, <1>3, <3>1, <3>2, <3>3 DEF KeyKept, Minting, Task
  <2>5. CASE Redeem(a)
    BY <1>2, <2>5, EndedKeyless, KeyKeptByTask DEF Redeem, Minting
  <2> QED  BY <2>1, <2>2, <2>3, <2>4, <2>5
<1>5. AloneToMint => \A h \in Sites : registered'[h] \in {None, identity}
  <2>1. CASE Redeem(a)
    <3>1. AloneToMint => task[a].key \in {None, identity}
      BY <1>1 DEF KeyInv
    <3>2. registered \in [Sites -> Keys \cup {None}]
      BY DEF TasksOK, EnrollmentTypeOK
    <3> QED  BY <2>1, <3>1, <3>2 DEF Redeem, KeyInv
  <2>2. CASE TruncateCurrent(a) \/ WriteCurrent(a) \/ ForgetReads(a) \/ ForgetRemoves(a)
    BY <2>2 DEF TruncateCurrent, WriteCurrent, ForgetReads, ForgetRemoves, hubs, KeyInv
  <2> QED  BY <2>1, <2>2
<1> QED  BY <1>0, <1>4, <1>5, KeyInvKept

\* connect_bridge.
LEMMA ConnectKeys ==
  ASSUME TasksOK, KeyInv, Connects
  PROVE  KeyInv'
<1>a. Op \in Actors
  BY ThreeActors
<1>t. task \in [Actors -> Task] /\ task[Op] \in Task
  BY <1>a DEF TasksOK, EnrollmentTypeOK
<1>0. UNCHANGED <<identity, minters>>
  BY DEF Connects, Ends, Resolve, AutoEnroll, Validate, files
<1>1. task[Op].at \notin Minting
  BY DEF Connects, Ends, Resolve, AutoEnroll, Validate, At, Minting
<1>2. \A b \in Actors : KeyKept(b)
  <2>1. CASE Ends
    BY <1>a, <2>1, KeyKeptByTask DEF Ends, Off, Fresh, Minting
  <2>2. CASE Resolve
    <3>1. CASE Becomes(Op, [task[Op] EXCEPT !.at = "validate", !.ticket = override, !.source = "environment"])
      <4>1. LET t == [task[Op] EXCEPT !.at = "validate", !.ticket = override, !.source = "environment"]
            IN  t.at \notin Minting /\ t.key = task[Op].key
        BY <1>t DEF Minting, Task
      <4> QED  BY <1>a, <1>1, <3>1, <4>1, KeyKeptByTask
    <3>2. CASE Becomes(Op, [task[Op] EXCEPT !.at = "validate", !.ticket = current.ticket,
                                         !.source = SourceOf(current), !.resolved = current])
      <4>1. LET t == [task[Op] EXCEPT !.at = "validate", !.ticket = current.ticket,
                                         !.source = SourceOf(current), !.resolved = current]
            IN  t.at \notin Minting /\ t.key = task[Op].key
        BY <1>t DEF Minting, Task
      <4> QED  BY <1>a, <1>1, <3>2, <4>1, KeyKeptByTask
    <3>3. CASE Becomes(Op, [task[Op] EXCEPT !.at = "enroll", !.source = "auto_enrolled", !.resolved = current])
      <4>1. LET t == [task[Op] EXCEPT !.at = "enroll", !.source = "auto_enrolled", !.resolved = current]
            IN  t.at \notin Minting /\ t.key = task[Op].key
        BY <1>t DEF Minting, Task
      <4> QED  BY <1>a, <1>1, <3>3, <4>1, KeyKeptByTask
    <3> QED  BY <2>2, <3>1, <3>2, <3>3 DEF Resolve
  <2>3. CASE AutoEnroll
    <3>1. PICK t : Becomes(Op, t) /\ t.at \notin Minting /\ t.key \in {None, task[Op].key}
      <4>1. ASSUME NEW out
            PROVE  [task[Op] EXCEPT !.at = "save", !.ticket = out].at = "save"
                   /\ [task[Op] EXCEPT !.at = "save", !.ticket = out].key = task[Op].key
        BY <1>t DEF Task
      <4> QED  BY <1>a, <2>3, <4>1, EndedKeyless DEF AutoEnroll, Minting
    <3> QED  BY <1>a, <1>1, <3>1, KeyKeptByTask
  <2>4. CASE Validate
    <3>1. CASE Becomes(Op, [task[Op] EXCEPT !.at = "paired", !.key = None,
               !.resolved = Absent, !.dropped = Absent])
      <4>1. LET t == [task[Op] EXCEPT !.at = "paired", !.key = None,
               !.resolved = Absent, !.dropped = Absent]
            IN  t.at \notin Minting /\ t.key = None
        BY <1>t DEF Minting, Task
      <4> QED  BY <1>a, <3>1, <4>1, KeyKeptByTask
    <3>2. CASE Goes(Op, "forget")
      <4>1. LET t == [task[Op] EXCEPT !.at = "forget"]
            IN  t.at \notin Minting /\ t.key = task[Op].key
        BY <1>t DEF Minting, Task
      <4> QED  BY <1>a, <1>1, <3>2, <4>1, KeyKeptByTask DEF Goes
    <3>3. CASE Becomes(Op, Ended(Op))
      BY <1>a, <3>3, EndedKeyless, KeyKeptByTask
    <3> QED  BY <2>4, <3>1, <3>2, <3>3 DEF Validate
  <2> QED  BY <2>1, <2>2, <2>3, <2>4 DEF Connects
<1>3. AloneToMint => \A h \in Sites : registered'[h] \in {None, identity}
  <2>1. CASE AutoEnroll
    <3>1. AloneToMint => task[Op].key \in {None, identity}
      BY <1>a, <1>1 DEF KeyInv
    <3>2. registered \in [Sites -> Keys \cup {None}]
      BY DEF TasksOK, EnrollmentTypeOK
    <3> QED  BY <2>1, <3>1, <3>2 DEF AutoEnroll, KeyInv
  <2>2. CASE Ends \/ Resolve \/ Validate
    BY <2>2 DEF Ends, Resolve, Validate, hubs, KeyInv
  <2> QED  BY <2>1, <2>2 DEF Connects
<1> QED  BY <1>0, <1>2, <1>3, KeyInvKept

\* Jobs, failures, the user and the hubs.
LEMMA OutsideKeys ==
  ASSUME TasksOK, KeyInv, StartNew \/ Outside
  PROVE  KeyInv'
<1>t. task \in [Actors -> Task] /\ \A a \in Actors : task[a] \in Task
  BY DEF TasksOK, EnrollmentTypeOK
<1>0. UNCHANGED <<identity, minters>>
  BY DEF StartNew, Outside, Fault, Pair, Reenroll, RecreateHub, Restart, Retry, Crash, files
<1>f. \A p, s : Fresh(p, s).key = None /\ Fresh(p, s).at = p
  BY DEF Fresh
<1>1. \A b \in Actors : KeyKept(b)
  <2>1. CASE StartNew
    BY <1>t, <1>f, <2>1, ThreeActors DEF StartNew, Off, KeyKept, Minting
  <2>2. ASSUME NEW a \in Actors, Fault(a) PROVE \A b \in Actors : KeyKept(b)
    <3>1. CASE At(a, "remove")
      <4>1. Becomes(a, AfterForget(a)) /\ task[a].at \notin Minting
        BY <2>2, <3>1 DEF Fault, At, Minting
      <4>2. AfterForget(a).at \notin Minting /\ AfterForget(a).key \in {None, task[a].key}
        BY <1>t DEF AfterForget, Fresh, Minting, Task
      <4> QED  BY <4>1, <4>2, KeyKeptByTask
    <3>2. CASE ~At(a, "remove") /\ task[a].at \in {"save", "saving", "unlinked"}
               /\ task[a].source = "auto_enrolled"
      <4>1. Becomes(a, [task[a] EXCEPT !.at = "validate"]) /\ task[a].at \notin Minting
        BY <2>2, <3>2 DEF Fault, Minting
      <4>2. [task[a] EXCEPT !.at = "validate"].at \notin Minting
            /\ [task[a] EXCEPT !.at = "validate"].key = task[a].key
        BY <1>t DEF Minting, Task
      <4> QED  BY <4>1, <4>2, KeyKeptByTask
    <3>3. CASE ~At(a, "remove") /\ ~(/\ task[a].at \in {"save", "saving", "unlinked"}
                                     /\ task[a].source = "auto_enrolled")
      <4>1. Becomes(a, Ended(a))
        BY <2>2, <3>3 DEF Fault
      <4> QED  BY <4>1, EndedKeyless, KeyKeptByTask
    <3> QED  BY <3>1, <3>2, <3>3
  <2>3. ASSUME NEW a \in Actors, NEW h \in Sites, Pair(a, h) PROVE \A b \in Actors : KeyKept(b)
    <3>1. PICK t : Becomes(a, t) /\ t.at = "load" /\ t.key = None
      BY <2>3 DEF Pair, Fresh
    <3> QED  BY <3>1, KeyKeptByTask DEF Minting
  <2>4. ASSUME NEW s \in Sites, Reenroll(s) PROVE \A b \in Actors : KeyKept(b)
    BY <1>f, <2>4, KeyKeptByTask, ThreeActors DEF Reenroll, Minting
  <2>5. CASE Restart
    <3>1. PICK t : Becomes(Job, t) /\ t.at \notin Minting /\ t.key = None
      BY <1>f, <2>5 DEF Restart, Minting
    <3> QED  BY <3>1, KeyKeptByTask, ThreeActors
  <2>6. CASE Retry
    BY <2>6, EndedKeyless, KeyKeptByTask, ThreeActors DEF Retry
  <2>7. ASSUME NEW h \in Sites, RecreateHub(h) PROVE \A b \in Actors : KeyKept(b)
    BY <2>7 DEF RecreateHub, KeyKept
  <2>8. CASE Crash
    BY <1>t, <1>f, <2>8, ThreeActors DEF Crash, Becomes, Off, KeyKept, Minting
  <2> QED  BY <2>1, <2>2, <2>3, <2>4, <2>5, <2>6, <2>7, <2>8 DEF Outside
<1>2. AloneToMint => \A h \in Sites : registered'[h] \in {None, identity}
  <2>1. \A h \in Sites : registered'[h] \in {None, registered[h]}
    <3>1. registered \in [Sites -> Keys \cup {None}]
      BY DEF TasksOK, EnrollmentTypeOK
    <3> QED  BY <3>1 DEF StartNew, Outside, Fault, Pair, Reenroll, RecreateHub, Restart, Retry, Crash, hubs
  <2> QED  BY <2>1 DEF KeyInv
<1> QED  BY <1>0, <1>1, <1>2, KeyInvKept

\* While no two actors found the identity missing, the hubs know the app by
\* the key that a later launch will read from disk.
THEOREM HubsKnowOurKey == EnrollmentSpec => []HubsKnowTheSavedKey
<1>1. EnrollmentInit => KeyInv
  BY DEF EnrollmentInit, KeyInv, Minting, At, Fresh, Off
<1>2. TasksOK /\ KeyInv /\ [EnrollmentNext]_enrollmentVars => KeyInv'
  <2> SUFFICES ASSUME TasksOK, KeyInv, [EnrollmentNext]_enrollmentVars PROVE KeyInv'
    OBVIOUS
  <2>1. ASSUME NEW a \in Actors, Works(a) PROVE KeyInv'
    BY <2>1, IdentityKeys, WorkKeys DEF Works
  <2>2. CASE UNCHANGED enrollmentVars
    BY <2>2 DEF enrollmentVars, files, hubs, KeyInv, AloneToMint, At
  <2> QED  BY <2>1, <2>2, ConnectKeys, OutsideKeys DEF EnrollmentNext
<1>3. KeyInv => HubsKnowTheSavedKey
  BY DEF KeyInv, HubsKnowTheSavedKey
<1> QED  BY <1>1, <1>2, <1>3, TasksInit, TasksStep, PTL DEF EnrollmentSpec
=============================================================================
