--------------------------- MODULE InstancesProofs ---------------------------
(***************************************************************************)
(* Theorems about Instances, for any launches, any numbers of children and *)
(* faults, and whatever the OS does for the children of an ended process.  *)
(*                                                                         *)
(* That a sweep spares what a running process recorded rests on the owners *)
(* file: it may lag behind the set in memory when a write fails, but never *)
(* loses a live child.                                                     *)
(***************************************************************************)
EXTENDS Instances, FunctionTheorems, FiniteSetTheorems, TLAPS

\* The children a process started so far are the first ones.
Numbered ==
  \A a \in Apps :
    \E n \in 0..Starts[a] :
      /\ Spawned(a) = {a} \X (1..n)
      /\ op[a] = "adding" => n > 0

\* An operator runs in a process that is up, and only its loop has children.
Placed ==
  /\ \A a \in Apps : op[a] # "off" => ui[a] = "up"
  /\ \A c \in Children :
       Live(c) /\ ui[Owner(c)] # "gone" => op[Owner(c)] \in {"loop", "adding"}

\* What a process has on file of its children is known to it while they live.
Registered ==
  /\ \A a \in Apps : owners[a] \subseteq ChildrenOf(a) /\ pids[a] \subseteq ChildrenOf(a)
  /\ \A c \in Children :
       /\ child[c] = "none" => c \notin owners[Owner(c)] /\ c \notin pids[Owner(c)]
       /\ Live(c) /\ Running(Owner(c)) /\ c \in owners[Owner(c)] => c \in pids[Owner(c)]

\* A sweep is after children that were started.
Targeted == \A a \in Apps : \A c \in targets[a] : child[c] # "none"

\* At every stage of a sweep, what was recorded when it began is protected.
Spares(a) ==
  \A c \in before[a].recorded :
    /\ child[c] # "none" /\ Owner(c) # a
    /\ Live(c) /\ Running(Owner(c)) =>
         /\ op[a] = "read" => c \in owners[Owner(c)]
         /\ op[a] = "list" => c \in protected[a]
         /\ op[a] = "kill" => c \notin targets[a]

\* At every stage of a sweep, what its stray children are in for.
Sweeps(a) ==
  \A c \in before[a].strays :
    /\ child[c] # "none" /\ ui[Owner(c)] = "gone"
    /\ Live(c) /\ Owner(c) \notin reused =>
         /\ op[a] = "list" => c \notin protected[a]
         /\ op[a] = "kill" => c \in targets[a]
         /\ op[a] \notin {"loop", "adding"}

Kept ==
  /\ Placed
  /\ Registered
  /\ Targeted
  /\ \A a \in Apps : op[a] \in {"read", "list", "kill"} => Spares(a)
  /\ \A a \in Apps : op[a] # "off" => Sweeps(a)

InstancesInv == InstancesTypeOK /\ Numbered /\ Kept

LEMMA OwnerIsApp == \A c \in Children : Owner(c) \in Apps
BY DEF Children, Owner

LEMMA ChildShape ==
  ASSUME NEW a \in Apps, NEW i
  PROVE  /\ <<a, i>> \in Children <=> i \in 1..Starts[a]
         /\ Owner(<<a, i>>) = a
BY DEF Children, Owner

\* The properties follow from the invariant.
LEMMA KeptIsEnough == InstancesInv => RecordedIsSpared /\ StraysAreSwept
<1> SUFFICES ASSUME InstancesInv PROVE RecordedIsSpared /\ StraysAreSwept
  OBVIOUS
<1>1. RecordedIsSpared
  BY DEF InstancesInv, Kept, Spares, RecordedIsSpared
<1>2. StraysAreSwept
  BY DEF InstancesInv, Kept, Sweeps, StraysAreSwept
<1> QED  BY <1>1, <1>2

\* As many children are there as were started.
LEMMA PrefixSize ==
  ASSUME NEW a, NEW n \in Nat
  PROVE  Cardinality({a} \X (1..n)) = n
<1> DEFINE f == [i \in 1..n |-> <<a, i>>]
<1>1. f \in [1..n -> {a} \X (1..n)]
  OBVIOUS
<1>2. \A i, j \in 1..n : f[i] = f[j] => i = j
  OBVIOUS
<1>3. \A x \in {a} \X (1..n) : \E i \in 1..n : f[i] = x
  <2> SUFFICES ASSUME NEW x \in {a} \X (1..n) PROVE \E i \in 1..n : f[i] = x
    OBVIOUS
  <2>1. x = <<a, x[2]>> /\ x[2] \in 1..n
    OBVIOUS
  <2> QED  BY <2>1
<1>4. f \in Bijection(1..n, {a} \X (1..n))
  BY <1>1, <1>2, <1>3, Fun_IsBij
<1>5. ExistsBijection(1..n, {a} \X (1..n))
  BY <1>4, Fun_ExistsBij
<1>6. IsFiniteSet(1..n) /\ Cardinality(1..n) = n
  BY FS_Interval
<1> QED  BY <1>5, <1>6, FS_Bijection

\* The next child of a process is one that was not started.
LEMMA NextChild ==
  ASSUME Numbered, NEW a \in Apps
  PROVE  /\ Cardinality(Spawned(a)) \in 0..Starts[a]
         /\ Spawned(a) = {a} \X (1..Cardinality(Spawned(a)))
         /\ op[a] = "adding" => <<a, Cardinality(Spawned(a))>> \in Spawned(a)
<1>1. PICK n \in 0..Starts[a] : Spawned(a) = {a} \X (1..n) /\ (op[a] = "adding" => n > 0)
  BY DEF Numbered
<1>2. Starts[a] \in Nat
  BY InstancesAssumption
<1>3. n \in Nat
  BY <1>2
<1>5. Cardinality({a} \X (1..n)) = n
  BY <1>3, PrefixSize, Zenon
<1>4. Cardinality(Spawned(a)) = n
  BY <1>1, <1>5
<1> QED  BY <1>1, <1>2, <1>4

LEMMA KeptInit == Init => InstancesInv
<1> SUFFICES ASSUME Init PROVE InstancesInv
  OBVIOUS
<1>1. InstancesTypeOK
  BY InstancesAssumption DEF Init, InstancesTypeOK
<1>2. Numbered
  <2> SUFFICES ASSUME NEW a \in Apps
               PROVE  \E n \in 0..Starts[a] : /\ Spawned(a) = {a} \X (1..n)
                                              /\ op[a] = "adding" => n > 0
    BY DEF Numbered
  <2>1. Spawned(a) = {a} \X (1..0) /\ op[a] # "adding"
    BY DEF Init, Spawned, ChildrenOf
  <2>2. 0 \in 0..Starts[a]
    BY InstancesAssumption
  <2> QED  BY <2>1, <2>2
<1>3. Kept
  BY OwnerIsApp DEF Init, Kept, Placed, Registered, Targeted, Spares, Sweeps, Live, Running
<1> QED  BY <1>1, <1>2, <1>3 DEF InstancesInv

\* Only the start of a child changes how many there are.
LEMMA NumberedKept ==
  ASSUME Numbered,
         \A c \in Children : child'[c] = "none" <=> child[c] = "none",
         \A a \in Apps : op'[a] = "adding" => op[a] = "adding"
  PROVE  Numbered'
<1> SUFFICES ASSUME NEW a \in Apps
             PROVE  \E n \in 0..Starts[a] : /\ Spawned(a)' = {a} \X (1..n)
                                            /\ op'[a] = "adding" => n > 0
  BY DEF Numbered
<1>1. Spawned(a)' = Spawned(a)
  BY DEF Spawned, ChildrenOf
<1> QED  BY <1>1 DEF Numbered
------------------------------------------------------------------------------
(* Types.                                                                  *)

\* What save leaves in memory and on file.
LEMMA SaveTyped ==
  ASSUME InstancesTypeOK, NEW a \in Apps, NEW set \in SUBSET Children, Save(a, set)
  PROVE  /\ pids' = [pids EXCEPT ![a] = set]
         /\ owners' = [owners EXCEPT ![a] = set] \/ owners' = owners
         /\ pids' \in [Apps -> SUBSET Children] /\ owners' \in [Apps -> SUBSET Children]
         /\ faults' \in 0..MaxFaults
BY InstancesAssumption DEF Save, Fail, InstancesTypeOK

LEMMA WindowTypes ==
  ASSUME InstancesTypeOK, NEW g \in Guis,
         \/ Launch(g) \/ ClearMarker(g) \/ OpenWindow(g) \/ AskToShow(g)
         \/ TakeShowRequest(g) \/ ShowWindow(g)
  PROVE  InstancesTypeOK'
<1>0. g \in Apps /\ Guis \subseteq Apps
  BY DEF Apps
<1>1. UNCHANGED <<op, asked, family, registry, sweep>>
  BY DEF Launch, ClearMarker, OpenWindow, AskToShow, TakeShowRequest, ShowWindow
<1>2. ui' \in [Apps -> {"off", "clearing", "opening", "up", "asking", "gone"}]
  BY <1>0 DEF InstancesTypeOK, Launch, ClearMarker, OpenWindow, AskToShow, TakeShowRequest, ShowWindow
<1>3. lock' \in Guis \cup {None} /\ holder' \in [Guis -> Guis \cup {None}] /\ faults' \in 0..MaxFaults
  BY InstancesAssumption DEF InstancesTypeOK, Launch, ClearMarker, OpenWindow, AskToShow,
     TakeShowRequest, ShowWindow, Fail
<1>4. marker' \in BOOLEAN /\ show' \subseteq Guis /\ waiting' \subseteq Guis
  BY DEF InstancesTypeOK, Launch, ClearMarker, OpenWindow, AskToShow, TakeShowRequest, ShowWindow
<1> QED  BY <1>1, <1>2, <1>3, <1>4 DEF InstancesTypeOK, family, registry, sweep

LEMMA SweepTypes ==
  ASSUME InstancesTypeOK, NEW a \in Apps,
         StartOperator(a) \/ SweepRead(a) \/ SweepList(a) \/ SweepKill(a)
  PROVE  InstancesTypeOK'
<1>1. CASE StartOperator(a)
  <2>1. before' \in [Apps -> [recorded : SUBSET Children, strays : SUBSET Children]]
    BY <1>1 DEF InstancesTypeOK, StartOperator
  <2> QED  BY <1>1, <2>1 DEF InstancesTypeOK, StartOperator, window, family, registry
<1>2. CASE SweepRead(a)
  <2>1. UNION {owners[b] : b \in {o \in Apps : OtherOwner(a, o)}} \subseteq Children
    BY DEF InstancesTypeOK
  <2>2. owners' \in [Apps -> SUBSET Children]
    BY <1>2 DEF InstancesTypeOK, SweepRead
  <2> QED  BY <1>2, <2>1, <2>2 DEF InstancesTypeOK, SweepRead, window, family
<1>3. CASE SweepList(a)
  <2>1. targets' \in [Apps -> SUBSET Children]
    BY <1>3 DEF InstancesTypeOK, SweepList, Orphans, HostProcesses
  <2>2. before' \in [Apps -> [recorded : SUBSET Children, strays : SUBSET Children]]
    <3>1. before' = before \/ before' = [before EXCEPT ![a].strays = {}]
      BY <1>3 DEF SweepList
    <3> QED  BY <3>1 DEF InstancesTypeOK
  <2>3. faults' \in 0..MaxFaults
    BY <1>3, InstancesAssumption DEF InstancesTypeOK, SweepList, Fail
  <2> QED  BY <1>3, <2>1, <2>2, <2>3 DEF InstancesTypeOK, SweepList, window, family, registry
<1>4. CASE SweepKill(a)
  <2>1. before' \in [Apps -> [recorded : SUBSET Children, strays : SUBSET Children]]
    BY <1>4 DEF InstancesTypeOK, SweepKill
  <2> QED  BY <1>4, <2>1 DEF InstancesTypeOK, SweepKill, window, registry
<1> QED  BY <1>1, <1>2, <1>3, <1>4

LEMMA OperatorTypes ==
  ASSUME InstancesTypeOK, Numbered, NEW a \in Apps,
         Spawn(a) \/ Record(a) \/ Publish(a) \/ StopOperator(a)
  PROVE  InstancesTypeOK'
<1>1. CASE Spawn(a)
  <2> DEFINE c == <<a, Cardinality(Spawned(a)) + 1>>
  <2>1. tied' \subseteq Children
    BY <1>1 DEF InstancesTypeOK, Spawn
  <2> QED  BY <1>1, <2>1 DEF InstancesTypeOK, Spawn, window, registry, sweep
<1>2. CASE Record(a)
  <2> DEFINE set == pids[a] \cup {<<a, Cardinality(Spawned(a))>>}
  <2>1. set \in SUBSET Children
    BY <1>2, NextChild DEF InstancesTypeOK, Record, Spawned, ChildrenOf
  <2>2. /\ pids' \in [Apps -> SUBSET Children] /\ owners' \in [Apps -> SUBSET Children]
        /\ faults' \in 0..MaxFaults
    BY <1>2, <2>1, SaveTyped DEF Record, Add
  <2> QED  BY <1>2, <2>2 DEF InstancesTypeOK, Record, window, family, sweep
<1>3. CASE Publish(a)
  <2>1. {c \in ChildrenOf(a) : Live(c)} \in SUBSET Children
    BY DEF ChildrenOf
  <2>2. /\ pids' \in [Apps -> SUBSET Children] /\ owners' \in [Apps -> SUBSET Children]
        /\ faults' \in 0..MaxFaults
    BY <1>3, <2>1, SaveTyped DEF Publish
  <2> QED  BY <1>3, <2>2 DEF InstancesTypeOK, Publish, window, family, sweep
<1>4. CASE StopOperator(a)
  <2>1. /\ pids' \in [Apps -> SUBSET Children] /\ owners' \in [Apps -> SUBSET Children]
        /\ faults' \in 0..MaxFaults
    BY <1>4, SaveTyped DEF StopOperator, registry, InstancesTypeOK
  <2>2. before' \in [Apps -> [recorded : SUBSET Children, strays : SUBSET Children]]
    BY <1>4 DEF InstancesTypeOK, StopOperator
  <2> QED  BY <1>4, <2>1, <2>2 DEF InstancesTypeOK, StopOperator, window
<1> QED  BY <1>1, <1>2, <1>3, <1>4

LEMMA OtherTypes ==
  ASSUME InstancesTypeOK,
         \/ \E a \in Consoles : LaunchConsole(a)
         \/ \E a \in Apps : Signal(a) \/ Exit(a) \/ Die(a) \/ PidReused(a)
         \/ \E c \in Children : ChildWatches(c) \/ ChildSeesEof(c) \/ ChildDies(c)
  PROVE  InstancesTypeOK'
<1>1. ASSUME NEW a \in Consoles, LaunchConsole(a) PROVE InstancesTypeOK'
  BY <1>1 DEF LaunchConsole, InstancesTypeOK, Apps, window, family, registry, sweep
<1>2. ASSUME NEW a \in Apps, Signal(a) \/ PidReused(a) PROVE InstancesTypeOK'
  BY <1>2 DEF Signal, PidReused, InstancesTypeOK, window, family, registry, sweep
<1>3. ASSUME NEW a \in Apps, Vanish(a), faults' \in 0..MaxFaults PROVE InstancesTypeOK'
  <2>1. before' \in [Apps -> [recorded : SUBSET Children, strays : SUBSET Children]]
    BY <1>3 DEF Vanish, InstancesTypeOK
  <2> QED  BY <1>3, <2>1 DEF Vanish, InstancesTypeOK
<1>4. ASSUME NEW a \in Apps, Exit(a) \/ Die(a) PROVE InstancesTypeOK'
  <2>1. faults' \in 0..MaxFaults
    BY <1>4, InstancesAssumption DEF Exit, Die, Fail, InstancesTypeOK
  <2> QED  BY <1>3, <1>4, <2>1 DEF Exit, Die
<1>5. ASSUME NEW c \in Children, ChildWatches(c) \/ ChildSeesEof(c) \/ ChildDies(c)
      PROVE  InstancesTypeOK'
  <2>1. faults' \in 0..MaxFaults
    BY <1>5, InstancesAssumption
    DEF ChildWatches, ChildSeesEof, ChildDies, Fail, InstancesTypeOK
  <2> QED  BY <1>5, <2>1
           DEF ChildWatches, ChildSeesEof, ChildDies, InstancesTypeOK, window, registry, sweep
<1> QED  BY <1>1, <1>2, <1>4, <1>5
------------------------------------------------------------------------------
(* The invariant's other parts, one lemma per group of actions.            *)

\* Steps that neither start nor end a child, nor touch a file or a sweep:
\* processes may start, or end while they have no operator.
LEMMA QuietKept ==
  ASSUME InstancesInv,
         UNCHANGED <<op, family, registry, protected, targets, before>>,
         reused \subseteq reused',
         \A a \in Apps : /\ op[a] # "off" => ui'[a] = "up"
                         /\ ui[a] = "gone" => ui'[a] = "gone"
                         /\ ui'[a] # "gone" => ui[a] # "gone"
  PROVE  Numbered' /\ Kept'
<1>0. child' = child /\ op' = op
  BY DEF family
<1>1. Numbered'
  BY NumberedKept DEF InstancesInv, family
<1>2. Placed'
  BY <1>0, OwnerIsApp DEF InstancesInv, Kept, Placed, Live
<1>3. \A c \in Children : Live(c)' /\ Running(Owner(c))' => Live(c) /\ Running(Owner(c))
  BY <1>0, OwnerIsApp DEF InstancesInv, Kept, Placed, Live, Running
<1>4. Registered'
  BY <1>3 DEF InstancesInv, Kept, Registered, ChildrenOf, family, registry
<1>5. ASSUME NEW a \in Apps, op'[a] \in {"read", "list", "kill"} PROVE Spares(a)'
  <2>1. Spares(a) /\ before[a].recorded \subseteq Children
    BY <1>5 DEF InstancesInv, InstancesTypeOK, Kept
  <2> QED  BY <1>3, <2>1 DEF Spares, family, registry
<1>6. ASSUME NEW a \in Apps, op'[a] # "off" PROVE Sweeps(a)'
  <2>1. Sweeps(a) /\ before[a].strays \subseteq Children
    BY <1>6 DEF InstancesInv, InstancesTypeOK, Kept
  <2> QED  BY <1>0, <2>1, OwnerIsApp DEF Sweeps, Live
<1>7. Targeted'
  BY DEF InstancesInv, Kept, Targeted, family
<1> QED  BY <1>1, <1>2, <1>4, <1>5, <1>6, <1>7 DEF Kept

LEMMA WindowKept ==
  ASSUME InstancesInv,
         \/ \E g \in Guis : \/ Launch(g) \/ ClearMarker(g) \/ OpenWindow(g) \/ AskToShow(g)
                            \/ TakeShowRequest(g) \/ ShowWindow(g)
         \/ \E a \in Consoles : LaunchConsole(a)
         \/ \E a \in Apps : Signal(a) \/ PidReused(a)
  PROVE  Numbered' /\ Kept'
<1>1. /\ UNCHANGED <<op, family, registry, protected, targets, before>>
      /\ reused \subseteq reused'
  BY DEF Launch, ClearMarker, OpenWindow, AskToShow, TakeShowRequest, ShowWindow, LaunchConsole,
         Signal, PidReused, sweep
<1>2. PICK b \in Apps : ui' = ui \/ \E p \in {"clearing", "opening", "up", "asking", "gone"} :
        ui[b] \notin {"up", "gone"} /\ ui' = [ui EXCEPT ![b] = p]
  <2>1. CASE \E g \in Guis : \/ Launch(g) \/ ClearMarker(g) \/ OpenWindow(g) \/ AskToShow(g)
    BY <2>1 DEF Launch, ClearMarker, OpenWindow, AskToShow, Apps
  <2>2. CASE \E g \in Guis : TakeShowRequest(g) \/ ShowWindow(g)
    BY <2>2 DEF TakeShowRequest, ShowWindow, Apps
  <2>3. CASE \E a \in Consoles : LaunchConsole(a)
    BY <2>3 DEF LaunchConsole, Apps
  <2>4. CASE \E a \in Apps : Signal(a) \/ PidReused(a)
    BY <2>4 DEF Signal, PidReused
  <2> QED  BY <2>1, <2>2, <2>3, <2>4
<1>3. \A a \in Apps : /\ op[a] # "off" => ui'[a] = "up"
                      /\ ui[a] = "gone" => ui'[a] = "gone"
                      /\ ui'[a] # "gone" => ui[a] # "gone"
  BY <1>2 DEF InstancesInv, InstancesTypeOK, Kept, Placed
<1> QED  BY <1>1, <1>3, QuietKept

\* A sweep begins: no child of its own is there, and what it takes for
\* recorded or stray is.
LEMMA StartKept ==
  ASSUME InstancesInv, NEW a \in Apps, StartOperator(a)
  PROVE  Numbered' /\ Kept'
<1>1. op' = [op EXCEPT ![a] = "read"] /\ op[a] = "off" /\ ui[a] = "up"
      /\ UNCHANGED <<ui, family, registry, protected, targets, reused>>
  BY DEF StartOperator
<1>2. op \in [Apps -> {"off", "read", "list", "kill", "loop", "adding"}]
  BY DEF InstancesInv, InstancesTypeOK
<1>3. /\ before'[a].recorded = {c \in Children : Live(c) /\ Owner(c) # a /\ c \in owners[Owner(c)]}
      /\ before'[a].strays = {c \in Children : Live(c) /\ ui[Owner(c)] = "gone"}
      /\ \A b \in Apps : b # a => before'[b] = before[b]
  BY DEF StartOperator, InstancesInv, InstancesTypeOK
<1>4. Numbered'
  BY <1>1, <1>2, NumberedKept DEF InstancesInv, family
<1>5. Placed'
  BY <1>1, <1>2, OwnerIsApp DEF InstancesInv, Kept, Placed, Live, family
<1>6. Registered'
  BY <1>1 DEF InstancesInv, Kept, Registered, ChildrenOf, Live, Running, family, registry
<1>7. ASSUME NEW b \in Apps, op'[b] \in {"read", "list", "kill"} PROVE Spares(b)'
  BY <1>1, <1>2, <1>3, <1>7
  DEF InstancesInv, Kept, Spares, Live, Running, family, registry
<1>8. ASSUME NEW b \in Apps, op'[b] # "off" PROVE Sweeps(b)'
  BY <1>1, <1>2, <1>3, <1>8 DEF InstancesInv, Kept, Sweeps, Live, family
<1>9. Targeted'
  BY <1>1 DEF InstancesInv, Kept, Targeted, family
<1> QED  BY <1>4, <1>5, <1>6, <1>7, <1>8, <1>9 DEF Kept

\* The files are read: those of running processes stay and are protected.
LEMMA ReadKept ==
  ASSUME InstancesInv, NEW a \in Apps, SweepRead(a)
  PROVE  Numbered' /\ Kept'
<1>1. /\ op' = [op EXCEPT ![a] = "list"] /\ op[a] = "read" /\ ui[a] = "up"
      /\ UNCHANGED <<ui, family, pids, targets, reused, before>>
  BY DEF SweepRead, InstancesInv, Kept, Placed
<1>2. op \in [Apps -> {"off", "read", "list", "kill", "loop", "adding"}]
  BY DEF InstancesInv, InstancesTypeOK
<1>3. /\ \A b \in Apps : owners'[b] = IF OtherOwner(a, b) THEN owners[b] ELSE {}
      /\ protected'[a] = UNION {owners[b] : b \in {o \in Apps : OtherOwner(a, o)}}
      /\ \A b \in Apps : b # a => protected'[b] = protected[b]
  BY DEF SweepRead, InstancesInv, InstancesTypeOK
<1>4. \A c \in Children : Live(c) /\ Running(Owner(c)) => OtherOwner(a, Owner(c))
  BY <1>1, <1>2, OwnerIsApp DEF InstancesInv, Kept, Placed, Live, Running, OtherOwner
<1>5. Numbered'
  BY <1>1, <1>2, NumberedKept DEF InstancesInv, family
<1>6. Placed'
  BY <1>1, <1>2, OwnerIsApp DEF InstancesInv, Kept, Placed, Live, family
<1>7. Registered'
  BY <1>1, <1>3, OwnerIsApp
  DEF InstancesInv, Kept, Registered, ChildrenOf, Live, Running, family
<1>8. ASSUME NEW b \in Apps, op'[b] \in {"read", "list", "kill"} PROVE Spares(b)'
  <2>1. Spares(b) /\ before[b].recorded \subseteq Children
    BY <1>1, <1>2, <1>8 DEF InstancesInv, InstancesTypeOK, Kept
  <2> SUFFICES ASSUME NEW c \in before[b].recorded, Live(c), Running(Owner(c))
               PROVE  /\ op'[b] = "read" => c \in owners'[Owner(c)]
                      /\ op'[b] = "list" => c \in protected'[b]
                      /\ op'[b] = "kill" => c \notin targets'[b]
    BY <1>1, <2>1 DEF Spares, Live, Running, family
  <2>2. OtherOwner(a, Owner(c)) /\ Owner(c) \in Apps /\ owners'[Owner(c)] = owners[Owner(c)]
    BY <1>3, <1>4, <2>1, OwnerIsApp
  <2>3. CASE b = a
    <3>1. c \in owners[Owner(c)]
      BY <1>1, <2>1, <2>3 DEF Spares
    <3>2. c \in protected'[a]
      BY <1>3, <2>2, <3>1
    <3> QED  BY <1>1, <1>2, <2>3, <3>2
  <2>4. CASE b # a
    BY <1>1, <1>2, <1>3, <2>1, <2>2, <2>4 DEF Spares
  <2> QED  BY <2>3, <2>4
<1>9. ASSUME NEW b \in Apps, op'[b] # "off" PROVE Sweeps(b)'
  <2>1. Sweeps(b) /\ before[b].strays \subseteq Children
    BY <1>1, <1>2, <1>9 DEF InstancesInv, InstancesTypeOK, Kept
  <2>2. CASE b # a
    BY <1>1, <1>2, <1>3, <2>1, <2>2 DEF Sweeps, Live, family
  <2>3. CASE b = a
    <3> SUFFICES ASSUME NEW c \in before[a].strays, Live(c), Owner(c) \notin reused
                 PROVE  c \notin protected'[a]
      BY <1>1, <1>2, <2>1, <2>3 DEF Sweeps, Live, family
    <3>1. ~OtherOwner(a, Owner(c)) /\ c \in Children
      BY <2>1, <2>3 DEF Sweeps, OtherOwner, Running
    <3>2. \A o \in Apps : c \in owners[o] => o = Owner(c)
      BY DEF InstancesInv, Kept, Registered, ChildrenOf
    <3> QED  BY <1>3, <3>1, <3>2
  <2> QED  BY <2>2, <2>3
<1>10. Targeted'
  BY <1>1 DEF InstancesInv, Kept, Targeted, family
<1> QED  BY <1>5, <1>6, <1>7, <1>8, <1>9, <1>10 DEF Kept

\* The processes are listed: protected ones are no targets, strays are.
LEMMA ListKept ==
  ASSUME InstancesInv, NEW a \in Apps, SweepList(a)
  PROVE  Numbered' /\ Kept'
<1>1. /\ op' = [op EXCEPT ![a] = "kill"] /\ op[a] = "list"
      /\ UNCHANGED <<ui, family, registry, reused>>
  BY DEF SweepList
<1>2. op \in [Apps -> {"off", "read", "list", "kill", "loop", "adding"}]
  BY DEF InstancesInv, InstancesTypeOK
<1>3. /\ \/ targets'[a] = HostProcesses \ protected[a] /\ before'[a].strays = before[a].strays
         \/ targets'[a] = {} /\ before'[a].strays = {}
      /\ before'[a].recorded = before[a].recorded
  <2>1. CASE targets' = [targets EXCEPT ![a] = Orphans(a, HostProcesses)] /\ before' = before
    BY <2>1 DEF Orphans, InstancesInv, InstancesTypeOK
  <2>2. CASE targets' = [targets EXCEPT ![a] = {}] /\ before' = [before EXCEPT ![a].strays = {}]
    BY <2>2 DEF InstancesInv, InstancesTypeOK
  <2> QED  BY <2>1, <2>2 DEF SweepList
<1>4. \A b \in Apps : b # a => /\ targets'[b] = targets[b] /\ before'[b] = before[b]
                               /\ protected'[b] = protected[b]
  BY DEF SweepList, InstancesInv, InstancesTypeOK
<1>5. Numbered'
  BY <1>1, <1>2, NumberedKept DEF InstancesInv, family
<1>6. Placed'
  BY <1>1, <1>2, OwnerIsApp DEF InstancesInv, Kept, Placed, Live, family
<1>7. Registered'
  BY <1>1 DEF InstancesInv, Kept, Registered, ChildrenOf, Live, Running, family, registry
<1>8. ASSUME NEW b \in Apps, op'[b] \in {"read", "list", "kill"} PROVE Spares(b)'
  BY <1>1, <1>2, <1>3, <1>4, <1>8
  DEF InstancesInv, Kept, Spares, Live, Running, family, registry
<1>9. ASSUME NEW b \in Apps, op'[b] # "off" PROVE Sweeps(b)'
  <2>1. Sweeps(b) /\ before[b].strays \subseteq Children
    BY <1>1, <1>2, <1>9 DEF InstancesInv, InstancesTypeOK, Kept
  <2> QED  BY <1>1, <1>2, <1>3, <1>4, <2>1 DEF Sweeps, HostProcesses, Live, family
<1>10. Targeted'
  BY <1>1, <1>3, <1>4 DEF InstancesInv, Kept, Targeted, HostProcesses, Live, family
<1> QED  BY <1>5, <1>6, <1>7, <1>8, <1>9, <1>10 DEF Kept

\* Children end: of themselves, with the sweep, or watching their parent go.
LEMMA EndingKept ==
  ASSUME InstancesInv, UNCHANGED <<ui, registry, protected, reused>>,
         \A c \in Children : child'[c] = child[c] \/ (Live(c) /\ child'[c] \in {"watching", "ended"}),
         \A a \in Apps : targets'[a] \subseteq targets[a],
         \A a \in Apps :
           \/ op'[a] = op[a] /\ before'[a] = before[a] /\ targets'[a] = targets[a]
           \/ /\ op[a] = "kill" /\ op'[a] = "loop"
              /\ before'[a].strays = before[a].strays
              /\ \A c \in targets[a] : child'[c] = "ended"
  PROVE  Numbered' /\ Kept'
<1>1. \A c \in Children : Live(c)' => Live(c)
  BY DEF Live
<1>2. \A c \in Children : child'[c] = "none" <=> child[c] = "none"
  BY DEF Live
<1>3. Numbered'
  BY <1>2, NumberedKept DEF InstancesInv
<1>4. Placed'
  BY <1>1, OwnerIsApp DEF InstancesInv, Kept, Placed
<1>5. Registered'
  BY <1>1, <1>2 DEF InstancesInv, Kept, Registered, ChildrenOf, Running, registry
<1>6. ASSUME NEW a \in Apps, op'[a] \in {"read", "list", "kill"} PROVE Spares(a)'
  <2>1. Spares(a) /\ before[a].recorded \subseteq Children /\ op'[a] = op[a]
        /\ before'[a] = before[a] /\ targets'[a] = targets[a]
    BY <1>6 DEF InstancesInv, InstancesTypeOK, Kept
  <2> QED  BY <1>1, <1>2, <2>1 DEF Spares, Running, registry
<1>7. ASSUME NEW a \in Apps, op'[a] # "off" PROVE Sweeps(a)'
  <2>1. Sweeps(a) /\ before[a].strays \subseteq Children /\ before'[a].strays = before[a].strays
    BY <1>7 DEF InstancesInv, InstancesTypeOK, Kept
  <2> QED  BY <1>1, <1>2, <2>1 DEF Sweeps, Live
<1>8. Targeted'
  BY <1>2 DEF InstancesInv, InstancesTypeOK, Kept, Targeted
<1> QED  BY <1>3, <1>4, <1>5, <1>6, <1>7, <1>8 DEF Kept

LEMMA EndSteps ==
  ASSUME InstancesInv,
         \/ \E a \in Apps : SweepKill(a)
         \/ \E c \in Children : ChildWatches(c) \/ ChildSeesEof(c) \/ ChildDies(c)
  PROVE  Numbered' /\ Kept'
<1>1. ASSUME NEW a \in Apps, SweepKill(a) PROVE Numbered' /\ Kept'
  <2>1. \A c \in Children : child'[c] = IF c \in targets[a] THEN "ended" ELSE child[c]
    BY <1>1 DEF SweepKill
  <2>2. /\ op[a] = "kill" /\ op'[a] = "loop" /\ before'[a].strays = before[a].strays
        /\ \A b \in Apps : b # a => /\ op'[b] = op[b] /\ before'[b] = before[b]
                                    /\ targets'[b] = targets[b]
    BY <1>1 DEF SweepKill, InstancesInv, InstancesTypeOK
  <2>3. \A c \in Children : child'[c] = child[c] \/ (Live(c) /\ child'[c] \in {"watching", "ended"})
    BY <2>1 DEF InstancesInv, InstancesTypeOK, Kept, Targeted, Live
  <2>4. \A b \in Apps : targets'[b] \subseteq targets[b]
    BY <1>1 DEF SweepKill, InstancesInv, InstancesTypeOK
  <2>5. \A c \in targets[a] : child'[c] = "ended"
    BY <2>1 DEF InstancesInv, InstancesTypeOK
  <2>6. UNCHANGED <<ui, registry, protected, reused>>
    BY <1>1 DEF SweepKill
  <2> QED  BY <2>2, <2>3, <2>4, <2>5, <2>6, EndingKept
<1>2. ASSUME NEW c \in Children, ChildWatches(c) \/ ChildSeesEof(c) \/ ChildDies(c)
      PROVE  Numbered' /\ Kept'
  <2>1. UNCHANGED <<ui, registry, protected, reused>> /\ UNCHANGED <<op, before, targets>>
    BY <1>2 DEF ChildWatches, ChildSeesEof, ChildDies, sweep
  <2>2. \A d \in Children : child'[d] = child[d] \/ (Live(d) /\ child'[d] \in {"watching", "ended"})
    BY <1>2 DEF ChildWatches, ChildSeesEof, ChildDies, Live, InstancesInv, InstancesTypeOK
  <2> QED  BY <2>1, <2>2, EndingKept
<1> QED  BY <1>1, <1>2

\* A child is started: the next one, on nobody's file yet.
LEMMA SpawnKept ==
  ASSUME InstancesInv, NEW a \in Apps, Spawn(a)
  PROVE  Numbered' /\ Kept'
<1> DEFINE n == Cardinality(Spawned(a))
           c == <<a, n + 1>>
<1>1. /\ op[a] = "loop" /\ c \in Children /\ child' = [child EXCEPT ![c] = "starting"]
      /\ op' = [op EXCEPT ![a] = "adding"] /\ UNCHANGED <<ui, registry, sweep>>
  BY DEF Spawn
<1>2. /\ op \in [Apps -> {"off", "read", "list", "kill", "loop", "adding"}]
      /\ child \in [Children -> {"none", "starting", "watching", "ended"}]
  BY DEF InstancesInv, InstancesTypeOK
<1>3. n \in 0..Starts[a] /\ Spawned(a) = {a} \X (1..n) /\ Starts[a] \in Nat
  BY NextChild, InstancesAssumption DEF InstancesInv
<1>4. Owner(c) = a /\ n + 1 \in 1..Starts[a] /\ child[c] = "none"
  <2>1. Owner(c) = a /\ n + 1 \in 1..Starts[a]
    BY <1>1, ChildShape
  <2>2. c \notin Spawned(a)
    BY <1>3
  <2> QED  BY <1>1, <2>1, <2>2 DEF Spawned, ChildrenOf
<1>5. \A d \in Children : d # c => child'[d] = child[d]
  BY <1>1, <1>2
<1>6. Numbered'
  <2> SUFFICES ASSUME NEW b \in Apps
               PROVE  \E m \in 0..Starts[b] : /\ Spawned(b)' = {b} \X (1..m)
                                              /\ op'[b] = "adding" => m > 0
    BY DEF Numbered
  <2>1. CASE b = a
    <3>1. Spawned(a)' = Spawned(a) \cup {c}
      BY <1>1, <1>2, <1>4, <1>5 DEF Spawned, ChildrenOf
    <3>2. {a} \X (1..(n + 1)) = ({a} \X (1..n)) \cup {c}
      <4>1. 1..(n + 1) = (1..n) \cup {n + 1}
        BY <1>3
      <4> QED  BY <4>1
    <3>3. n + 1 \in 0..Starts[a] /\ n + 1 > 0
      BY <1>3, <1>4
    <3> QED  BY <1>3, <2>1, <3>1, <3>2, <3>3
  <2>2. CASE b # a
    <3>1. Spawned(b)' = Spawned(b) /\ op'[b] = op[b]
      BY <1>1, <1>2, <1>4, <1>5, <2>2 DEF Spawned, ChildrenOf
    <3> QED  BY <3>1 DEF InstancesInv, Numbered
  <2> QED  BY <2>1, <2>2
<1>7. \A d \in Children : d # c => (Live(d)' <=> Live(d))
  BY <1>5 DEF Live
<1>8. Placed'
  BY <1>1, <1>2, <1>4, <1>7, OwnerIsApp DEF InstancesInv, Kept, Placed
<1>9. Registered'
  <2>1. c \notin owners[a] /\ c \notin pids[a]
    BY <1>1, <1>4 DEF InstancesInv, Kept, Registered
  <2> QED  BY <1>1, <1>4, <1>5, <1>7, <2>1
           DEF InstancesInv, Kept, Registered, ChildrenOf, Running, registry
<1>10. Targeted'
  BY <1>1, <1>2 DEF InstancesInv, InstancesTypeOK, Kept, Targeted, sweep
<1>11. ASSUME NEW b \in Apps, op'[b] \in {"read", "list", "kill"} PROVE Spares(b)'
  <2>1. Spares(b) /\ before[b].recorded \subseteq Children /\ op'[b] = op[b] /\ b # a
    BY <1>1, <1>2, <1>11 DEF InstancesInv, InstancesTypeOK, Kept
  <2>2. c \notin before[b].recorded
    BY <1>4, <2>1 DEF Spares
  <2> QED  BY <1>1, <1>5, <1>7, <2>1, <2>2 DEF Spares, Running, registry, sweep
<1>12. ASSUME NEW b \in Apps, op'[b] # "off" PROVE Sweeps(b)'
  <2>1. Sweeps(b) /\ before[b].strays \subseteq Children
    BY <1>1, <1>2, <1>12 DEF InstancesInv, InstancesTypeOK, Kept
  <2>2. c \notin before[b].strays
    BY <1>4, <2>1 DEF Sweeps
  <2> QED  BY <1>1, <1>2, <1>5, <1>7, <2>1, <2>2 DEF Sweeps, sweep
<1> QED  BY <1>6, <1>8, <1>9, <1>10, <1>11, <1>12 DEF Kept

\* The file follows the set in memory, or stays: either way it keeps what
\* lives.
LEMMA SaveKept ==
  ASSUME InstancesInv, NEW a \in Apps, NEW set \in SUBSET ChildrenOf(a),
         pids' = [pids EXCEPT ![a] = set],
         owners' = [owners EXCEPT ![a] = set] \/ owners' = owners,
         UNCHANGED <<ui, reused>>, UNCHANGED <<protected, targets>>,
         \A c \in Children : child'[c] = child[c] \/ (Live(c) /\ child'[c] = "ended"),
         \A c \in set : child[c] # "none",
         \A c \in ChildrenOf(a) : Live(c)' /\ c \in pids[a] => c \in set,
         op[a] \in {"loop", "adding"},
         \A b \in Apps \ {a} : op'[b] = op[b] /\ before'[b] = before[b],
         \/ op'[a] = "loop" /\ before'[a] = before[a]
         \/ /\ op'[a] = "off"
            /\ \A c \in ChildrenOf(a) : ~Live(c)'
  PROVE  Numbered' /\ Kept'
<1>2. /\ pids \in [Apps -> SUBSET Children] /\ owners \in [Apps -> SUBSET Children]
      /\ op \in [Apps -> {"off", "read", "list", "kill", "loop", "adding"}]
  BY DEF InstancesInv, InstancesTypeOK
<1>3. \A c \in Children : /\ Live(c)' => Live(c)
                          /\ child'[c] = "none" <=> child[c] = "none"
  BY DEF Live
<1>4. Numbered'
  BY <1>3, NumberedKept DEF InstancesInv
<1>5. Placed'
  <2>1. \A b \in Apps : op'[b] # "off" => ui[b] = "up"
    BY DEF InstancesInv, Kept, Placed
  <2>2. ASSUME NEW c \in Children, Live(c)', ui[Owner(c)] # "gone"
        PROVE  op'[Owner(c)] \in {"loop", "adding"}
    <3>1. op[Owner(c)] \in {"loop", "adding"}
      BY <2>2 DEF InstancesInv, Kept, Placed, Live
    <3>2. Owner(c) = a => op'[a] # "off"
      BY <2>2 DEF ChildrenOf, Live
    <3> QED  BY <3>1, <3>2, OwnerIsApp
  <2> QED  BY <2>1, <2>2 DEF Placed
<1>6. \A b \in Apps : b # a => owners'[b] = owners[b] /\ pids'[b] = pids[b]
  BY <1>2
<1>7. pids'[a] = set /\ (owners'[a] = set \/ owners'[a] = owners[a])
  BY <1>2
<1>8. \A c \in ChildrenOf(a) : Live(c)' /\ Running(a) /\ c \in owners[a] => c \in owners'[a]
  BY <1>7 DEF InstancesInv, Kept, Registered, ChildrenOf, Live
<1>9. Registered'
  <2>1. \A b \in Apps : owners'[b] \subseteq ChildrenOf(b) /\ pids'[b] \subseteq ChildrenOf(b)
    BY <1>6, <1>7 DEF InstancesInv, Kept, Registered
  <2>2. ASSUME NEW c \in Children
        PROVE  /\ child'[c] = "none" => c \notin owners'[Owner(c)] /\ c \notin pids'[Owner(c)]
               /\ Live(c)' /\ Running(Owner(c))' /\ c \in owners'[Owner(c)] => c \in pids'[Owner(c)]
    <3>1. CASE Owner(c) = a
      BY <1>3, <1>7, <3>1 DEF InstancesInv, Kept, Registered, ChildrenOf, Live, Running
    <3>2. CASE Owner(c) # a
      BY <1>3, <1>6, <3>2, OwnerIsApp DEF InstancesInv, Kept, Registered, Live, Running
    <3> QED  BY <3>1, <3>2
  <2> QED  BY <2>1, <2>2 DEF Registered, ChildrenOf
<1>10. Targeted'
  BY <1>3 DEF InstancesInv, InstancesTypeOK, Kept, Targeted
<1>11. ASSUME NEW b \in Apps, op'[b] \in {"read", "list", "kill"} PROVE Spares(b)'
  <2>1. b # a /\ Spares(b) /\ before[b].recorded \subseteq Children /\ op'[b] = op[b]
        /\ before'[b] = before[b]
    BY <1>11 DEF InstancesInv, InstancesTypeOK, Kept
  <2>2. \A c \in before[b].recorded :
          Live(c)' /\ Running(Owner(c)) /\ c \in owners[Owner(c)] => c \in owners'[Owner(c)]
    BY <1>6, <1>8, <2>1, OwnerIsApp DEF ChildrenOf
  <2> QED  BY <1>3, <2>1, <2>2 DEF Spares, Live, Running
<1>12. ASSUME NEW b \in Apps, op'[b] # "off" PROVE Sweeps(b)'
  <2>1. Sweeps(b) /\ before[b].strays \subseteq Children /\ before'[b] = before[b]
        /\ (op'[b] = op[b] \/ (op[b] \in {"loop", "adding"} /\ op'[b] = "loop"))
    BY <1>12 DEF InstancesInv, InstancesTypeOK, Kept
  <2> QED  BY <1>3, <2>1 DEF Sweeps, Live
<1> QED  BY <1>4, <1>5, <1>9, <1>10, <1>11, <1>12 DEF Kept
LEMMA RegistryKept ==
  ASSUME InstancesInv, NEW a \in Apps, Record(a) \/ Publish(a) \/ StopOperator(a)
  PROVE  Numbered' /\ Kept'
<1>0. /\ op \in [Apps -> {"off", "read", "list", "kill", "loop", "adding"}]
      /\ InstancesTypeOK
  BY DEF InstancesInv, InstancesTypeOK
<1>1. CASE Record(a)
  <2> DEFINE c == <<a, Cardinality(Spawned(a))>>
             set == pids[a] \cup {c}
  <2>1. op[a] = "adding" /\ op' = [op EXCEPT ![a] = "loop"] /\ UNCHANGED <<ui, family, sweep>>
    BY <1>1 DEF Record
  <2>2. c \in Spawned(a)
    BY <2>1, NextChild DEF InstancesInv
  <2>3. set \in SUBSET ChildrenOf(a) /\ \A d \in set : child[d] # "none"
    BY <2>2 DEF InstancesInv, Kept, Registered, Spawned, ChildrenOf
  <2>4. /\ pids' = [pids EXCEPT ![a] = set]
        /\ owners' = [owners EXCEPT ![a] = set] \/ owners' = owners
    BY <1>1 DEF Record, Add, Save
  <2>5. \A b \in Apps \ {a} : op'[b] = op[b] /\ before'[b] = before[b]
    BY <1>0, <2>1 DEF sweep
  <2>6. op'[a] = "loop" /\ before'[a] = before[a]
    BY <1>0, <2>1 DEF sweep
  <2> QED  BY <2>1, <2>3, <2>4, <2>5, <2>6, SaveKept DEF family, sweep
<1>2. CASE Publish(a)
  <2> DEFINE set == {c \in ChildrenOf(a) : Live(c)}
  <2>1. op[a] = "loop" /\ UNCHANGED <<ui, op, family, sweep>>
    BY <1>2 DEF Publish
  <2>2. set \in SUBSET ChildrenOf(a) /\ \A d \in set : child[d] # "none"
    BY DEF Live
  <2>3. /\ pids' = [pids EXCEPT ![a] = set]
        /\ owners' = [owners EXCEPT ![a] = set] \/ owners' = owners
    BY <1>2 DEF Publish, Save
  <2>4. \A c \in ChildrenOf(a) : Live(c)' /\ c \in pids[a] => c \in set
    BY <2>1 DEF Live, family
  <2> QED  BY <2>1, <2>2, <2>3, <2>4, SaveKept DEF family, sweep
<1>3. CASE StopOperator(a)
  <2>1. /\ op[a] = "loop" /\ op' = [op EXCEPT ![a] = "off"]
        /\ UNCHANGED <<ui, reused>> /\ UNCHANGED <<protected, targets>>
        /\ before' = [before EXCEPT ![a].strays = {}]
    BY <1>3 DEF StopOperator
  <2>2. \A c \in Children :
          child'[c] = IF c \in ChildrenOf(a) /\ Live(c) THEN "ended" ELSE child[c]
    BY <1>3 DEF StopOperator
  <2>3. \A c \in Children : child'[c] = child[c] \/ (Live(c) /\ child'[c] = "ended")
    BY <2>2
  <2>4. \A c \in ChildrenOf(a) : ~Live(c)'
    BY <2>2 DEF ChildrenOf, Live
  <2>5. /\ pids' = [pids EXCEPT ![a] = {}]
        /\ owners' = [owners EXCEPT ![a] = {}] \/ owners' = owners
    BY <1>0, <1>3 DEF StopOperator, Save, registry, InstancesTypeOK
  <2>6. \A b \in Apps \ {a} : op'[b] = op[b] /\ before'[b] = before[b]
    BY <1>0, <2>1 DEF InstancesTypeOK
  <2>7. op'[a] = "off"
    BY <1>0, <2>1
  <2>8. {} \in SUBSET ChildrenOf(a) /\ \A c \in {} : child[c] # "none"
    OBVIOUS
  <2>9. \A c \in ChildrenOf(a) : Live(c)' /\ c \in pids[a] => c \in {}
    BY <2>4
  <2> QED  BY <2>1, <2>3, <2>4, <2>5, <2>6, <2>7, <2>8, <2>9, SaveKept
<1> QED  BY <1>1, <1>2, <1>3

\* A process is gone: its children live on or not, its file stays.
LEMMA VanishKept ==
  ASSUME InstancesInv, NEW a \in Apps, Exit(a) \/ Die(a)
  PROVE  Numbered' /\ Kept'
<1>0. InstancesTypeOK /\ Vanish(a) /\ ui[a] # "gone"
  BY DEF Exit, Die, Running, InstancesInv
<1>1. \A c \in Children : child'[c] = child[c] \/ (Live(c) /\ child'[c] = "ended")
  BY <1>0 DEF Vanish
<1>2. /\ \A b \in Apps : b # a => /\ op'[b] = op[b] /\ ui'[b] = ui[b] /\ pids'[b] = pids[b]
                                  /\ protected'[b] = protected[b] /\ targets'[b] = targets[b]
                                  /\ before'[b] = before[b]
      /\ op'[a] = "off" /\ ui'[a] = "gone" /\ pids'[a] = {} /\ targets'[a] = {}
      /\ UNCHANGED <<owners, reused>>
  BY <1>0 DEF Vanish, InstancesTypeOK
<1>3. \A c \in Children : child'[c] = "none" <=> child[c] = "none"
  BY <1>1 DEF Live
<1>4. Numbered'
  BY <1>2, <1>3, NumberedKept DEF InstancesInv
<1>5. Placed'
  BY <1>1, <1>2, OwnerIsApp DEF InstancesInv, Kept, Placed, Live
<1>6. Registered'
  BY <1>1, <1>2, <1>3, OwnerIsApp
  DEF InstancesInv, Kept, Registered, ChildrenOf, Live, Running
<1>7. Targeted'
  BY <1>0, <1>2, <1>3 DEF InstancesInv, InstancesTypeOK, Kept, Targeted
<1>8. ASSUME NEW b \in Apps, op'[b] \in {"read", "list", "kill"} PROVE Spares(b)'
  <2>1. b # a /\ Spares(b) /\ before[b].recorded \subseteq Children
    BY <1>0, <1>2, <1>8 DEF InstancesInv, InstancesTypeOK, Kept
  <2> QED  BY <1>1, <1>2, <1>3, <2>1, OwnerIsApp DEF Spares, Live, Running
<1>9. ASSUME NEW b \in Apps, op'[b] # "off" PROVE Sweeps(b)'
  <2>1. b # a /\ Sweeps(b) /\ before[b].strays \subseteq Children
    BY <1>0, <1>2, <1>9 DEF InstancesInv, InstancesTypeOK, Kept
  <2> QED  BY <1>1, <1>2, <1>3, <2>1, OwnerIsApp DEF Sweeps, Live
<1> QED  BY <1>4, <1>5, <1>6, <1>7, <1>8, <1>9 DEF Kept

------------------------------------------------------------------------------
(* The theorems.                                                           *)

LEMMA InstancesStep == InstancesInv /\ [Next]_vars => InstancesInv'
<1> SUFFICES ASSUME InstancesInv, Next \/ UNCHANGED vars PROVE InstancesInv'
  OBVIOUS
<1>1. CASE UNCHANGED vars
  <2>1. InstancesTypeOK'
    BY <1>1 DEF vars, window, family, registry, sweep, InstancesInv, InstancesTypeOK
  <2>2. /\ UNCHANGED <<op, family, registry, protected, targets, before>>
        /\ reused \subseteq reused' /\ ui' = ui
    BY <1>1 DEF vars, sweep
  <2>3. Numbered' /\ Kept'
    BY <2>2, QuietKept DEF InstancesInv, Kept, Placed
  <2> QED  BY <2>1, <2>3 DEF InstancesInv
<1>2. ASSUME NEW g \in Guis, \/ Launch(g) \/ ClearMarker(g) \/ OpenWindow(g) \/ AskToShow(g)
                            \/ TakeShowRequest(g) \/ ShowWindow(g)
      PROVE  InstancesInv'
  BY <1>2, WindowTypes, WindowKept DEF InstancesInv
<1>3. ASSUME NEW a \in Consoles, LaunchConsole(a) PROVE InstancesInv'
  BY <1>3, OtherTypes, WindowKept DEF InstancesInv
<1>4. ASSUME NEW a \in Apps, \/ StartOperator(a) \/ SweepRead(a) \/ SweepList(a) \/ SweepKill(a)
      PROVE  InstancesInv'
  BY <1>4, SweepTypes, StartKept, ReadKept, ListKept, EndSteps DEF InstancesInv
<1>5. ASSUME NEW a \in Apps, Spawn(a) \/ Record(a) \/ Publish(a) \/ StopOperator(a)
      PROVE  InstancesInv'
  BY <1>5, OperatorTypes, SpawnKept, RegistryKept DEF InstancesInv
<1>6. ASSUME NEW a \in Apps, Signal(a) \/ Exit(a) \/ Die(a) \/ PidReused(a) PROVE InstancesInv'
  BY <1>6, OtherTypes, WindowKept, VanishKept DEF InstancesInv
<1>7. ASSUME NEW c \in Children, ChildWatches(c) \/ ChildSeesEof(c) \/ ChildDies(c)
      PROVE  InstancesInv'
  BY <1>7, OtherTypes, EndSteps DEF InstancesInv
<1> QED  BY <1>1, <1>2, <1>3, <1>4, <1>5, <1>6, <1>7 DEF Next

\* The invariant, for any instance.
THEOREM InstancesInvariant == Spec => []InstancesInv
<1> QED  BY KeptInit, InstancesStep, PTL DEF Spec

\* Every state of the processes, their files and sweeps is well typed.
THEOREM InstancesTypeCorrect == Spec => []InstancesTypeOK
<1>1. InstancesInv => InstancesTypeOK
  BY DEF InstancesInv
<1> QED  BY <1>1, InstancesInvariant, PTL

\* A sweep does not pick a child that a running process had recorded before it
\* began, although owners files are read, replaced and removed without a lock
\* and writes of them fail (orphans.rs).
THEOREM SweepSparesTheRecorded == Spec => []RecordedIsSpared
<1> QED  BY KeptIsEnough, InstancesInvariant, PTL

\* Once an operator has swept, no child of an ended process is left but behind
\* a pid used again (run()).
THEOREM SweepEndsStrays == Spec => []StraysAreSwept
<1> QED  BY KeptIsEnough, InstancesInvariant, PTL
==============================================================================
