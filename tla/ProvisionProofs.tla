-------------------------- MODULE ProvisionProofs --------------------------
(***************************************************************************)
(* Theorems about Provision and the environment it builds, for any files,  *)
(* any requirements in them and all bounds.                                *)
(***************************************************************************)
EXTENDS Provision, TLAPS

Settled == worked /\ ~cut

\* What a builder relies on at each of its places.
Built ==
  /\ at[me] = "install" => staging.mark = NoMark
  /\ at[me] = "mark" => Works(staging)
  /\ at[me] = "place" => ~venv.there
  /\ Settled =>
       /\ at[me] \in {"create", "install", "failed"} => existing[me]
       /\ at[me] \in {"aside", "place"} => Works(staging)

\* What a swap moved aside, and may move back, is complete too,
AsideIsComplete ==
  ~halved /\ at[me] = "place" /\ moved[me] => (old.mark # NoMark => Works(old))

\* and its fingerprint is that of what was installed.
AsideTells ==
  named /\ ~parted /\ ~halved /\ at[me] = "place" /\ moved[me] =>
    (old.mark # NoMark => old.pkgs = old.mark)

\* What the configuration is made of.
Known ==
  /\ pc = "diff" /\ ready => cached # NoMark
  /\ config # NoMark => cached # NoMark
  /\ pc = "venv" => config # NoMark
  /\ cached # NoMark => cached.requirements \subseteq Listing
  /\ config # NoMark => config.requirements \subseteq Listing

\* While no sync runs, and a configuration is not due to be taken anew, it says
\* what is on disk.
Steady == pc \in {"idle", "venv"} \/ (pc = "diff" /\ ~ready)

Told ==
  named /\ ~parted =>
    /\ Steady /\ config # NoMark => config.fingerprint = Fingerprint(disk, config.requirements)
    /\ pc = "venv" => want[me] = config.fingerprint
    /\ at[me] = "mark" => staging.pkgs = want[me]

\* What holds of the environment whatever it is built for.
Sound == Built /\ MarkedIsComplete /\ AsideIsComplete /\ WorkingVenvKept

Tells == MarkTellsContent /\ AsideTells

ProvisionInv == ProvisionTypeOK /\ Sound /\ Known /\ Told /\ Tells

LEMMA Alone == me \in Builders /\ \A b \in Builders : b = me
BY ProvisionAssumption DEF me

LEMMA DirsAreTyped ==
  /\ Absent \in Dir /\ Fresh \in Dir
  /\ Absent.mark = NoMark /\ Fresh.mark = NoMark
  /\ ~Absent.there
BY DEF Absent, Fresh, Dir, Marks

\* Of a directory that is removed half-way.
LEMMA RemainsAreTyped ==
  ASSUME NEW dir \in Dir
  PROVE  Remains(dir) \subseteq Dir /\ dir \in Remains(dir)
<1>1. /\ dir.there \in BOOLEAN /\ dir.pkgs \in Requirements \cup {Partial} /\ dir.mark \in Marks
      /\ dir = [there |-> dir.there, pkgs |-> dir.pkgs, mark |-> dir.mark]
  BY DEF Dir
<1>2. NoMark \in Marks
  BY DEF Marks
<1>3. ASSUME NEW t \in {dir.there, FALSE}, NEW p \in {dir.pkgs, Partial}, NEW m \in {dir.mark, NoMark}
      PROVE  [there |-> t, pkgs |-> p, mark |-> m] \in Dir
  <2>1. t \in BOOLEAN
    BY <1>1, Zenon
  <2>2. p \in Requirements \cup {Partial} /\ m \in Marks
    BY <1>1, <1>2
  <2> QED  BY <2>1, <2>2 DEF Dir
<1>4. ASSUME NEW d \in Remains(dir) PROVE d \in Dir
  <2>1. PICK t \in {dir.there, FALSE}, p \in {dir.pkgs, Partial}, m \in {dir.mark, NoMark} :
          d = [there |-> t, pkgs |-> p, mark |-> m]
    BY <1>4 DEF Remains
  <2>2. [there |-> t, pkgs |-> p, mark |-> m] \in Dir
    BY <1>3
  <2> QED  BY <2>1, <2>2
<1>5. dir \in Remains(dir)
  <2>1. \E t \in {dir.there, FALSE}, p \in {dir.pkgs, Partial}, m \in {dir.mark, NoMark} :
          dir = [there |-> t, pkgs |-> p, mark |-> m]
    BY <1>1, Zenon
  <2> QED  BY <2>1 DEF Remains
<1> QED  BY <1>4, <1>5

\* A staging venv that was cleared, or half cleared, is noted, or carries no
\* fingerprint, or is what it was.
LEMMA WhatIsCleared ==
  ASSUME staging \in Dir, NEW s \in Cleared
  PROVE  /\ s \in Dir
         /\ \/ Halved(s)
            \/ s.mark = NoMark
            \/ Works(s) /\ s.mark = staging.mark /\ s.pkgs = staging.pkgs
<1>1. CASE s = Fresh
  BY <1>1, DirsAreTyped
<1>2. CASE s \in Remains(staging)
  <2>1. PICK t \in {staging.there, FALSE}, p \in {staging.pkgs, Partial}, k \in {staging.mark, NoMark} :
          s = [there |-> t, pkgs |-> p, mark |-> k]
    BY <1>2 DEF Remains
  <2>2. s.pkgs = p /\ s.mark = k
    BY <2>1
  <2>3. s \in Dir
    BY <1>2, RemainsAreTyped
  <2>4. Works(s) => p # Partial
    BY <2>2 DEF Works
  <2> QED  BY <2>2, <2>3, <2>4 DEF Halved
<1> QED  BY <1>1, <1>2 DEF Cleared

\* So it is, unless that is noted in halved.
LEMMA ClearedIsNoted ==
  ASSUME staging \in Dir, halved \in BOOLEAN,
         staging' \in Cleared \cup {Absent}, halved' = (halved \/ Halved(staging')), ~halved'
  PROVE  ~halved /\ \/ staging'.mark = NoMark
                    \/ /\ Works(staging')
                       /\ staging'.mark = staging.mark /\ staging'.pkgs = staging.pkgs
<1>1. ~halved
  BY Zenon
<1>2. ~Halved(staging')
  BY Zenon
<1>3. CASE staging' = Absent
  BY <1>1, <1>3, DirsAreTyped
<1>4. CASE staging' \in Cleared
  BY <1>1, <1>2, <1>4, WhatIsCleared
<1> QED  BY <1>3, <1>4

\* The staging venv that is removed, as far as that goes, is such a one.
LEMMA RemovedIsCleared == Remains(staging) \cup {Absent} \subseteq Cleared \cup {Absent}
BY DEF Cleared

------------------------------------------------------------------------------
(* Types.                                                                  *)

\* One builder's step.
LEMMA BuildKeepsTypes ==
  ASSUME VenvTypeOK, NEW content \in Requirements \cup {Partial}, Build(me, content)
  PROVE  VenvTypeOK'
<1> USE Alone DEF VenvTypeOK
<1>0. /\ \A place \in Places : [at EXCEPT ![me] = place] \in [Builders -> Places]
      /\ {"create", "install", "failed", "mark", "aside", "place", "drop", "done"} \subseteq Places
  BY DEF Places
<1>1. CASE Create(me)
  <2>1. staging' \in Dir /\ at' \in [Builders -> Places]
    BY <1>0, <1>1, DirsAreTyped, WhatIsCleared DEF Create, Goto
  <2>2. faults' \in 0..MaxFaults
    BY <1>1, VenvAssumption DEF Create, Fail
  <2>3. halved' \in BOOLEAN
    BY <1>1 DEF Create
  <2> QED  BY <1>1, <2>1, <2>2, <2>3 DEF Create
<1>2. CASE Install(me, content)
  <2>1. [staging EXCEPT !.pkgs = content] \in Dir
    BY DEF Dir
  <2>2. staging' \in Dir /\ at' \in [Builders -> Places]
    BY <1>0, <1>2, <2>1 DEF Install, Goto
  <2>3. faults' \in 0..MaxFaults
    BY <1>2, VenvAssumption DEF Install, Fail
  <2> QED  BY <1>2, <2>2, <2>3 DEF Install, histories
<1>3. CASE GiveUp(me)
  <2>1. staging' \in Dir /\ at' \in [Builders -> Places]
    BY <1>0, <1>3, DirsAreTyped, RemainsAreTyped DEF GiveUp, Goto
  <2>2. faults' \in 0..MaxFaults
    BY <1>3, VenvAssumption DEF GiveUp, Fail
  <2>3. halved' \in BOOLEAN
    BY <1>3 DEF GiveUp
  <2> QED  BY <1>3, <2>1, <2>2, <2>3 DEF GiveUp
<1>4. CASE Mark(me)
  <2>1. [staging EXCEPT !.mark = want[me]] \in Dir
    BY DEF Dir
  <2>2. staging' \in Dir /\ at' \in [Builders -> Places]
    BY <1>0, <1>4, <2>1 DEF Mark, Goto
  <2>3. faults' \in 0..MaxFaults
    BY <1>4, VenvAssumption DEF Mark, Fail
  <2> QED  BY <1>4, <2>2, <2>3 DEF Mark, histories
<1>5. CASE MoveAside(me)
  <2>1. venv.there \in BOOLEAN
    BY DEF Dir
  <2>2. /\ venv' \in Dir /\ old' \in Dir
        /\ at' \in [Builders -> Places] /\ moved' \in [Builders -> BOOLEAN]
    BY <1>0, <1>5, <2>1, DirsAreTyped, RemainsAreTyped DEF MoveAside, Goto
  <2>3. faults' \in 0..MaxFaults
    BY <1>5, VenvAssumption DEF MoveAside, Fail
  <2> QED  BY <1>5, <2>2, <2>3 DEF MoveAside, histories
<1>6. CASE Place(me)
  <2>1. venv' \in Dir /\ staging' \in Dir /\ old' \in Dir /\ at' \in [Builders -> Places]
    BY <1>0, <1>6, DirsAreTyped DEF Place, Goto
  <2>2. faults' \in 0..MaxFaults
    BY <1>6, VenvAssumption DEF Place, Fail
  <2>3. worked' \in BOOLEAN /\ cut' \in BOOLEAN
    BY <1>6 DEF Place
  <2> QED  BY <1>6, <2>1, <2>2, <2>3 DEF Place
<1>7. CASE DropOld(me)
  <2>1. old' \in Dir /\ at' \in [Builders -> Places]
    BY <1>0, <1>7, DirsAreTyped, RemainsAreTyped DEF DropOld, Goto
  <2>2. faults' \in 0..MaxFaults
    BY <1>7, VenvAssumption DEF DropOld, Fail
  <2> QED  BY <1>7, <2>1, <2>2 DEF DropOld, histories
<1> QED  BY <1>1, <1>2, <1>3, <1>4, <1>5, <1>6, <1>7 DEF Build

\* A build that has begun goes on until it is done.
LEMMA BuildGoesOn ==
  ASSUME VenvTypeOK, NEW content, Build(me, content)
  PROVE  at[me] # "idle" /\ at'[me] # "idle"
<1> USE Alone DEF VenvTypeOK, Goto
<1>1. CASE Create(me)
  BY <1>1 DEF Create
<1>2. CASE Install(me, content)
  BY <1>2 DEF Install
<1>3. CASE GiveUp(me)
  BY <1>3 DEF GiveUp
<1>4. CASE Mark(me)
  BY <1>4 DEF Mark
<1>5. CASE MoveAside(me)
  BY <1>5 DEF MoveAside
<1>6. CASE Place(me)
  BY <1>6 DEF Place
<1>7. CASE DropOld(me)
  BY <1>7 DEF DropOld
<1> QED  BY <1>1, <1>2, <1>3, <1>4, <1>5, <1>6, <1>7 DEF Build

\* What is read from the files, or left of them, is a configuration.
LEMMA ScanIsListing ==
  ASSUME NEW d \in [Files -> Stored]
  PROVE  /\ Scan(d).requirements \subseteq Listing
         /\ Scan(d).libs \subseteq {f.gem : f \in Files}
BY DEF Scan, There, Listing

LEMMA OwnIsListing ==
  ASSUME NEW d \in [Files -> Stored], NEW requirements \in SUBSET Listing
  PROVE  OfPlugin(requirements, d, Plugin) \subseteq Listing
<1>1. ASSUME NEW f \in Files PROVE InstallFile(f).name # "lib"
  BY ProvisionAssumption DEF InstallFile
<1> QED  BY <1>1 DEF OfPlugin, There, Listing

LEMMA SyncIsConfig ==
  ASSUME NEW d \in [Files -> Stored]
  PROVE  [requirements |-> Scan(d).requirements, libs |-> Scan(d).libs,
          fingerprint |-> Fingerprint(d, Scan(d).requirements)] \in Config
<1>1. Fingerprint(d, Scan(d).requirements) \in Requirements
  BY ScanIsListing, RequirementsAssumption
<1> QED  BY <1>1, ScanIsListing DEF Config, Listing

LEMMA DependenciesAreConfig ==
  ASSUME NEW d \in [Files -> Stored], NEW sync \in Config, sync.requirements \subseteq Listing
  PROVE  /\ DependenciesOf(sync, d) \in Config
         /\ DependenciesOf(sync, d).requirements \subseteq Listing
         /\ named => DependenciesOf(sync, d).fingerprint
                       = Fingerprint(d, DependenciesOf(sync, d).requirements)
<1> DEFINE own == OfPlugin(sync.requirements, d, Plugin)
<1>1. own \subseteq Listing /\ Fingerprint(d, own) \in Requirements
  BY OwnIsListing, RequirementsAssumption
<1> HIDE DEF own
<1>2. own \subseteq Files
  BY <1>1 DEF Listing
<1> DEFINE new == [[sync EXCEPT !.requirements = own] EXCEPT !.fingerprint = Fingerprint(d, own)]
<1>3. /\ [sync EXCEPT !.requirements = own] \in Config
      /\ [sync EXCEPT !.requirements = own].requirements = own
  BY <1>2 DEF Config
<1>4. new \in Config /\ new.requirements = own /\ new.fingerprint = Fingerprint(d, own)
  BY <1>1, <1>3 DEF Config
<1>5. CASE named
  <2>1. DependenciesOf(sync, d) = new
    BY <1>5 DEF DependenciesOf, own
  <2> QED  BY <1>1, <1>4, <2>1
<1>6. CASE ~named
  BY <1>6 DEF DependenciesOf
<1> QED  BY <1>5, <1>6

LEMMA InstallsAreTyped ==
  ASSUME disk \in [Files -> Stored], config.requirements \subseteq Listing,
         NEW content \in Installs
  PROVE  /\ content \in Requirements \cup {Partial}
         /\ content # Partial => content = Fingerprint(disk, config.requirements)
BY RequirementsAssumption DEF Installs

LEMMA FilesAreTyped ==
  ASSUME disk \in [Files -> Stored], NEW f \in Files, NEW c \in Stored
  PROVE  [disk EXCEPT ![f] = c] \in [Files -> Stored]
OBVIOUS

LEMMA RevisionsAreStored == Served \subseteq Stored /\ Torn \in Stored /\ 0 \in Served /\ 1 \in Served
BY FilesAssumption DEF Served, Stored, Torn

LEMMA InitInv == Init => ProvisionInv
<1> SUFFICES ASSUME Init PROVE ProvisionInv
  OBVIOUS
<1>1. VenvTypeOK
  <2>1. venv \in Dir /\ staging \in Dir /\ old \in Dir /\ faults \in 0..MaxFaults
    BY DirsAreTyped, VenvAssumption DEF Init, VenvInit
  <2>2. at \in [Builders -> Places] /\ want \in [Builders -> Marks]
    BY DEF Init, VenvInit, Places, Marks
  <2>3. /\ existing \in [Builders -> BOOLEAN] /\ moved \in [Builders -> BOOLEAN]
        /\ worked \in BOOLEAN /\ cut \in BOOLEAN /\ halved \in BOOLEAN
    BY DEF Init, VenvInit
  <2> QED  BY <2>1, <2>2, <2>3 DEF VenvTypeOK
<1>2. hub \in [Files -> Served] /\ disk \in [Files -> Stored] /\ sent \in [Files -> Served]
  BY RevisionsAreStored DEF Init, NoFile
<1>3. at[me] = "idle"
  BY Alone DEF Init, VenvInit
<1>4. ProvisionTypeOK
  <2>1. edits \in 0..MaxEdits
    BY ProvisionAssumption DEF Init
  <2>2. /\ named \in BOOLEAN /\ forced \in BOOLEAN /\ ready \in BOOLEAN
        /\ running \in BOOLEAN /\ parted \in BOOLEAN
        /\ todo = {} /\ pc = "idle" /\ cached = NoMark /\ config = NoMark
    BY DEF Init
  <2> QED  BY <1>1, <1>2, <1>3, <2>1, <2>2 DEF ProvisionTypeOK
<1>5. Built /\ Known /\ Told
  BY <1>3 DEF Init, VenvInit, Built, Known, Told, Settled
<1>6. MarkedIsComplete /\ WorkingVenvKept /\ MarkTellsContent
  BY DirsAreTyped DEF Init, VenvInit, MarkedIsComplete, WorkingVenvKept, MarkTellsContent
<1>7. AsideIsComplete /\ AsideTells
  BY <1>3 DEF AsideIsComplete, AsideTells
<1> QED  BY <1>4, <1>5, <1>6, <1>7 DEF ProvisionInv, Sound, Tells

\* The app begins a build only when none is under way.
LEMMA DiffStep ==
  ASSUME ProvisionTypeOK, Known, Diff
  PROVE  /\ VenvTypeOK' /\ config' \in Config \cup {NoMark} /\ running' \in BOOLEAN
         /\ UNCHANGED <<dirs, moved, faults, histories>>
         /\ \/ pc' = "idle" /\ at' = at /\ want' = want /\ existing' = existing
            \/ /\ pc' = "venv" /\ config' # NoMark
               /\ at'[me] \in {"create", "done"}
               /\ want'[me] = config'.fingerprint /\ existing'[me] = venv.there
         /\ config' # NoMark => config'.requirements \subseteq Listing /\ cached # NoMark
         /\ ready /\ named => config'.fingerprint = Fingerprint(disk, config'.requirements)
         /\ ~ready => config' = config
<1> USE Alone DEF ProvisionTypeOK
<1>1. /\ ready => cached \in Config /\ cached.requirements \subseteq Listing
      /\ disk \in [Files -> Stored]
  BY DEF Diff, Known
<1>2. /\ config' \in Config \cup {NoMark}
      /\ config' # NoMark => config'.requirements \subseteq Listing /\ cached # NoMark
      /\ ready /\ named => config'.fingerprint = Fingerprint(disk, config'.requirements)
      /\ ~ready => config' = config
  BY <1>1, DependenciesAreConfig DEF Diff, Known
<1>3. CASE pc' = "idle" /\ UNCHANGED <<venvVars, running>>
  <2>1. VenvTypeOK'
    BY <1>3 DEF VenvTypeOK, venvVars, dirs, buildVars, histories
  <2> QED  BY <1>2, <1>3, <2>1 DEF venvVars, dirs, buildVars
<1>4. CASE /\ config' # NoMark
           /\ running' = FALSE /\ Begin(me, config'.fingerprint) /\ pc' = "venv"
  <2>1. config'.fingerprint \in Marks
    BY <1>2, <1>4 DEF Config, Marks
  <2>2. UNCHANGED <<dirs, moved, faults, histories>>
    BY <1>4 DEF Begin
  <2>3. /\ at'[me] \in {"create", "done"} /\ at' \in [Builders -> Places]
        /\ want'[me] = config'.fingerprint /\ want' \in [Builders -> Marks]
        /\ existing'[me] = venv.there /\ existing' \in [Builders -> BOOLEAN]
    BY <1>4, <2>1 DEF Begin, Goto, VenvTypeOK, Places, Dir
  <2>4. VenvTypeOK'
    BY <2>2, <2>3 DEF VenvTypeOK, dirs, histories
  <2> QED  BY <1>2, <1>4, <2>2, <2>3, <2>4
<1> QED  BY <1>3, <1>4 DEF Diff

------------------------------------------------------------------------------
(* The invariant, part by part.                                            *)

\* Each step of a build leaves what the next one relies on.
LEMMA BuildIsSound ==
  ASSUME VenvTypeOK, Sound, NEW content, Build(me, content)
  PROVE  Sound'
<1> USE Alone DEF VenvTypeOK, Sound, Built, MarkedIsComplete, AsideIsComplete, WorkingVenvKept,
                  Settled, Works, Goto
<1>1. CASE Create(me)
  <2>1. /\ at'[me] = "install" => staging' = Fresh
        /\ \/ staging' = Fresh /\ halved' = halved
           \/ staging' \in Cleared /\ halved' = (halved \/ Halved(staging'))
    BY <1>1 DEF Create
  <2>2. at'[me] \in {"install", "failed"} /\ at[me] = "create"
    BY <1>1 DEF Create
  <2>3. UNCHANGED <<venv, old, existing, moved, worked, cut>>
    BY <1>1 DEF Create
  <2>4. ~halved' => ~halved /\ \/ staging'.mark = NoMark
                               \/ Works(staging') /\ staging'.mark = staging.mark
    BY <2>1, DirsAreTyped, ClearedIsNoted
  <2>5. MarkedIsComplete'
    BY <2>3, <2>4
  <2> QED  BY <2>1, <2>2, <2>3, <2>5, DirsAreTyped
<1>2. CASE Install(me, content)
  <2>1. staging' \in {staging, [staging EXCEPT !.pkgs = content]}
    BY <1>2 DEF Install
  <2>2. /\ at'[me] \in {"mark", "failed"} /\ at[me] = "install"
        /\ at'[me] = "mark" => /\ staging.there /\ content # Partial
                               /\ staging' = [staging EXCEPT !.pkgs = content]
    BY <1>2 DEF Install
  <2>3. UNCHANGED <<venv, old, existing, moved, worked, cut, halved>>
    BY <1>2 DEF Install, histories
  <2>4. [staging EXCEPT !.pkgs = content].mark = staging.mark
    BY DEF Dir
  <2>5. /\ [staging EXCEPT !.pkgs = content].pkgs = content
        /\ [staging EXCEPT !.pkgs = content].there = staging.there
    BY DEF Dir
  <2> QED  BY <2>1, <2>2, <2>3, <2>4, <2>5
<1>3. CASE GiveUp(me)
  <2>1. \/ /\ staging' = Absent \/ staging' \in Cleared
           /\ at'[me] = "done" /\ halved' = (halved \/ Halved(staging'))
        \/ staging' = staging /\ at'[me] = "aside" /\ ~existing[me] /\ halved' = halved
    BY <1>3, RemovedIsCleared DEF GiveUp
  <2>2. at[me] = "failed" /\ UNCHANGED <<venv, old, existing, moved, worked, cut>>
    BY <1>3 DEF GiveUp
  <2>3. ~halved' => ~halved /\ \/ staging'.mark = NoMark
                               \/ Works(staging') /\ staging'.mark = staging.mark
                               \/ staging' = staging
    BY <2>1, DirsAreTyped, ClearedIsNoted
  <2>4. MarkedIsComplete'
    BY <2>2, <2>3
  <2> QED  BY <2>1, <2>2, <2>4
<1>4. CASE Mark(me)
  <2>1. /\ at[me] = "mark" /\ at'[me] = "aside"
        /\ staging' \in {staging, [staging EXCEPT !.mark = want[me]]}
    BY <1>4 DEF Mark
  <2>2. UNCHANGED <<venv, old, existing, moved, worked, cut, halved>>
    BY <1>4 DEF Mark, histories
  <2>3. /\ [staging EXCEPT !.mark = want[me]].pkgs = staging.pkgs
        /\ [staging EXCEPT !.mark = want[me]].there = staging.there
    BY DEF Dir
  <2> QED  BY <2>1, <2>2, <2>3
<1>5. CASE MoveAside(me)
  <2>1. \/ /\ old' = venv /\ venv' = Absent /\ moved'[me] = venv.there
           /\ at'[me] = "place" /\ staging' = staging
        \/ /\ venv.there /\ at'[me] = "done" /\ UNCHANGED <<venv, staging, moved>>
        \/ /\ ~venv.there /\ at'[me] = "place" /\ ~moved'[me] /\ UNCHANGED <<venv, staging>>
    BY <1>5 DEF MoveAside
  <2>2. at[me] = "aside" /\ UNCHANGED <<existing, worked, cut, halved>>
    BY <1>5 DEF MoveAside, histories
  <2> QED  BY <2>1, <2>2, DirsAreTyped
<1>6. CASE Place(me)
  <2>1. \/ /\ venv' = staging /\ staging' = Absent /\ at'[me] = "drop"
           /\ worked' = (worked \/ Works(staging)) /\ UNCHANGED <<old, cut>>
        \/ /\ at'[me] = "done" /\ moved[me] /\ venv' = old /\ old' = Absent
           /\ UNCHANGED <<staging, cut, worked>>
        \/ /\ at'[me] = "done" /\ cut' = (cut \/ moved[me])
           /\ UNCHANGED <<venv, staging, old, worked>>
    BY <1>6 DEF Place
  <2>2. at[me] = "place" /\ UNCHANGED <<existing, moved, halved>>
    BY <1>6 DEF Place
  <2> QED  BY <2>1, <2>2, DirsAreTyped
<1>7. CASE DropOld(me)
  <2>1. at[me] = "drop" /\ at'[me] = "done"
    BY <1>7 DEF DropOld
  <2>2. UNCHANGED <<venv, staging, existing, moved, worked, cut, halved>>
    BY <1>7 DEF DropOld, histories
  <2> QED  BY <2>1, <2>2, DirsAreTyped
<1> QED  BY <1>1, <1>2, <1>3, <1>4, <1>5, <1>6, <1>7 DEF Build

\* What is installed is what the files say, and they do not change meanwhile.
LEMMA BuildTells ==
  ASSUME VenvTypeOK, Built, Told, Tells, named /\ ~parted, UNCHANGED <<named, parted>>,
         pc = "venv", config # NoMark, NEW content, Build(me, content),
         content # Partial => content = Fingerprint(disk, config.requirements),
         UNCHANGED want
  PROVE  /\ at'[me] = "mark" => staging'.pkgs = want[me]
         /\ Tells'
<1> USE Alone DEF VenvTypeOK, Tells, MarkTellsContent, AsideTells, Goto
<1>0. want[me] = Fingerprint(disk, config.requirements)
  BY DEF Told, Steady
<1>1. CASE Create(me)
  <2>1. /\ at'[me] \in {"install", "failed"}
        /\ \/ staging' = Fresh /\ halved' = halved
           \/ staging' \in Cleared /\ halved' = (halved \/ Halved(staging'))
    BY <1>1 DEF Create
  <2>2. UNCHANGED <<venv, old>>
    BY <1>1 DEF Create
  <2>3. ~halved' => ~halved /\ \/ staging'.mark = NoMark
                               \/ staging'.pkgs = staging.pkgs /\ staging'.mark = staging.mark
    BY <2>1, DirsAreTyped, ClearedIsNoted
  <2> QED  BY <2>1, <2>2, <2>3
<1>2. CASE Install(me, content)
  <2>1. \/ staging' = staging /\ at'[me] = "failed"
        \/ content # Partial /\ staging' = [staging EXCEPT !.pkgs = content]
    BY <1>2 DEF Install
  <2>2. staging.mark = NoMark /\ UNCHANGED <<venv, old, halved>> /\ at'[me] \in {"mark", "failed"}
    BY <1>2 DEF Install, Built, histories
  <2>3. /\ [staging EXCEPT !.pkgs = content].mark = staging.mark
        /\ [staging EXCEPT !.pkgs = content].pkgs = content
    BY DEF Dir
  <2> QED  BY <1>0, <2>1, <2>2, <2>3
<1>3. CASE GiveUp(me)
  <2>1. /\ at'[me] \in {"done", "aside"}
        /\ \/ staging' = staging /\ halved' = halved
           \/ /\ staging' = Absent \/ staging' \in Cleared
              /\ halved' = (halved \/ Halved(staging'))
    BY <1>3, RemovedIsCleared DEF GiveUp
  <2>2. UNCHANGED <<venv, old>>
    BY <1>3 DEF GiveUp
  <2>3. ~halved' => ~halved /\ \/ staging'.mark = NoMark
                               \/ staging'.pkgs = staging.pkgs /\ staging'.mark = staging.mark
    BY <2>1, DirsAreTyped, ClearedIsNoted
  <2> QED  BY <2>1, <2>2, <2>3
<1>4. CASE Mark(me)
  <2>1. /\ staging' \in {staging, [staging EXCEPT !.mark = want[me]]}
        /\ at[me] = "mark" /\ at'[me] = "aside"
    BY <1>4 DEF Mark
  <2>2. staging.pkgs = want[me] /\ UNCHANGED <<venv, old, halved>>
    BY <1>4, <2>1 DEF Mark, Told, histories
  <2>3. /\ [staging EXCEPT !.mark = want[me]].pkgs = staging.pkgs
        /\ [staging EXCEPT !.mark = want[me]].mark = want[me]
    BY DEF Dir
  <2> QED  BY <2>1, <2>2, <2>3
<1>5. CASE MoveAside(me)
  <2>1. /\ staging' = staging /\ halved' = halved
        /\ \/ venv' = Absent /\ old' = venv /\ at'[me] = "place"
           \/ venv' = venv /\ (at'[me] = "done" \/ (at'[me] = "place" /\ ~moved'[me]))
    BY <1>5 DEF MoveAside, histories
  <2> QED  BY <2>1, DirsAreTyped
<1>6. CASE Place(me)
  <2>1. /\ staging' \in {staging, Absent} /\ halved' = halved
        /\ venv' \in {venv, staging} \/ (venv' = old /\ moved[me])
        /\ at[me] = "place" /\ at'[me] \in {"drop", "done"}
    BY <1>6 DEF Place
  <2> QED  BY <2>1, DirsAreTyped
<1>7. CASE DropOld(me)
  <2>1. at'[me] = "done" /\ UNCHANGED <<venv, staging, halved>>
    BY <1>7 DEF DropOld, histories
  <2> QED  BY <2>1
<1> QED  BY <1>1, <1>2, <1>3, <1>4, <1>5, <1>6, <1>7 DEF Build

LEMMA BuildKeepsWant ==
  ASSUME NEW content, Build(me, content)
  PROVE  UNCHANGED want
BY DEF Build, Create, Install, GiveUp, Mark, MoveAside, Place, DropOld

\* Where neither the environment nor the files are touched, nothing else matters.
LEMMA SoundIsKept ==
  ASSUME Sound, UNCHANGED <<dirs, buildVars, histories>>
  PROVE  Sound'
BY DEF Sound, Built, MarkedIsComplete, AsideIsComplete, WorkingVenvKept, Settled, Works,
   dirs, buildVars, histories

LEMMA TypesAreKept ==
  ASSUME VenvTypeOK, UNCHANGED <<dirs, buildVars, histories>>, faults' \in 0..MaxFaults
  PROVE  VenvTypeOK'
BY DEF VenvTypeOK, dirs, buildVars, histories

LEMMA MarksAreKept ==
  ASSUME Tells, UNCHANGED <<dirs, buildVars, histories>>, named' = named, parted => parted'
  PROVE  Tells'
BY DEF Tells, MarkTellsContent, AsideTells, dirs, buildVars, histories

------------------------------------------------------------------------------
(* The steps of the thread and of its environment.                         *)

\* Most steps leave the environment alone.
LEMMA OutsideVenv ==
  ASSUME ProvisionInv, UNCHANGED <<dirs, buildVars, histories>>,
         faults' = faults \/ Fail, named' = named, parted => parted'
  PROVE  VenvTypeOK' /\ Sound' /\ Tells'
<1>1. faults' \in 0..MaxFaults
  BY VenvAssumption DEF ProvisionInv, ProvisionTypeOK, VenvTypeOK, Fail
<1> QED  BY <1>1, TypesAreKept, SoundIsKept, MarksAreKept DEF ProvisionInv, ProvisionTypeOK

LEMMA SyncBeginStep ==
  ASSUME ProvisionInv, NEW change \in BOOLEAN, SyncBegin(change)
  PROVE  ProvisionInv'
<1> USE DEF SyncBegin
<1>1. VenvTypeOK' /\ Sound' /\ Tells'
  BY OutsideVenv DEF venvVars
<1>2. at' = at /\ want' = want
  BY DEF venvVars, buildVars
<1>3. ProvisionTypeOK'
  BY <1>1, <1>2 DEF ProvisionInv, ProvisionTypeOK, Delta
<1>4. Known' /\ Told'
  BY <1>2 DEF ProvisionInv, ProvisionTypeOK, VenvTypeOK, Known, Told, Steady, Places
<1> QED  BY <1>1, <1>3, <1>4 DEF ProvisionInv

LEMMA SyncSkippedStep ==
  ASSUME ProvisionInv, SyncSkipped
  PROVE  ProvisionInv'
<1> USE DEF SyncSkipped
<1>1. VenvTypeOK' /\ Sound' /\ Tells'
  BY OutsideVenv DEF venvVars
<1>2. at' = at /\ want' = want /\ staging' = staging
  BY DEF venvVars, buildVars, dirs
<1>3. ProvisionTypeOK'
  BY <1>1, <1>2 DEF ProvisionInv, ProvisionTypeOK, CacheCovers
<1>4. Known' /\ Told'
  BY <1>2 DEF ProvisionInv, ProvisionTypeOK, Known, Told, Steady, CacheCovers
<1> QED  BY <1>1, <1>3, <1>4 DEF ProvisionInv

LEMMA SyncFileStep ==
  ASSUME ProvisionInv, NEW f \in Files, SyncFile(f)
  PROVE  ProvisionInv'
<1> USE DEF SyncFile
<1>1. VenvTypeOK' /\ Sound' /\ Tells'
  BY OutsideVenv DEF venvVars
<1>2. at' = at /\ want' = want /\ staging' = staging
  BY DEF venvVars, buildVars, dirs
<1>3. disk' \in [Files -> Stored]
  BY FilesAreTyped, RevisionsAreStored DEF ProvisionInv, ProvisionTypeOK
<1>4. ProvisionTypeOK'
  BY <1>1, <1>2, <1>3 DEF ProvisionInv, ProvisionTypeOK
<1>5. at[me] # "mark"
  BY DEF ProvisionInv, ProvisionTypeOK
<1>6. Known' /\ Told'
  BY <1>2, <1>5 DEF ProvisionInv, ProvisionTypeOK, Known, Told, Steady
<1> QED  BY <1>1, <1>4, <1>6 DEF ProvisionInv

\* A sync that fails is followed by a configuration taken anew, or it was forced,
\* or there is no configuration yet.
LEMMA SyncFileFailsStep ==
  ASSUME ProvisionInv, NEW f \in Files, SyncFileFails(f)
  PROVE  ProvisionInv'
<1> USE DEF SyncFileFails
<1>1. /\ UNCHANGED <<dirs, buildVars, histories>> /\ named' = named
      /\ (parted => parted') /\ parted' \in BOOLEAN
  BY DEF ProvisionInv, ProvisionTypeOK
<1>2. VenvTypeOK' /\ Sound' /\ Tells'
  BY <1>1, OutsideVenv
<1>3. at' = at /\ want' = want /\ staging' = staging
  BY <1>1 DEF buildVars, dirs
<1>4. disk' \in [Files -> Stored]
  <2>1. disk[f] \in Stored /\ Torn \in Stored
    BY RevisionsAreStored DEF ProvisionInv, ProvisionTypeOK
  <2> QED  BY <2>1, FilesAreTyped DEF ProvisionInv, ProvisionTypeOK
<1>5. /\ pc = "sync" /\ pc' \in {"sync", "diff"} /\ (todo' # {} => pc' = "sync")
      /\ todo' \subseteq Files /\ ready' \in BOOLEAN
      /\ UNCHANGED <<hub, forced, sent, cached, config, running, edits>>
  BY DEF ProvisionInv, ProvisionTypeOK, CacheCovers
<1>6. ProvisionTypeOK'
  <2>1. at'[me] = "idle"
    BY <1>3, <1>5 DEF ProvisionInv, ProvisionTypeOK
  <2> QED  BY <1>1, <1>2, <1>4, <1>5, <2>1 DEF ProvisionInv, ProvisionTypeOK
<1>7. at[me] # "mark"
  BY <1>5 DEF ProvisionInv, ProvisionTypeOK
<1>8. pc' = "diff" => \/ ready' /\ cached # NoMark
                      \/ ~ready' /\ (cached = NoMark \/ parted')
  BY <1>5 DEF CacheCovers
<1>9. Known' /\ Told'
  BY <1>1, <1>3, <1>5, <1>7, <1>8 DEF ProvisionInv, Known, Told, Steady
<1> QED  BY <1>2, <1>6, <1>9 DEF ProvisionInv

LEMMA SyncDoneStep ==
  ASSUME ProvisionInv, SyncDone
  PROVE  ProvisionInv'
<1> USE DEF SyncDone
<1>1. VenvTypeOK' /\ Sound' /\ Tells'
  BY OutsideVenv DEF venvVars
<1>2. at' = at /\ want' = want /\ staging' = staging
  BY DEF venvVars, buildVars, dirs
<1>3. cached' \in Config /\ cached'.requirements \subseteq Listing
  BY SyncIsConfig, ScanIsListing DEF ProvisionInv, ProvisionTypeOK
<1>4. ProvisionTypeOK'
  BY <1>1, <1>2, <1>3 DEF ProvisionInv, ProvisionTypeOK
<1>5. at[me] # "mark"
  BY DEF ProvisionInv, ProvisionTypeOK
<1>6. Known' /\ Told'
  BY <1>2, <1>3, <1>5, RequirementsAssumption DEF ProvisionInv, Known, Told, Steady
<1> QED  BY <1>1, <1>4, <1>6 DEF ProvisionInv

\* A build begins with a configuration that says what is on disk.
LEMMA DiffInvStep ==
  ASSUME ProvisionInv, Diff
  PROVE  ProvisionInv'
<1>1. UNCHANGED <<hub, named, disk, forced, ready, sent, todo, cached, edits, parted>>
  BY DEF Diff, syncVars
<1>2. /\ VenvTypeOK' /\ config' \in Config \cup {NoMark} /\ running' \in BOOLEAN
      /\ UNCHANGED <<dirs, moved, faults, histories>>
      /\ \/ pc' = "idle" /\ at' = at /\ want' = want /\ existing' = existing
         \/ /\ pc' = "venv" /\ config' # NoMark
            /\ at'[me] \in {"create", "done"}
            /\ want'[me] = config'.fingerprint /\ existing'[me] = venv.there
      /\ config' # NoMark => config'.requirements \subseteq Listing /\ cached # NoMark
      /\ ready /\ named => config'.fingerprint = Fingerprint(disk, config'.requirements)
      /\ ~ready => config' = config
  BY DiffStep DEF ProvisionInv
<1>3. pc = "diff" /\ at[me] = "idle" /\ todo = {}
  BY DEF Diff, ProvisionInv, ProvisionTypeOK
<1>4. ProvisionTypeOK'
  BY <1>1, <1>2, <1>3 DEF ProvisionInv, ProvisionTypeOK
<1>5. /\ venv' = venv /\ staging' = staging /\ old' = old
      /\ moved' = moved /\ worked' = worked /\ cut' = cut /\ halved' = halved
  BY <1>2 DEF dirs, histories
<1>6. Settled => Works(venv)
  BY <1>3, Alone DEF ProvisionInv, Sound, WorkingVenvKept, Settled
<1>7. Built'
  BY <1>2, <1>3, <1>5, <1>6 DEF Built, Settled, Works
<1>8. MarkedIsComplete' /\ WorkingVenvKept'
  BY <1>5, <1>6 DEF ProvisionInv, Sound, MarkedIsComplete, WorkingVenvKept, Settled, Works
<1>a. at'[me] # "place"
  BY <1>2, <1>3
<1>9. Tells' /\ AsideIsComplete'
  BY <1>1, <1>5, <1>a DEF ProvisionInv, Tells, MarkTellsContent, AsideTells, AsideIsComplete
<1>10. Known'
  BY <1>1, <1>2 DEF ProvisionInv, Known
<1>11. Told'
  <2>1. named /\ ~parted /\ ~ready /\ config # NoMark
          => config.fingerprint = Fingerprint(disk, config.requirements)
    BY <1>3 DEF ProvisionInv, Told, Steady
  <2> QED  BY <1>1, <1>2, <1>3, <2>1 DEF Told, Steady
<1> QED  BY <1>4, <1>7, <1>8, <1>9, <1>10, <1>11 DEF ProvisionInv, Sound

LEMMA BuildVenvStep ==
  ASSUME ProvisionInv, BuildVenv
  PROVE  ProvisionInv'
<1>1. PICK content \in Installs : Build(me, content)
  BY DEF BuildVenv
<1>2. /\ pc = "venv"
      /\ UNCHANGED <<hub, named, disk, pc, forced, ready, sent, todo, cached, config,
                     running, edits, parted>>
  BY DEF BuildVenv, syncVars
<1>3. config # NoMark /\ config.requirements \subseteq Listing
  BY <1>2 DEF ProvisionInv, Known
<1>4. /\ content \in Requirements \cup {Partial}
      /\ content # Partial => content = Fingerprint(disk, config.requirements)
  BY <1>3, InstallsAreTyped DEF ProvisionInv, ProvisionTypeOK
<1>5. VenvTypeOK'
  BY <1>1, <1>4, BuildKeepsTypes DEF ProvisionInv, ProvisionTypeOK
<1>6. at[me] # "idle" /\ at'[me] # "idle"
  BY <1>1, BuildGoesOn DEF ProvisionInv, ProvisionTypeOK
<1>7. ProvisionTypeOK'
  BY <1>2, <1>5, <1>6 DEF ProvisionInv, ProvisionTypeOK
<1>8. Sound'
  BY <1>1, BuildIsSound DEF ProvisionInv, ProvisionTypeOK
<1>9. UNCHANGED want
  BY <1>1, BuildKeepsWant
<1>10. Known'
  BY <1>2 DEF ProvisionInv, Known
<1>11. named /\ ~parted => /\ at'[me] = "mark" => staging'.pkgs = want[me]
                           /\ Tells'
  BY <1>1, <1>2, <1>3, <1>4, <1>9, BuildTells DEF ProvisionInv, ProvisionTypeOK, Sound
<1>12. Tells'
  BY <1>2, <1>11 DEF Tells, MarkTellsContent, AsideTells
<1>13. Told'
  BY <1>2, <1>9, <1>11 DEF ProvisionInv, Told, Steady
<1> QED  BY <1>7, <1>8, <1>10, <1>12, <1>13 DEF ProvisionInv

LEMMA StartStep ==
  ASSUME ProvisionInv, Start
  PROVE  ProvisionInv'
<1>1. /\ UNCHANGED <<venv, staging, old, want, existing, moved, faults, worked, cut, halved>>
      /\ UNCHANGED <<hub, named, disk, forced, ready, sent, todo, cached, config, edits, parted>>
      /\ pc = "venv" /\ pc' = "idle" /\ at[me] = "done" /\ running' = venv.there
  BY DEF Start, dirs, syncVars, histories
<1>2. at' \in [Builders -> Places] /\ at'[me] = "idle"
  BY Alone DEF Start, Goto, ProvisionInv, ProvisionTypeOK, VenvTypeOK, Places
<1>3. VenvTypeOK' /\ running' \in BOOLEAN
  BY <1>1, <1>2 DEF ProvisionInv, ProvisionTypeOK, VenvTypeOK, Dir
<1>4. todo = {}
  BY <1>1 DEF ProvisionInv, ProvisionTypeOK
<1>5. ProvisionTypeOK'
  BY <1>1, <1>2, <1>3, <1>4 DEF ProvisionInv, ProvisionTypeOK
<1>6. Sound'
  BY <1>1, <1>2, Alone DEF ProvisionInv, Sound, Built, MarkedIsComplete, AsideIsComplete,
     WorkingVenvKept, Settled, Works
<1>7. Known' /\ Told' /\ Tells'
  BY <1>1, <1>2 DEF ProvisionInv, Known, Told, Steady, Tells, MarkTellsContent, AsideTells
<1> QED  BY <1>5, <1>6, <1>7 DEF ProvisionInv

LEMMA EnvironmentStep ==
  ASSUME ProvisionInv,
         ChildFails \/ ChildDies \/ \E release \in [Files -> Served] : EditPlugins(release)
  PROVE  ProvisionInv'
<1>1. /\ UNCHANGED <<dirs, buildVars, histories>> /\ (faults' = faults \/ Fail)
      /\ UNCHANGED <<named, disk, pc, forced, ready, sent, todo, cached, config, parted>>
      /\ hub' \in [Files -> Served] /\ running' \in BOOLEAN
  BY DEF ChildFails, ChildDies, EditPlugins, venvVars, syncVars, ProvisionInv, ProvisionTypeOK
<1>2. edits' \in 0..MaxEdits
  BY ProvisionAssumption DEF ChildFails, ChildDies, EditPlugins, ProvisionInv, ProvisionTypeOK
<1>3. VenvTypeOK' /\ Sound' /\ Tells'
  BY <1>1, OutsideVenv
<1>4. at' = at /\ want' = want /\ staging' = staging
  BY <1>1 DEF buildVars, dirs
<1>5. ProvisionTypeOK'
  BY <1>1, <1>2, <1>3, <1>4 DEF ProvisionInv, ProvisionTypeOK
<1>6. Known' /\ Told'
  BY <1>1, <1>4 DEF ProvisionInv, Known, Told, Steady
<1> QED  BY <1>3, <1>5, <1>6 DEF ProvisionInv

\* The process that ends leaves the directories as they are, or half removed.
LEMMA RestartStep ==
  ASSUME ProvisionInv, Restart
  PROVE  ProvisionInv'
<1>1. /\ UNCHANGED <<venv, want, existing, moved, worked>>
      /\ UNCHANGED <<hub, named, forced, ready, sent, edits, parted>>
      /\ todo' = {} /\ pc' = "idle" /\ cached' = NoMark /\ config' = NoMark
      /\ running' = FALSE
      /\ cut' = (cut \/ (at[me] = "place" /\ moved[me]))
  BY Alone DEF Restart, Vanish
<1>d. /\ staging \in Dir /\ old \in Dir
      /\ staging' \in {staging} \cup Cleared /\ old' \in {old} \cup Remains(old)
      /\ halved' = (halved \/ (staging' # staging /\ Halved(staging')))
  BY DEF Restart, Vanish, Cleared, ProvisionInv, ProvisionTypeOK, VenvTypeOK
<1>e. /\ staging' \in Dir /\ old' \in Dir /\ halved' \in BOOLEAN
      /\ ~halved' => ~halved /\ \/ staging' = staging
                                \/ staging'.mark = NoMark
                                \/ /\ Works(staging')
                                   /\ staging'.mark = staging.mark /\ staging'.pkgs = staging.pkgs
  BY <1>d, WhatIsCleared, RemainsAreTyped
<1>2. at' \in [Builders -> Places] /\ at'[me] = "idle"
  BY Alone DEF Restart, Vanish, ProvisionInv, ProvisionTypeOK, VenvTypeOK, Places
<1>3. faults' \in 0..MaxFaults
  BY VenvAssumption DEF Restart, Fail, ProvisionInv, ProvisionTypeOK, VenvTypeOK
<1>4. VenvTypeOK'
  BY <1>1, <1>2, <1>3, <1>e DEF ProvisionInv, ProvisionTypeOK, VenvTypeOK
<1>5. disk' \in [Files -> Stored]
  BY RevisionsAreStored, FilesAreTyped DEF Restart, ProvisionInv, ProvisionTypeOK, NextFiles, There
<1>6. ProvisionTypeOK'
  BY <1>1, <1>2, <1>4, <1>5 DEF ProvisionInv, ProvisionTypeOK
<1>7. Sound'
  <2>1. MarkedIsComplete'
    BY <1>1, <1>e DEF ProvisionInv, Sound, MarkedIsComplete, Works
  <2>2. WorkingVenvKept'
    BY <1>1, <1>2, Alone DEF ProvisionInv, Sound, WorkingVenvKept, Works
  <2> QED  BY <1>2, <2>1, <2>2 DEF Sound, Built, AsideIsComplete
<1>8. Known' /\ Told' /\ Tells'
  BY <1>1, <1>2, <1>e DEF ProvisionInv, Known, Told, Steady, Tells, MarkTellsContent, AsideTells
<1> QED  BY <1>6, <1>7, <1>8 DEF ProvisionInv

LEMMA StutterStep == ProvisionInv /\ UNCHANGED vars => ProvisionInv'
BY DEF vars, venvVars, syncVars, dirs, buildVars, ProvisionInv, ProvisionTypeOK, VenvTypeOK,
   Sound, Built, Settled, Works, Known, Told, Steady, MarkedIsComplete, AsideIsComplete,
   WorkingVenvKept, Tells, MarkTellsContent, AsideTells, histories, Fingerprint, There

------------------------------------------------------------------------------

THEOREM ProvisionInvariant == Spec => []ProvisionInv
<1>1. ASSUME ProvisionInv, [Next]_vars PROVE ProvisionInv'
  BY <1>1, StutterStep, SyncBeginStep, SyncSkippedStep, SyncFileStep, SyncFileFailsStep,
     SyncDoneStep, DiffInvStep, BuildVenvStep, StartStep, EnvironmentStep, RestartStep
     DEF Next, Step, SyncOnce
<1> QED  BY InitInv, <1>1, PTL DEF Spec

\* Every state is well typed, for any files, requirements and bounds.
THEOREM ProvisionTypeCorrect == Spec => []ProvisionTypeOK
BY ProvisionInvariant, PTL DEF ProvisionInv

\* Whatever is interrupted or fails, only a complete environment has a
\* fingerprint (ensure_venv).
THEOREM NoHalfBuiltVenvIsMarked == Spec => []MarkedIsComplete
BY ProvisionInvariant, PTL DEF ProvisionInv, Sound

\* A rebuild that fails keeps the environment that works (ensure_venv, swap_venv).
THEOREM WorkingVenvSurvives == Spec => []WorkingVenvKept
BY ProvisionInvariant, PTL DEF ProvisionInv, Sound

\* A fingerprint is that of the requirements that were installed, where the hub
\* names the plugin and no forced sync failed (dependencies, pip_fingerprint).
THEOREM MarkIsOfItsContent == Spec => []MarkTellsContent
BY ProvisionInvariant, PTL DEF ProvisionInv, Tells
=============================================================================
