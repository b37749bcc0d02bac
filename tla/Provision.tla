------------------------------ MODULE Provision ------------------------------
(***************************************************************************)
(* What the operator does to the disk before a child of one plugin's       *)
(* microservice runs: sync the plugin's files with the hub (hostfiles.rs), *)
(* take the fingerprint of its requirements into the configuration         *)
(* (dependencies, files_ready), and, with the child stopped, bring its     *)
(* environment up to date (the module Venv) and start it                   *)
(* (provision_and_start).  One thread does all of it.                      *)
(*                                                                         *)
(* Operator treats a sync and the provisioning of a start as one step      *)
(* each; this module looks inside them for one service whose specification *)
(* does not change.  A file's content is a revision; 0 is no file.         *)
(***************************************************************************)
EXTENDS Venv, HostFiles

CONSTANTS
  Plugin,       (* the gem of the service                                     *)
  MaxEdits      (* bound: changes of plugins at the hub                       *)

ASSUME ProvisionAssumption ==
  /\ MaxEdits \in Nat
  /\ Builders = {"operator"}
  /\ Files \subseteq [gem : {f.gem : f \in Files}, name : Names]

VARIABLES
  hub,      (* the files as the hub serves them                               *)
  named,    (* the hub says which plugin the service is of (plugin_files)     *)
  disk,     (* the files below host_files                                     *)
  pc,       (* where the operator thread is                                   *)
  forced,   (* another service of the hub's set changed in this cycle         *)
  ready,    (* the configuration may be taken from the files                  *)
  sent,     (* the delta the hub answered: contents                           *)
  todo,     (* files of the delta not applied yet                             *)
  cached,   (* self.last_sync, NoMark if there is none                        *)
  config,   (* the microservice's configuration, NoMark if there is none      *)
  running,  (* its child is alive                                             *)
  edits,
  parted    (* history: a sync that a change of the set forced failed         *)

syncVars == <<forced, ready, sent, todo>>
vars     == <<venvVars, hub, named, disk, pc, syncVars, cached, config, running, edits,
              parted>>

me == "operator"

Config == [requirements : SUBSET Files, fingerprint : Requirements,
           libs : SUBSET {f.gem : f \in Files}]

\* Files that list requirements; what they say is what may be asked for.
Listing == {f \in Files : f.name # "lib"}

ASSUME RequirementsAssumption ==
  /\ \A d \in [Files -> Stored] : \A files \in SUBSET Listing : Fingerprint(d, files) \in Requirements
  /\ NoMark \notin Config

ProvisionTypeOK ==
  /\ VenvTypeOK
  /\ hub \in [Files -> Served] /\ disk \in [Files -> Stored]
  /\ named \in BOOLEAN
  /\ pc \in {"idle", "sync", "diff", "venv"}
  /\ forced \in BOOLEAN /\ ready \in BOOLEAN
  /\ sent \in [Files -> Served]
  /\ todo \subseteq Files
  /\ cached \in Config \cup {NoMark} /\ config \in Config \cup {NoMark}
  /\ running \in BOOLEAN
  /\ edits \in 0..MaxEdits /\ parted \in BOOLEAN
  /\ todo # {} => pc = "sync"
  /\ pc = "venv" <=> at[me] # "idle"

Init ==
  /\ VenvInit
  /\ hub = [f \in Files |-> 1]
  /\ named \in BOOLEAN
  /\ disk = [f \in Files |-> NoFile]
  /\ pc = "idle"
  /\ forced = FALSE /\ ready = FALSE
  /\ sent = hub /\ todo = {}
  /\ cached = NoMark /\ config = NoMark
  /\ running = FALSE
  /\ edits = 0
  /\ parted = FALSE

------------------------------------------------------------------------------
(* sync (hostfiles.rs) within maybe_sync_files.                            *)

\* The hub compares the manifest of what is on disk with what it has.
DeltaOfListed(have) ==   \* slip
  {f \in Files : \E c \in Stored : <<f, c>> \in have /\ c # hub[f]}
Delta(have) ==
  {f \in Files : IF hub[f] = NoFile THEN \E c \in Stored : <<f, c>> \in have
                 ELSE <<f, hub[f]>> \notin have}

\* A sync is due, or forced by a change of the set.
SyncBegin(change) ==
  /\ pc = "idle"
  /\ sent' = hub
  /\ todo' = Delta(Manifest(disk))
  /\ forced' = change
  /\ pc' = "sync"
  /\ UNCHANGED <<venvVars, hub, named, disk, ready, cached, config, running, edits, parted>>

\* files_ready: without a sync that succeeded the cache covers an unchanged
\* set only.
CacheCovers(change) == cached # NoMark /\ ~change

\* No sync is due, or the hub does not answer the poll, which leaves the
\* configurations as they are.
SyncSkipped ==
  /\ pc = "idle"
  /\ ready' \in {CacheCovers(FALSE), FALSE}
  /\ pc' = "diff"
  /\ UNCHANGED <<venvVars, hub, named, disk, forced, sent, todo, cached, config, running, edits, parted>>

\* Files are written before others are removed.
NextFiles ==
  LET writes == There(sent, todo) IN IF writes # {} THEN writes ELSE todo

SyncFile(f) ==
  /\ pc = "sync" /\ f \in NextFiles
  /\ disk' = [disk EXCEPT ![f] = sent[f]]
  /\ todo' = todo \ {f}
  /\ UNCHANGED <<venvVars, hub, named, pc, forced, ready, sent, cached, config, running, edits, parted>>

\* A write that fails ends the sync; a removal that fails is ignored.
SyncFileFails(f) ==
  /\ pc = "sync" /\ f \in NextFiles /\ Fail
  /\ IF sent[f] # NoFile
     THEN /\ \E left \in {disk[f], Torn} : disk' = [disk EXCEPT ![f] = left]
          /\ todo' = {}
          /\ ready' = CacheCovers(forced)
          /\ parted' = (parted \/ forced)
          /\ pc' = "diff"
     ELSE todo' = todo \ {f} /\ UNCHANGED <<disk, ready, pc, parted>>
  /\ UNCHANGED <<dirs, buildVars, histories, hub, named, forced, sent, cached, config, running,
                 edits>>

\* scan and pip_fingerprint read the disk again.
SyncDone ==
  /\ pc = "sync" /\ todo = {}
  /\ cached' = [requirements |-> Scan(disk).requirements, libs |-> Scan(disk).libs,
                fingerprint |-> Fingerprint(disk, Scan(disk).requirements)]
  /\ ready' = TRUE
  /\ pc' = "diff"
  /\ UNCHANGED <<venvVars, hub, named, disk, forced, sent, todo, config, running, edits, parted>>

------------------------------------------------------------------------------
(* The rest of a cycle.                                                    *)

\* dependencies: for a hub that names the plugin, what the files say now, in
\* every cycle; otherwise what the last sync found.
CachedDependencies(sync, files) == sync   \* slip
DependenciesOf(sync, files) ==
  IF named
  THEN LET own == OfPlugin(sync.requirements, files, Plugin)
       IN [sync EXCEPT !.requirements = own, !.fingerprint = Fingerprint(files, own)]
  ELSE sync

\* Nothing starts without a sync that succeeded; a changed configuration or
\* a dead child is (stopped and) provisioned.
Diff ==
  /\ pc = "diff"
  /\ config' = IF ready THEN DependenciesOf(cached, disk) ELSE config
  /\ IF config' = NoMark \/ (running /\ config' = config)
     THEN pc' = "idle" /\ UNCHANGED <<venvVars, running>>
     ELSE /\ running' = FALSE
          /\ Begin(me, config'.fingerprint)
          /\ pc' = "venv"
  /\ UNCHANGED <<hub, named, disk, syncVars, cached, edits, parted>>

\* What pip finds in the files; a file that is missing fails it, a torn one may.
Installs ==
  LET content == Fingerprint(disk, config.requirements)
  IN (IF There(disk, config.requirements) = config.requirements THEN {content} ELSE {Partial})
     \cup {Partial : f \in {g \in config.requirements : disk[g] = Torn}}

BuildVenv ==
  /\ pc = "venv" /\ \E content \in Installs : Build(me, content)
  /\ UNCHANGED <<hub, named, disk, pc, syncVars, cached, config, running, edits, parted>>

\* process.start() needs an interpreter.
Start ==
  /\ pc = "venv" /\ at[me] = "done"
  /\ running' = venv.there
  /\ Goto(me, "idle")
  /\ pc' = "idle"
  /\ UNCHANGED <<dirs, want, existing, moved, faults, histories, hub, named, disk, syncVars,
                 cached, config, edits, parted>>

------------------------------------------------------------------------------
(* The environment.                                                        *)

\* The runner cannot import what is not installed.
ChildFails ==
  /\ running /\ ~Works(venv)
  /\ running' = FALSE
  /\ UNCHANGED <<venvVars, hub, named, disk, pc, syncVars, cached, config, edits, parted>>

ChildDies ==
  /\ running /\ Fail
  /\ running' = FALSE
  /\ UNCHANGED <<dirs, buildVars, histories, hub, named, disk, pc, syncVars, cached, config, edits, parted>>

\* Plugins are installed, upgraded or removed in COSMOS: any of the files may
\* be others now.
EditPlugins(release) ==
  /\ edits < MaxEdits
  /\ hub' = release
  /\ edits' = edits + 1
  /\ UNCHANGED <<venvVars, named, disk, pc, syncVars, cached, config, running, parted>>

\* The app ends, with its child, and is started again; a file being written
\* stays torn.
Restart ==
  /\ Fail /\ Vanish
  /\ disk' \in {disk} \cup {[disk EXCEPT ![f] = Torn] : f \in {g \in NextFiles : sent[g] # NoFile}}
  /\ todo' = {}
  /\ pc' = "idle"
  /\ cached' = NoMark /\ config' = NoMark
  /\ running' = FALSE
  /\ UNCHANGED <<hub, named, forced, ready, sent, edits, parted>>

SyncOnce == \E change \in BOOLEAN : SyncBegin(change)

Step == SyncOnce \/ SyncSkipped \/ SyncDone \/ Diff \/ BuildVenv \/ Start
        \/ \E f \in Files : SyncFile(f) \/ SyncFileFails(f)

Next ==
  \/ Step
  \/ ChildFails \/ ChildDies \/ Restart
  \/ \E release \in [Files -> Served] : EditPlugins(release)

Spec == Init /\ [][Next]_vars

\* The operator thread runs, a sync falls due again and again, and a runner
\* without its packages fails.
FairSpec == Spec /\ WF_vars(Step) /\ SF_vars(SyncOnce) /\ WF_vars(ChildFails)

------------------------------------------------------------------------------
(* Properties.                                                             *)

\* The fingerprint of an environment is that of what was installed in it, also
\* from files of a sync that failed half way: a hub that names the plugin has it
\* taken from the disk in every cycle ("a plugin upgrade that changes them
\* updates the venv", pip_fingerprint). Not once a sync forced by a change of
\* the set failed: the configuration is kept then, and a child that dies is
\* provisioned from the newer files under the older fingerprint; nor once a clear
\* of a marked environment stopped half-way.
MarkTellsContent ==
  named /\ ~parted /\ ~halved =>
    \A dir \in {venv, staging} : dir.mark # NoMark => dir.pkgs = dir.mark

\* A sync or build that was interrupted, or failed half way, is made good: once
\* nothing fails any more, the files on disk are the hub's, torn and stale ones
\* included, the configuration is what these files say, and the child runs from a
\* complete environment ("the install is retried on the next start",
\* ensure_venv), unless a half-cleared one that kept its fingerprint is in place.
Stuck == halved /\ Halved(venv)

Recovers ==
  <>[](/\ disk = hub /\ cached # NoMark
       /\ cached.requirements = Scan(hub).requirements
       /\ config = DependenciesOf(cached, hub)
       /\ Stuck \/ (running /\ Works(venv)))
=============================================================================
