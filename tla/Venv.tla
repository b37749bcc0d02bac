-------------------------------- MODULE Venv --------------------------------
(***************************************************************************)
(* Building a Python environment in place: ensure_venv and swap_venv in    *)
(* src/operator.rs.  A rebuild is made in venv.staging and swapped in; the *)
(* fingerprint of what was to be installed is written into it last.        *)
(*                                                                         *)
(* A builder is a thread inside ensure_venv.  Each command or change of a  *)
(* directory is a step; it may fail, and a builder may be gone after any.  *)
(* What a requirement is made of does not matter here.                     *)
(*                                                                         *)
(* Without uv the same is done by the base interpreter's venv and pip,     *)
(* which only lack the offline attempt.                                    *)
(***************************************************************************)
EXTENDS Integers

CONSTANTS
  Builders,
  Requirements,   (* what may be asked for, and be installed                  *)
  Partial,        (* in their place: not completely installed                 *)
  NoMark,         (* and: no fingerprint                                      *)
  MaxFaults       (* bound: failures of any kind, and crashes                 *)

ASSUME VenvAssumption ==
  /\ MaxFaults \in Nat
  /\ Partial \notin Requirements /\ NoMark \notin Requirements

VARIABLES
  venv, staging, old,  (* the three directories                               *)
  at,                  (* where each builder is                               *)
  want,                (* its fingerprint                                     *)
  existing,            (* its local: there was a venv when it began           *)
  moved,               (* its local had_old of swap_venv                      *)
  faults,
  worked,              (* history: a complete venv was in place               *)
  cut,                 (* history: a swap was cut between its two renames     *)
  halved               (* history: a clear of staging left a fingerprint      *)
                       (* without what it stands for                          *)

dirs      == <<venv, staging, old>>
buildVars == <<at, want, existing, moved>>
histories == <<worked, cut, halved>>
venvVars  == <<dirs, buildVars, faults, histories>>

\* A directory: its interpreter, the requirement that is completely installed
\* in it, the fingerprint file.
Marks   == Requirements \cup {NoMark}
Dir     == [there : BOOLEAN, pkgs : Requirements \cup {Partial}, mark : Marks]
Absent  == [there |-> FALSE, pkgs |-> Partial, mark |-> NoMark]
Fresh   == [there |-> TRUE, pkgs |-> Partial, mark |-> NoMark]

Works(dir) == dir.there /\ dir.pkgs # Partial

\* A directory is removed, or cleared, entry by entry: what is left of it when
\* that fails or is interrupted.
Remains(dir) ==
  {[there |-> t, pkgs |-> p, mark |-> m] :
     t \in {dir.there, FALSE}, p \in {dir.pkgs, Partial}, m \in {dir.mark, NoMark}}

Halved(dir) == dir.mark # NoMark /\ ~Works(dir)

Places == {"idle", "create", "install", "failed", "mark", "aside", "place", "drop", "done"}

VenvTypeOK ==
  /\ venv \in Dir /\ staging \in Dir /\ old \in Dir
  /\ at \in [Builders -> Places]
  /\ want \in [Builders -> Marks]
  /\ existing \in [Builders -> BOOLEAN] /\ moved \in [Builders -> BOOLEAN]
  /\ faults \in 0..MaxFaults
  /\ worked \in BOOLEAN /\ cut \in BOOLEAN /\ halved \in BOOLEAN

VenvInit ==
  /\ venv = Absent /\ staging = Absent /\ old = Absent
  /\ at = [b \in Builders |-> "idle"]
  /\ want = [b \in Builders |-> NoMark]
  /\ existing = [b \in Builders |-> FALSE] /\ moved = [b \in Builders |-> FALSE]
  /\ faults = 0
  /\ worked = FALSE /\ cut = FALSE /\ halved = FALSE

Fail == faults < MaxFaults /\ faults' = faults + 1

Goto(b, place) == at' = [at EXCEPT ![b] = place]

\* Nothing to do when the recorded fingerprint is the wanted one.
Begin(b, fingerprint) ==
  /\ at[b] = "idle"
  /\ want' = [want EXCEPT ![b] = fingerprint]
  /\ existing' = [existing EXCEPT ![b] = venv.there]
  /\ Goto(b, IF venv.there /\ venv.mark = fingerprint THEN "done" ELSE "create")
  /\ UNCHANGED <<dirs, moved, faults, histories>>

\* uv venv --clear: a fresh staging venv, or a failure that leaves what there
\* was (an interrupted rebuild, or one that was not swapped in), a part of it,
\* or nothing, or comes after the interpreter is there.
Cleared == Remains(staging) \cup {Fresh}

Create(b) ==
  /\ at[b] = "create"
  /\ \/ /\ staging' = Fresh
        /\ Goto(b, "install")
        /\ UNCHANGED <<faults, halved>>
     \/ /\ Fail
        /\ staging' \in Cleared
        /\ halved' = (halved \/ Halved(staging'))
        /\ Goto(b, "failed")
  /\ UNCHANGED <<venv, old, want, existing, moved, worked, cut>>

\* uv pip install, online and then from the cache, of what the requirement
\* files hold now; Partial if one of them is missing.
Install(b, content) ==
  /\ at[b] = "install"
  /\ \/ /\ staging.there /\ content # Partial
        /\ staging' = [staging EXCEPT !.pkgs = content]
        /\ Goto(b, "mark")
        /\ UNCHANGED faults
     \/ /\ IF staging.there /\ content # Partial THEN Fail ELSE UNCHANGED faults
        /\ Goto(b, "failed")
        /\ UNCHANGED staging
  /\ UNCHANGED <<venv, old, want, existing, moved, histories>>

\* A failed rebuild keeps the venv there is and removes the staging venv, or
\* what can be removed of it; without one the incomplete staging venv is used,
\* with whatever fingerprint is in it.
UseIncomplete(b) ==   \* slip
  /\ at[b] = "failed"
  /\ Goto(b, IF staging.there THEN "aside" ELSE "done")
  /\ UNCHANGED <<dirs, want, existing, moved, faults, histories>>
MarkAnyway(b) ==   \* slip
  /\ at[b] = "failed"
  /\ Goto(b, IF existing[b] \/ ~staging.there THEN "done" ELSE "mark")
  /\ UNCHANGED <<dirs, want, existing, moved, faults, histories>>
GiveUp(b) ==
  /\ at[b] = "failed"
  /\ IF existing[b] \/ ~staging.there
     THEN /\ \/ staging' = Absent /\ UNCHANGED faults
             \/ Fail /\ staging' \in Remains(staging)
          /\ halved' = (halved \/ Halved(staging'))
          /\ Goto(b, "done")
     ELSE Goto(b, "aside") /\ UNCHANGED <<staging, faults, halved>>
  /\ UNCHANGED <<venv, old, want, existing, moved, worked, cut>>

\* Record the fingerprint in the staging venv; a failure goes unnoticed.
Mark(b) ==
  /\ at[b] = "mark"
  /\ \/ staging' = [staging EXCEPT !.mark = want[b]] /\ UNCHANGED faults
     \/ Fail /\ UNCHANGED staging
  /\ Goto(b, "aside")
  /\ UNCHANGED <<venv, old, want, existing, moved, histories>>

\* swap_venv: make room for the old venv and move it aside, which fails where
\* something of an older one is left in its place,
MoveAside(b) ==
  /\ at[b] = "aside"
  /\ \/ /\ old' = venv /\ venv' = Absent
        /\ moved' = [moved EXCEPT ![b] = venv.there]
        /\ Goto(b, "place")
        /\ UNCHANGED faults
     \/ /\ Fail
        /\ old' \in Remains(old)
        /\ IF venv.there THEN Goto(b, "done") /\ UNCHANGED moved
                         ELSE Goto(b, "place") /\ moved' = [moved EXCEPT ![b] = FALSE]
        /\ UNCHANGED venv
  /\ UNCHANGED <<staging, want, existing, histories>>

\* move the new one in, or the old one back (which may fail as well),
Place(b) ==
  /\ at[b] = "place"
  /\ \/ /\ staging.there
        /\ venv' = staging /\ staging' = Absent
        /\ worked' = (worked \/ Works(staging))
        /\ Goto(b, "drop")
        /\ UNCHANGED <<old, faults, cut>>
     \/ /\ Fail
        /\ Goto(b, "done")
        /\ \/ moved[b] /\ venv' = old /\ old' = Absent /\ UNCHANGED cut
           \/ cut' = (cut \/ moved[b]) /\ UNCHANGED <<venv, old>>
        /\ UNCHANGED <<staging, worked>>
  /\ UNCHANGED <<want, existing, moved, halved>>

\* and remove the old one, as far as that goes.
DropOld(b) ==
  /\ at[b] = "drop"
  /\ \/ old' = Absent /\ UNCHANGED faults
     \/ Fail /\ old' \in Remains(old)
  /\ Goto(b, "done")
  /\ UNCHANGED <<venv, staging, want, existing, moved, histories>>

\* The process ends, its builders wherever they are.
Vanish ==
  /\ at' = [b \in Builders |-> "idle"]
  /\ staging' \in {staging}
       \cup {d \in Cleared : \E b \in Builders : at[b] = "create"}
       \cup {d \in Remains(staging) : \E b \in Builders : at[b] = "failed"}
  /\ old' \in {old} \cup {d \in Remains(old) : \E b \in Builders : at[b] \in {"aside", "drop"}}
  /\ halved' = (halved \/ (staging' # staging /\ Halved(staging')))
  /\ cut' = (cut \/ \E b \in Builders : at[b] = "place" /\ moved[b])
  /\ UNCHANGED <<venv, want, existing, moved, worked>>

Build(b, content) ==
  \/ Create(b) \/ Install(b, content) \/ GiveUp(b) \/ Mark(b)
  \/ MoveAside(b) \/ Place(b) \/ DropOld(b)

------------------------------------------------------------------------------
(* Properties.                                                             *)

\* "ensure_venv only records the fingerprint after a successful install"
\* (update_discovery): what carries a fingerprint is completely installed, so
\* that no interrupted or failed build is taken for a finished one.  Not once
\* a clear of a marked staging venv stopped half-way (IncompleteIsRetried).
MarkedIsComplete ==
  ~halved => \A dir \in {venv, staging} : dir.mark # NoMark => Works(dir)

\* What ensure_venv says: the "(possibly incomplete) staged venv is used anyway,
\* and the install is retried on the next start".  So what is in place and is
\* incomplete carries no fingerprint, which would keep it from being retried.  The
\* code breaks it (MCProvision_cleared.cfg).
IncompleteIsRetried == venv.mark # NoMark => Works(venv)

\* "A failed rebuild ... keeps the working venv" (ensure_venv), "so there's
\* always a venv at venv_dir" (swap_venv): once a complete venv was in place
\* there is one, whatever fails, except while a swap is between its renames;
\* a process that ends there leaves none.
WorkingVenvKept ==
  worked /\ ~cut =>
    \/ Works(venv)
    \/ Works(old) /\ \E b \in Builders : at[b] = "place" /\ moved[b]
=============================================================================
