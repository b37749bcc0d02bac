----------------------------- MODULE Enrollment -----------------------------
(***************************************************************************)
(* The identity and the ticket of the app, src/enroll.rs: two files under  *)
(* <root>/bridge, read and written without a lock by                       *)
(*                                                                         *)
(*   the operator's thread, whose connector is connect_bridge,             *)
(*   the job of the GUI that restarts the operator or redeems a token      *)
(*   (restart_operator and submit_bridge_token of src/gui/app_state.rs),   *)
(*   the command bridge-enroll, another process (src/main.rs).             *)
(*                                                                         *)
(* identity.key and current.json are written in place: a write truncates   *)
(* the file, then fills it, and a crash or an error in between leaves a    *)
(* torn file.  Each hub (the bridge_microservice of one COSMOS) knows one  *)
(* key of the app; recreating its data gives it a new identity, which      *)
(* makes the tickets of the old one fail with a certificate error.         *)
(*                                                                         *)
(* OperatorLifecycle shows that one operator and one job run at a time;    *)
(* that is built in here.  BridgePairing has the warm-up and the limit of  *)
(* attempts; here an unpaired operator tries again.                        *)
(*                                                                         *)
(* A definition marked "slip" is the next one with a plausible bug.  No    *)
(* action uses a slip: substituted for that definition it shows that the   *)
(* properties notice.                                                      *)
(***************************************************************************)
EXTENDS Naturals

CONSTANTS
  Sites,          (* compose contexts, each with its COSMOS and its hub      *)
  MaxRecreations, (* bound: no hub is recreated once one was, that often     *)
  MaxInputs,      (* bound: things the user does                             *)
  MaxTroubles     (* bound: failed calls and writes, and crashes             *)

None == "none"             \* no key, no site
Existing == "existing"     \* the key of an earlier launch

ASSUME EnrollmentAssumption ==
  /\ Sites # {} /\ None \notin Sites
  /\ MaxRecreations \in Nat /\ MaxInputs \in Nat /\ MaxTroubles \in Nat

Op  == "operator"
Job == "job"
Cli == "command"
Actors == {Op, Job, Cli}

\* The key an actor mints is named for it: once identity.key exists nobody
\* mints again, so an actor mints at most one key that is ever written.
Keys == Actors \cup {Existing}

Ticket   == [hub : Sites, gen : 0..MaxRecreations]
NoTicket == [hub |-> None, gen |-> 0]

\* Contents of current.json.
Absent  == [kind |-> "absent", ticket |-> NoTicket]
Torn    == [kind |-> "torn", ticket |-> NoTicket]
Current == {Absent, Torn} \cup [kind : {"auto", "manual"}, ticket : Ticket]

VARIABLES
  identity,    (* identity.key: a key, "absent" or "torn"                     *)
  current,     (* current.json                                                *)
  override,    (* OPENC3_BRIDGE_TICKET                                        *)
  gen,         (* hub -> how often it was recreated                           *)
  registered,  (* hub -> the key of the app it accepts                        *)
  site,        (* the context of AppState                                     *)
  task,        (* what each actor is doing                                    *)
  minters,     (* history: the actors that found no identity                  *)
  inputs, troubles

files   == <<identity, current>>
hubs    == <<gen, registered>>
counts  == <<inputs, troubles>>
enrollmentVars == <<files, override, hubs, site, task, minters, counts>>

Places  == {"off", "load", "mint", "minting", "resolve", "enroll", "redeem", "save",
            "saving", "unlinked", "validate", "forget", "remove", "paired", "stop"}
Sources == {None, "environment", "cached_auto", "cached_manual", "auto_enrolled", "refreshed"}
Task    == [at : Places, site : Sites \cup {None}, key : Keys \cup {None},
            ticket : Ticket \cup {NoTicket}, source : Sources,
            resolved : Current,   \* history: current.json as resolve_ticket read it
            dropped : Current]    \* history: as forget_cached_ticket read it

Fresh(place, s) == [at |-> place, site |-> s, key |-> None, ticket |-> NoTicket,
                    source |-> None, resolved |-> Absent, dropped |-> Absent]
Off == Fresh("off", None)

EnrollmentTypeOK ==
  /\ identity \in Keys \cup {"absent", "torn"}
  /\ current \in Current
  /\ override \in Ticket \cup {NoTicket}
  /\ gen \in [Sites -> 0..MaxRecreations]
  /\ registered \in [Sites -> Keys \cup {None}]
  /\ site \in Sites
  /\ task \in [Actors -> Task]
  /\ minters \subseteq Actors
  /\ inputs \in Nat /\ troubles \in Nat

TicketOf(h) == [hub |-> h, gen |-> gen[h]]

EnrollmentInit ==
  /\ identity \in {"absent", Existing}
  /\ current = Absent
  /\ gen = [h \in Sites |-> 0]
  /\ registered = [h \in Sites |-> None]
  /\ override \in {NoTicket} \cup {TicketOf(h) : h \in Sites}
  /\ site \in Sites
  /\ task = [a \in Actors |-> IF a = Op THEN Fresh("load", site) ELSE Off]
  /\ minters = {}
  /\ inputs = 0 /\ troubles = 0

Trouble == troubles < MaxTroubles /\ troubles' = troubles + 1

At(a, place) == task[a].at = place
Becomes(a, t) == task' = [task EXCEPT ![a] = t]
Goes(a, place) == Becomes(a, [task[a] EXCEPT !.at = place])

\* An attempt that fails: the operator's loop tries again in its next cycle, a
\* job hands the operator back untouched, the command reports the error.
Ended(a) == IF a = Op THEN Fresh("load", task[a].site) ELSE Off

------------------------------------------------------------------------------
(* load_or_create_secret.  A running operator begins here in every cycle.  *)

\* The shutdown flag: set by the job once it is done with the files.
Asked == At(Job, "stop")

AfterIdentity(a) == IF a = Op THEN "resolve" ELSE "redeem"

\* slip: a minted key is used without being written
KeyUnsaved(a) == AfterIdentity(a)
AfterMint(a) == "mint"

LoadIdentity(a) ==
  /\ At(a, "load") /\ (a = Op => ~Asked)
  /\ \/ identity \in Keys
        /\ Becomes(a, [task[a] EXCEPT !.at = AfterIdentity(a), !.key = identity])
        /\ UNCHANGED minters
     \/ identity = "torn" /\ Becomes(a, Ended(a)) /\ UNCHANGED minters
     \/ identity = "absent"
        /\ Becomes(a, [task[a] EXCEPT !.at = AfterMint(a), !.key = a])
        /\ minters' = minters \cup {a}
  /\ UNCHANGED <<files, override, hubs, site, counts>>

TruncateIdentity(a) ==
  /\ At(a, "mint")
  /\ identity' = "torn" /\ Goes(a, "minting")
  /\ UNCHANGED <<current, override, hubs, site, minters, counts>>

WriteIdentity(a) ==
  /\ At(a, "minting")
  /\ identity' = task[a].key /\ Goes(a, AfterIdentity(a))
  /\ UNCHANGED <<current, override, hubs, site, minters, counts>>

------------------------------------------------------------------------------
(* write_current.                                                          *)

AfterSave(a) == CASE a = Op -> "validate" [] a = Job -> "stop" [] a = Cli -> "off"

TruncateCurrent(a) ==
  /\ At(a, "save")
  /\ current' = Torn /\ Goes(a, "saving")
  /\ UNCHANGED <<identity, override, hubs, site, minters, counts>>

\* Two writers of one file: over what another has written, a shorter text
\* leaves a tail that does not parse.  A file that was removed since it was
\* truncated takes its text with it.
WriteCurrent(a) ==
  /\ task[a].at \in {"saving", "unlinked"}
  /\ current' \in
       IF At(a, "unlinked") THEN {current}
       ELSE {[kind |-> IF a = Op THEN "auto" ELSE "manual", ticket |-> task[a].ticket]}
              \cup {c \in {Torn} : current.kind \in {"auto", "manual"}}
  /\ IF a = Cli THEN Becomes(a, Off) ELSE Goes(a, AfterSave(a))
  /\ UNCHANGED <<identity, override, hubs, site, minters, counts>>

------------------------------------------------------------------------------
(* forget_cached_ticket: the file is read, then removed.                   *)

AfterForget(a) ==
  IF a = Job THEN Fresh("stop", task[a].site)
             ELSE [task[a] EXCEPT !.at = "enroll", !.source = "refreshed"]

\* What the drop read stays with an operator, which goes on to enrol.
Dropped(t) == [t EXCEPT !.dropped = IF t.at = "stop" THEN Absent ELSE current]

\* slip: a manual ticket is cleared like any other
ForgetsAll(c) == FALSE
KeptByForget(c) == c.kind = "manual"

ForgetReads(a) ==
  /\ At(a, "forget")
  /\ Becomes(a, Dropped(IF KeptByForget(current) THEN AfterForget(a)
                         ELSE [task[a] EXCEPT !.at = "remove"]))
  /\ UNCHANGED <<files, override, hubs, site, minters, counts>>

ForgetRemoves(a) ==
  /\ At(a, "remove")
  /\ current' = Absent
  /\ task' = [b \in Actors |-> CASE b = a -> AfterForget(a)
                               [] b # a /\ At(b, "saving") -> [task[b] EXCEPT !.at = "unlinked"]
                               [] OTHER -> task[b]]
  /\ UNCHANGED <<identity, override, hubs, site, minters, counts>>

------------------------------------------------------------------------------
(* connect_bridge, on the operator's thread.                               *)

\* An operator that was asked to shut down ends at the head of its loop.
Ends ==
  /\ Asked /\ task[Op].at \in {"load", "paired"}
  /\ Becomes(Op, Off)
  /\ UNCHANGED <<files, override, hubs, site, minters, counts>>

\* resolve_ticket: the environment, else the file, else enrol.
\* slip: how the ticket was obtained is not looked at
SourceIgnored(c) == "cached_auto"
SourceOf(c) == IF c.kind = "manual" THEN "cached_manual" ELSE "cached_auto"

Resolve ==
  /\ At(Op, "resolve")
  /\ LET t == task[Op] IN
     \/ override # NoTicket
        /\ Becomes(Op, [t EXCEPT !.at = "validate", !.ticket = override,
                                 !.source = "environment"])
     \/ override = NoTicket /\ current.kind \in {"auto", "manual"}
        /\ Becomes(Op, [t EXCEPT !.at = "validate", !.ticket = current.ticket,
                                 !.source = SourceOf(current), !.resolved = current])
     \/ override = NoTicket /\ current.kind \in {"absent", "torn"}
        /\ Becomes(Op, [t EXCEPT !.at = "enroll", !.source = "auto_enrolled",
                                 !.resolved = current])
  /\ UNCHANGED <<files, override, hubs, site, minters, counts>>

\* auto_enroll: bridgeenroll registers the key and prints the ticket.
Printed(t) == t # NoTicket

AutoEnroll ==
  /\ At(Op, "enroll")
  /\ registered' = [registered EXCEPT ![task[Op].site] = task[Op].key]
  /\ \E out \in {TicketOf(task[Op].site), NoTicket} :
       /\ IF out = NoTicket THEN Trouble ELSE UNCHANGED troubles
       /\ Becomes(Op, IF Printed(out) THEN [task[Op] EXCEPT !.at = "save", !.ticket = out]
                                      ELSE Ended(Op))
  /\ UNCHANGED <<files, override, gen, site, minters, inputs>>

\* connect_and_validate.  The outcome paired stands for the client the
\* operator keeps from then on.
HubPresent(t)  == t = TicketOf(t.hub)
HubAccepts(t, k) == HubPresent(t) /\ registered[t.hub] = k

\* slip: a stale ticket is reported like any other error
NeverReplaced(s) == FALSE
Replaceable(s) == s = "cached_auto"

Validate ==
  /\ At(Op, "validate")
  /\ LET t == task[Op] IN
     \/ HubAccepts(t.ticket, t.key)
        /\ Becomes(Op, [t EXCEPT !.at = "paired", !.key = None, !.resolved = Absent,
                                 !.dropped = Absent])
     \/ ~HubPresent(t.ticket) /\ Replaceable(t.source) /\ Goes(Op, "forget")
     \/ /\ ~HubAccepts(t.ticket, t.key)
        /\ HubPresent(t.ticket) \/ ~Replaceable(t.source)
        /\ Becomes(Op, Ended(Op))
  /\ UNCHANGED <<files, override, hubs, site, minters, counts>>

------------------------------------------------------------------------------
(* enroll_with_token, and the rest of the jobs.                            *)

\* The hub checks the code of the token and records the key that redeems it.
\* Its answer may be lost.
Redeem(a) ==
  /\ At(a, "redeem")
  /\ LET t == task[a].ticket IN
     IF HubPresent(t)
       THEN /\ registered' = [registered EXCEPT ![t.hub] = task[a].key]
            /\ \/ Goes(a, "save") /\ UNCHANGED troubles
               \/ Trouble /\ Becomes(a, Ended(a))
       ELSE Becomes(a, Ended(a)) /\ UNCHANGED <<registered, troubles>>
  /\ UNCHANGED <<files, override, gen, site, minters, inputs>>

\* Operator::stop joins the old thread, Operator::start makes the new one.
StartNew ==
  /\ At(Job, "stop") /\ At(Op, "off")
  /\ task' = [task EXCEPT ![Op] = Fresh("load", task[Job].site), ![Job] = Off]
  /\ UNCHANGED <<files, override, hubs, site, minters, counts>>

------------------------------------------------------------------------------
(* Failures, the user and the hubs.                                        *)

\* A call or a write fails.  An automatic ticket that cannot be saved is used
\* all the same, a ticket that cannot be removed stays, and every other
\* failure ends the attempt.
Fault(a) ==
  /\ Trouble
  /\ task[a].at \in {"load", "mint", "minting", "enroll", "redeem", "save", "saving",
                     "unlinked", "validate", "remove"}
  /\ Becomes(a, CASE At(a, "remove") -> AfterForget(a)
                  [] task[a].at \in {"save", "saving", "unlinked"} /\ task[a].source = "auto_enrolled"
                       -> [task[a] EXCEPT !.at = "validate"]
                  [] OTHER -> Ended(a))
  /\ UNCHANGED <<files, override, hubs, site, minters, inputs>>

Input == inputs < MaxInputs /\ inputs' = inputs + 1

\* restart_operator(true): the development context changed.
Reenroll(s) ==
  /\ Input /\ At(Job, "off") /\ s # site
  /\ site' = s /\ Becomes(Job, Fresh("forget", s))
  /\ UNCHANGED <<files, override, hubs, minters, troubles>>

\* restart_operator(false).
Restart ==
  /\ Input /\ At(Job, "off")
  /\ Becomes(Job, Fresh("stop", site))
  /\ UNCHANGED <<files, override, hubs, site, minters, troubles>>

\* submit_bridge_token and bridge-enroll: a token for a hub, fresh from its
\* admin page.
Pair(a, h) ==
  /\ Input /\ At(a, "off") /\ a # Op
  /\ Becomes(a, [Fresh("load", IF a = Job THEN site ELSE None) EXCEPT !.ticket = TicketOf(h)])
  /\ UNCHANGED <<files, override, hubs, site, minters, troubles>>

\* retry_bridge: a paired operator drops its client and connects anew.
Retry ==
  /\ Input /\ At(Op, "paired")
  /\ Becomes(Op, Ended(Op))
  /\ UNCHANGED <<files, override, hubs, site, minters, troubles>>

RecreateHub(h) ==
  /\ \A s \in Sites : gen[s] < MaxRecreations
  /\ gen' = [gen EXCEPT ![h] = @ + 1]
  /\ registered' = [registered EXCEPT ![h] = None]
  /\ UNCHANGED <<files, override, site, task, minters, counts>>

\* The app dies and is launched again, or the command dies: the files stay.
Crash ==
  /\ Trouble
  /\ \/ task' = [task EXCEPT ![Op] = Fresh("load", site), ![Job] = Off]
     \/ ~At(Cli, "off") /\ Becomes(Cli, Off)
  /\ UNCHANGED <<files, override, hubs, site, minters, inputs>>

------------------------------------------------------------------------------
Connects == Ends \/ Resolve \/ AutoEnroll \/ Validate

Works(a) ==
  \/ LoadIdentity(a) \/ TruncateIdentity(a) \/ WriteIdentity(a)
  \/ TruncateCurrent(a) \/ WriteCurrent(a)
  \/ ForgetReads(a) \/ ForgetRemoves(a)
  \/ Redeem(a)

Outside ==
  \/ \E a \in Actors : Fault(a) \/ \E h \in Sites : Pair(a, h)
  \/ \E h \in Sites : Reenroll(h) \/ RecreateHub(h)
  \/ Restart \/ Retry \/ Crash

EnrollmentNext ==
  \/ Connects
  \/ \E a \in Actors : Works(a)
  \/ StartNew
  \/ Outside

EnrollmentSpec == EnrollmentInit /\ [][EnrollmentNext]_enrollmentVars

\* The operator's loop and the job's worker are threads that keep running.
Fairness ==
  /\ WF_enrollmentVars(Connects) /\ WF_enrollmentVars(StartNew)
  /\ \A a \in Actors : WF_enrollmentVars(Works(a))

FairEnrollment == EnrollmentSpec /\ Fairness

------------------------------------------------------------------------------
(* Properties.                                                             *)

IsManual(c) == c.kind = "manual"

Saves(a) == task[a].at \in {"save", "saving"}
PairsByHand(a) == a # Op /\ Saves(a)

\* A ticket the user paired with by hand is not overwritten by an attempt to
\* connect that resolved it, however stale it is, nor removed by a drop of the
\* cached ticket that read it (CachedManual in connect_bridge, manual in
\* forget_cached_ticket).  It is kept from those two only: an attempt that
\* resolved another ticket, or none, may overwrite it, also when its own drop
\* kept it on the way (ManualIsUntouched).
ManualIsKept ==
  [][IsManual(current) /\ current' # current =>
       \E a \in Actors : /\ task'[a] # task[a]
                         /\ \/ PairsByHand(a)
                            \/ Saves(a) /\ task[a].resolved # current
                            \/ At(a, "remove") /\ task[a].dropped # current]_enrollmentVars

\* What connect_bridge says: when an automatic ticket is replaced, manual
\* tickets "remain user-owned and untouched".  Whoever has read the ticket
\* paired by hand, to resolve it or to drop it, leaves it alone.  The code breaks
\* it (MCEnrollment_manual.cfg).
ManualIsUntouched ==
  [][IsManual(current) /\ current' # current =>
       \E a \in Actors : /\ task'[a] # task[a]
                         /\ \/ PairsByHand(a)
                            \/ current \notin {task[a].resolved, task[a].dropped}]_enrollmentVars

\* The key that hubs know the app by is the key on disk, so that a later launch
\* is still accepted: a minted key is saved before it is registered, and
\* neither a crash nor a failed write comes between.  Two actors that both find
\* no identity may each register their own.
AloneToMint == \A a, b \in minters : a = b

HubsKnowTheSavedKey ==
  AloneToMint =>
    \A h \in Sites : registered[h] \in {None, identity}

\* Without a token or a ticket of the user's own, the operator is paired again
\* and again, although hubs are recreated under it, tickets are torn and calls
\* fail: a stale automatic ticket is replaced without the user.  It stays
\* unpaired only over a torn identity, or when the hub knows another key.
HubKnowsAnother ==
  /\ current.kind = "auto" /\ HubPresent(current.ticket)
  /\ registered[current.ticket.hub] # identity

AutoPairs ==
  []<>(\/ At(Op, "paired")
       \/ override # NoTicket \/ IsManual(current)
       \/ identity = "torn" \/ HubKnowsAnother)

==============================================================================
