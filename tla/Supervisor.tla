----------------------------- MODULE Supervisor -----------------------------
(***************************************************************************)
(* What MicroserviceOperator promises, without how: for each service there *)
(* is a configuration that is wanted, if any, and one that runs.  What     *)
(* runs changes only by a start, with what is wanted by then, by a stop,   *)
(* for which there is a cause, or by a child's own death; and what is      *)
(* wanted gets to run.  Operator implements it (Operator!Promise).         *)
(*                                                                         *)
(* There are no queues, cycles, start limits, polls, syncs or processes    *)
(* here: a service whose configuration changed is due a restart.           *)
(***************************************************************************)
CONSTANTS Services, None

VARIABLES
  want,     (* the configuration wanted of each service                       *)
  runs,     (* the one its child runs                                         *)
  due,      (* services to be restarted for a change                          *)
  closed    (* the operator has ended                                         *)

vars == <<want, runs, due, closed>>

Init ==
  /\ want = [s \in Services |-> None]
  /\ runs = [s \in Services |-> None]
  /\ due = {}
  /\ closed = FALSE

\* Something else is wanted: nothing that runs is touched yet, but whatever
\* has another configuration from now on is due.
ChangedTo(next) == {s \in Services : want[s] # None /\ next[s] # None /\ next[s] # want[s]}

Want ==
  /\ want' # want
  /\ due' = due \cup ChangedTo(want')
  /\ UNCHANGED <<runs, closed>>

\* Services that are not wanted, or are due, stop; none is struck off as long
\* as it runs.
Stop ==
  /\ \A s \in Services : runs'[s] # runs[s] => runs'[s] = None /\ (want[s] = None \/ s \in due)
  /\ due' \subseteq due
  /\ \A s \in due \ due' : runs'[s] = None
  /\ UNCHANGED <<want, closed>>

Start(s) ==
  /\ want[s] # None
  /\ runs' = [runs EXCEPT ![s] = want[s]]
  /\ UNCHANGED <<want, due, closed>>

Die(s) ==
  /\ runs' = [runs EXCEPT ![s] = None]
  /\ UNCHANGED <<want, due, closed>>

Close ==
  /\ runs' = [s \in Services |-> None]
  /\ closed' = TRUE
  /\ UNCHANGED <<want, due>>

Next ==
  /\ ~closed
  /\ Want \/ Stop \/ Close \/ \E s \in Services : Start(s) \/ Die(s)

Spec == Init /\ [][Next]_vars

\* Each service runs again and again just what is wanted of it by then, until
\* the operator ends.
Delivers == \A s \in Services : []<>(closed \/ runs[s] = want[s])

FairSpec == Spec /\ Delivers
=============================================================================
