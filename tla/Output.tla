------------------------------- MODULE Output --------------------------------
(***************************************************************************)
(* What becomes of the lines a host microservice prints: a thread per      *)
(* child reads its pipe into the buffer of the supervised process          *)
(* (CapturedOutput, spawn_reader), the supervision loop drains the buffer  *)
(* into the log table and into the channel of a bridge client              *)
(* (output_increment), and that client's log_forwarder sends them to the   *)
(* hub (src/operator.rs, src/bridge.rs).                                   *)
(*                                                                         *)
(* One service; its children come one after the other, and share the       *)
(* buffer. A line is the child that printed it and its number. stderr      *)
(* takes the same way, up to the log table.                                *)
(***************************************************************************)
EXTENDS LogSink, SequencesExt

CONSTANTS
  MaxLines,     (* bound: lines printed                                     *)
  MaxChildren,  (* bound: children started                                  *)
  MaxClients    (* bound: bridge clients made                               *)

ASSUME OutputBounds ==
  /\ MaxLines \in Nat /\ MaxChildren \in Nat \ {0} /\ MaxClients \in Nat

VARIABLES
  printed,      (* who printed each line: line n is by printed[n]           *)
  pipe,         (* per child: lines printed and not read                    *)
  readers,      (* children whose pipe is read                              *)
  child,        (* the newest child, and whether it runs                    *)
  pending,      (* lines read and not yet taken (CapturedOutput)            *)
  loop,         (* where the loop is, the lines it has taken, and what it   *)
                (* does after them                                          *)
  client,       (* the current bridge client, 0 without one                 *)
  clients,      (* bound: clients so far                                    *)
  sender,       (* whose channel the process holds (log_tx)                 *)
  channel,      (* the lines in the channel of the current client           *)
  hub,          (* lines the hub received                                   *)
  logged        (* history: lines pushed to the log table                   *)

childVars == <<printed, pipe, readers, child>>
hubVars == <<channel, hub>>
outputVars == <<childVars, pending, loop, client, clients, sender, hubVars, logged>>
vars == <<sinkVars, outputVars>>

Children == 1..MaxChildren
LineNo(n) == [by |-> printed[n], n |-> n]

\* What the log table gets: a line, or the report of a death, which shows the
\* first and the newest lines of the service.
LineRecord(line) == [line |-> line]
Report == [died |-> TRUE]

Idle == [at |-> "idle", batch |-> <<>>, then |-> "idle"]

Init ==
  /\ SinkInit
  /\ printed = <<>>
  /\ pipe = [c \in Children |-> <<>>]
  /\ readers = {1}
  /\ child = [n |-> 1, runs |-> TRUE]
  /\ pending = <<>>
  /\ loop = Idle
  /\ client = 1 /\ clients = 1 /\ sender = 1
  /\ channel = <<>> /\ hub = <<>>
  /\ logged = {}

------------------------------------------------------------------------------
(* The child and the reader of its pipe.                                   *)

\* What is printed into a pipe that nobody reads is gone, and may end the
\* child.
PrintLine ==
  /\ child.runs /\ Len(printed) < MaxLines
  /\ printed' = Append(printed, child.n)
  /\ \/ /\ child.n \in readers
        /\ LET line == [by |-> child.n, n |-> Len(printed')]
           IN pipe' = [pipe EXCEPT ![child.n] = Append(@, line)]
        /\ UNCHANGED child
     \/ /\ child.n \notin readers
        /\ \/ UNCHANGED child
           \/ child.n < MaxChildren /\ child' = [child EXCEPT !.runs = FALSE]
        /\ UNCHANGED pipe
  /\ UNCHANGED <<sinkVars, readers, pending, loop, client, clients, sender,
                 hubVars, logged>>

Dies ==
  /\ child.runs /\ child.n < MaxChildren
  /\ child' = [child EXCEPT !.runs = FALSE]
  /\ UNCHANGED <<sinkVars, printed, pipe, readers, pending, loop, client,
                 clients, sender, hubVars, logged>>

\* The loop holds the buffer while it passes on what it took from it.
Draining == loop.at \in {"push", "bump"}

\* The thread of a child reads on after the child is dead, until the pipe is
\* empty; a line that is not UTF-8 ends it.
ReadLine(c) ==
  /\ c \in readers /\ pipe[c] # <<>> /\ ~Draining
  /\ \/ /\ pending' = Append(pending, Head(pipe[c]))
        /\ pipe' = [pipe EXCEPT ![c] = Tail(@)]
        /\ UNCHANGED readers
     \/ /\ readers' = readers \ {c}
        /\ pipe' = [pipe EXCEPT ![c] = <<>>]
        /\ UNCHANGED pending
  /\ UNCHANGED <<sinkVars, printed, child, loop, client, clients, sender,
                 hubVars, logged>>

------------------------------------------------------------------------------
(* The supervision loop.                                                   *)

\* take_pending, in output_increment, on the way to `then`.
TakePending(then) ==
  /\ loop' = [at |-> IF pending = <<>> THEN then ELSE "push",
              batch |-> pending, then |-> then]
  /\ pending' = <<>>

\* capture_line, and the send to the hub: a channel whose client is gone
\* refuses the line, which nobody notices.
PushLine ==
  /\ loop.at = "push"
  /\ PushRecord(LineRecord(Head(loop.batch)))
  /\ logged' = logged \cup {Head(loop.batch)}
  /\ loop' = [loop EXCEPT !.at = "bump"]
  /\ UNCHANGED <<moved, table, ui, clears, childVars, pending, client,
                 clients, sender, hubVars>>

SendLine ==
  /\ loop.at = "bump"
  /\ Bump
  /\ channel' = IF sender # 0 /\ sender = client
                THEN Append(channel, Head(loop.batch)) ELSE channel
  /\ loop' = IF Len(loop.batch) = 1
             THEN [at |-> loop.then, batch |-> <<>>, then |-> loop.then]
             ELSE [loop EXCEPT !.at = "push", !.batch = Tail(@)]
  /\ UNCHANGED <<ring, table, ui, clears, childVars, pending, client, clients,
                 sender, hub, logged>>

\* respawn_dead passes the output on and then looks at the child: what it
\* printed last is still in the pipe or in the buffer.
Scan ==
  /\ loop.at = "idle"
  /\ TakePending("check")
  /\ UNCHANGED <<sinkVars, childVars, client, clients, sender, hubVars, logged>>

FindAlive ==
  /\ loop.at = "check" /\ child.runs
  /\ loop' = Idle
  /\ UNCHANGED <<sinkVars, childVars, pending, client, clients, sender,
                 hubVars, logged>>

\* A dead child is reported with the ends of the output (log_error).
FindDead ==
  /\ loop.at = "check" /\ ~child.runs
  /\ PushRecord(Report)
  /\ loop' = [Idle EXCEPT !.at = "reported"]
  /\ UNCHANGED <<moved, table, ui, clears, childVars, pending, client,
                 clients, sender, hubVars, logged>>

BumpAfterReport ==
  /\ loop.at = "reported"
  /\ Bump
  /\ loop' = [Idle EXCEPT !.at = "start"]
  /\ UNCHANGED <<ring, table, ui, clears, childVars, pending, client, clients,
                 sender, hubVars, logged>>

\* start: the new child's pipe gets a reader, and the process keeps its
\* buffer. (A start that fails is, for the output, a child that dies at once.)
StartWithNewBuffer ==   \* slip
  /\ loop.at = "start" /\ child.n < MaxChildren
  /\ child' = [n |-> child.n + 1, runs |-> TRUE]
  /\ readers' = readers \cup {child.n + 1}
  /\ pending' = <<>>
  /\ loop' = Idle
  /\ UNCHANGED <<sinkVars, printed, pipe, client, clients, sender, hubVars, logged>>
StartChild ==
  /\ loop.at = "start" /\ child.n < MaxChildren
  /\ child' = [n |-> child.n + 1, runs |-> TRUE]
  /\ readers' = readers \cup {child.n + 1}
  /\ loop' = Idle
  /\ UNCHANGED <<sinkVars, printed, pipe, pending, client, clients, sender,
                 hubVars, logged>>

\* A changed service gets the channel of the current client and is stopped
\* and started; one that goes away is stopped and forgotten.
Stopping(then) ==
  /\ loop.at = "idle"
  /\ TakePending(then)
  /\ UNCHANGED <<sinkVars, childVars, client, clients, hubVars, logged>>

Change ==
  /\ child.n < MaxChildren
  /\ Stopping("kill")
  /\ sender' = client

RemoveService ==
  /\ Stopping("forget")
  /\ UNCHANGED sender

\* hard_stop. A stopped child may have printed after its output was taken.
HardStop ==
  /\ loop.at \in {"kill", "forget"}
  /\ child' = [child EXCEPT !.runs = FALSE]
  /\ loop' = [Idle EXCEPT !.at = IF loop.at = "kill" THEN "start" ELSE "removed"]
  /\ UNCHANGED <<sinkVars, printed, pipe, readers, pending, client, clients,
                 sender, hubVars, logged>>

\* The Retry button drops the client, and with it the channel and the
\* forwarder; a later cycle makes another. Processes keep what they hold.
DropClient ==
  /\ loop.at = "idle" /\ client # 0
  /\ client' = 0
  /\ channel' = <<>>
  /\ UNCHANGED <<sinkVars, childVars, pending, loop, clients, sender, hub, logged>>

NewClient ==
  /\ loop.at = "idle" /\ client = 0 /\ clients < MaxClients
  /\ client' = clients + 1
  /\ clients' = clients + 1
  /\ UNCHANGED <<sinkVars, childVars, pending, loop, sender, hubVars, logged>>

------------------------------------------------------------------------------
(* log_forwarder, on the client's own threads.                             *)

\* Each line is received by the hub, or lost: no connection can be made for
\* it, its write fails, or the connection ends after the write. Whether one is
\* open makes no other difference.
RequeueLine ==   \* slip
  /\ client # 0 /\ channel # <<>>
  /\ \/ /\ channel' = Tail(channel)
        /\ hub' = Append(hub, Head(channel))
     \/ /\ channel' = Append(Tail(channel), Head(channel))
        /\ UNCHANGED hub
  /\ UNCHANGED <<sinkVars, childVars, pending, loop, client, clients, sender,
                 logged>>
ForwardLine ==
  /\ client # 0 /\ channel # <<>>
  /\ channel' = Tail(channel)
  /\ hub' \in {hub, Append(hub, Head(channel))}
  /\ UNCHANGED <<sinkVars, childVars, pending, loop, client, clients, sender,
                 logged>>

------------------------------------------------------------------------------
Reader == \E c \in Children : ReadLine(c)

OutputIncrement == PushLine \/ SendLine
RespawnDead == Scan \/ FindAlive \/ FindDead \/ BumpAfterReport \/ StartChild
Loop == OutputIncrement \/ RespawnDead \/ HardStop

Next ==
  \/ PrintLine \/ Dies \/ Reader
  \/ Loop \/ Change \/ RemoveService
  \/ DropClient \/ NewClient
  \/ ForwardLine
  \/ UserInterface /\ UNCHANGED outputVars

\* Threads run on: each reader, the supervision loop, the UI thread inside a
\* handler, and the heartbeat timer. Nothing forces the child, the user, the
\* hub or the network.
Fairness ==
  /\ \A c \in Children : WF_vars(ReadLine(c))
  /\ WF_vars(Loop)
  /\ WF_vars(Heartbeat /\ UNCHANGED outputVars)
  /\ WF_vars((BumpAfterClear \/ ForgetRecords) /\ UNCHANGED outputVars)

Spec == Init /\ [][Next]_vars /\ Fairness

------------------------------------------------------------------------------
(* Properties.                                                             *)

InPrintOrder(lines) ==
  \A i, j \in DOMAIN lines :
    i < j /\ lines[i].by = lines[j].by => lines[i].n < lines[j].n

\* The same of the lines among the records of the log table.
InTableOrder(records) ==
  \A i, j \in DOMAIN records :
    /\ i < j /\ records[i] # Report /\ records[j] # Report
    /\ records[i].line.by = records[j].line.by
    => records[i].line.n < records[j].line.n

\* What a child prints arrives in the order it was printed and at most once,
\* in the log table and at the hub, across lost connections, a respawn and
\* two readers that fill one buffer (output_increment,
\* spawn_reader; log_forwarder may drop a line).
OutputKeepsOrder ==
  /\ InPrintOrder(hub)
  /\ InTableOrder(ring)

\* The last words of a child are not lost with it: each line it printed comes
\* to the log table, unless its reader met a line that is not text, or the
\* service went away (respawn_dead takes the output before it looks at the
\* child, and start keeps the buffer for the next round).
Accounted(n) ==
  \/ Len(printed) < n
  \/ LineNo(n) \in logged
  \/ printed[n] \notin readers
  \/ loop.at = "removed"
LastWordsAreLogged == \A n \in 1..MaxLines : (Len(printed) >= n) ~> Accounted(n)

\* "the GUI can cheaply tell whether its copy is stale" (GENERATION): a line
\* that enters the ring while the user is not just clearing it comes to be
\* shown, unless it leaves the ring before or the table is paused.
Shown(n) ==
  LET record == LineRecord(LineNo(n))
  IN record \in ToSet(table.records) \/ record \notin ToSet(ring) \/ table.paused
Entering(n) == loop.at = "bump" /\ Head(loop.batch).n = n /\ ~Clearing
TableCatchesUp ==
  \A n \in 1..MaxLines : Entering(n) ~> n \in DOMAIN printed /\ Shown(n)

------------------------------------------------------------------------------
(* What makes the order inductive, and what the promises of liveness rest  *)
(* on.                                                                     *)

Line   == [by : Children, n : Nat]
Record == [line : Line] \cup {Report}
Places == {"idle", "push", "bump", "check", "reported", "start", "kill", "forget", "removed"}

OutputTypeOK ==
  /\ ring \in Seq(Record)
  /\ printed \in Seq(Children)
  /\ pipe \in [Children -> Seq(Line)]
  /\ readers \subseteq Children
  /\ child \in [n : Children, runs : BOOLEAN]
  /\ pending \in Seq(Line)
  /\ loop \in [at : Places, batch : Seq(Line), then : {"idle", "check", "kill", "forget"}]
  /\ channel \in Seq(Line) /\ hub \in Seq(Line)
  /\ logged \subseteq Line

\* The lines still in a pipe, those on their way to the log table, and those in
\* it.
Unread == UNION {ToSet(pipe[c]) : c \in Children}
Untabled == ToSet(IF loop.at = "bump" THEN Tail(loop.batch) ELSE loop.batch)
Tabled == {record.line : record \in ToSet(ring) \ {Report}}

\* What a child printed into the one comes before what it printed into the
\* other.
Before(lines, others) ==
  \A a \in lines, b \in others : a.by = b.by => a.n < b.n

\* Along the way from the pipe to the hub, and to the table, each stretch is in
\* order and behind the one ahead of it; no line is newer than the last.
OrderedOnTheWay ==
  /\ InPrintOrder(channel) /\ InPrintOrder(loop.batch) /\ InPrintOrder(pending)
  /\ \A c \in Children : InPrintOrder(pipe[c]) /\ \A line \in ToSet(pipe[c]) : line.by = c
  /\ Before(ToSet(hub), ToSet(channel) \cup ToSet(loop.batch) \cup ToSet(pending) \cup Unread)
  /\ Before(ToSet(channel), ToSet(loop.batch) \cup ToSet(pending) \cup Unread)
  /\ Before(Tabled, Untabled \cup ToSet(pending) \cup Unread)
  /\ Before(ToSet(loop.batch), ToSet(pending) \cup Unread)
  /\ Before(ToSet(pending), Unread)
  /\ \A line \in Tabled \cup ToSet(hub) \cup ToSet(channel) \cup ToSet(loop.batch)
                   \cup ToSet(pending) \cup Unread : line.n <= Len(printed)

\* The loop holds lines exactly while it passes them on, and nobody printed or
\* is read before being started.
Bookkeeping ==
  /\ Draining <=> loop.batch # <<>>
  /\ readers \subseteq 1..child.n
  /\ \A n \in DOMAIN printed : printed[n] <= child.n

\* A line that is not in the log table yet is somewhere on its way to it, as
\* long as its child has a reader, whatever dies, starts or is changed: the
\* part of LastWordsAreLogged that does not take fairness.
NoLineIsDropped ==
  \A n \in DOMAIN printed :
    \/ printed[n] \notin readers
    \/ LineNo(n) \in logged \cup Untabled \cup ToSet(pending) \cup ToSet(pipe[printed[n]])

\* A copy that is behind the ring is known to be behind, from the moment the
\* record's writer is through, until the user clears the table
\* ("the GUI can cheaply tell whether its copy is stale", GENERATION).
StaleCopyIsMarked ==
  /\ clears = 0
  /\ ~moved /\ ui = "idle" /\ loop.at \notin {"bump", "reported"}
  => table.records = ring
=============================================================================
