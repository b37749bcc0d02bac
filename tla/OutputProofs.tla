---------------------------- MODULE OutputProofs ----------------------------
(***************************************************************************)
(* Theorems about Output, for any length of the log table, any number of   *)
(* lines, children, bridge clients and clears.                             *)
(***************************************************************************)
EXTENDS Output, SequenceTheorems, TLAPS

------------------------------------------------------------------------------
(* Sequences of lines.                                                     *)

\* Append adds one element, at the end.
LEMMA Appended ==
  ASSUME NEW S, NEW q \in Seq(S), NEW x \in S
  PROVE  /\ Append(q, x) \in Seq(S) /\ Append(q, x) # <<>>
         /\ Len(Append(q, x)) = Len(q) + 1
         /\ \A i \in 1..Len(q) : Append(q, x)[i] = q[i]
         /\ Append(q, x)[Len(q) + 1] = x
         /\ ToSet(Append(q, x)) = ToSet(q) \cup {x}
<1>1. /\ Append(q, x) \in Seq(S) /\ Append(q, x) # <<>>
      /\ Len(Append(q, x)) = Len(q) + 1
      /\ \A i \in 1..Len(q) : Append(q, x)[i] = q[i]
      /\ Append(q, x)[Len(q) + 1] = x
  BY AppendProperties
<1>2. /\ DOMAIN q = 1..Len(q) /\ Len(q) \in Nat
      /\ DOMAIN Append(q, x) = 1..(Len(q) + 1)
  BY <1>1
<1>3. ToSet(Append(q, x)) \subseteq ToSet(q) \cup {x}
  BY <1>1, <1>2 DEF ToSet
<1>4. ToSet(q) \cup {x} \subseteq ToSet(Append(q, x))
  <2>1. \A i \in 1..Len(q) : i \in 1..(Len(q) + 1)
    BY <1>2
  <2>2. Len(q) + 1 \in 1..(Len(q) + 1)
    BY <1>2
  <2>. QED BY <1>1, <1>2, <2>1, <2>2 DEF ToSet
<1>. QED BY <1>1, <1>3, <1>4

\* A sequence that is not empty is its head and then its tail.
LEMMA Taken ==
  ASSUME NEW S, NEW q \in Seq(S), q # <<>>
  PROVE  /\ Head(q) \in S /\ Tail(q) \in Seq(S)
         /\ Len(q) \in Nat \ {0} /\ Head(q) = q[1]
         /\ Len(Tail(q)) = Len(q) - 1
         /\ \A i \in 1..(Len(q) - 1) : Tail(q)[i] = q[i + 1]
         /\ ToSet(q) = {Head(q)} \cup ToSet(Tail(q))
<1>1. /\ Head(q) \in S /\ Tail(q) \in Seq(S)
      /\ Len(q) \in Nat \ {0} /\ Head(q) = q[1]
      /\ Len(Tail(q)) = Len(q) - 1
      /\ \A i \in 1..(Len(q) - 1) : Tail(q)[i] = q[i + 1]
  BY HeadTailProperties, EmptySeq
<1>2. DOMAIN q = 1..Len(q) /\ DOMAIN Tail(q) = 1..(Len(q) - 1)
  BY <1>1
<1>3. {Head(q)} \cup ToSet(Tail(q)) \subseteq ToSet(q)
  <2>1. 1 \in 1..Len(q) /\ \A i \in 1..(Len(q) - 1) : i + 1 \in 1..Len(q)
    BY <1>1
  <2>. QED BY <1>1, <1>2, <2>1 DEF ToSet
<1>4. ToSet(q) \subseteq {Head(q)} \cup ToSet(Tail(q))
  <2>1. SUFFICES ASSUME NEW i \in 1..Len(q), i # 1 PROVE q[i] \in ToSet(Tail(q))
    BY <1>1, <1>2 DEF ToSet
  <2>2. i - 1 \in 1..(Len(q) - 1) /\ Tail(q)[i - 1] = q[i]
    BY <1>1, <2>1
  <2>. QED BY <1>2, <2>2 DEF ToSet
<1>. QED BY <1>1, <1>3, <1>4

\* No element, no set.
LEMMA Emptied == ToSet(<<>>) = {}
  BY DEF ToSet

\* A line that comes after those of a sequence can be appended to it.
LEMMA AppendInOrder ==
  ASSUME NEW q \in Seq(Line), NEW x \in Line, InPrintOrder(q), Before(ToSet(q), {x})
  PROVE  InPrintOrder(Append(q, x))
<1>1. /\ Len(q) \in Nat /\ DOMAIN q = 1..Len(q)
      /\ DOMAIN Append(q, x) = 1..(Len(q) + 1)
      /\ \A i \in 1..Len(q) : Append(q, x)[i] = q[i]
      /\ Append(q, x)[Len(q) + 1] = x
  BY Appended
<1> SUFFICES ASSUME NEW i \in 1..(Len(q) + 1), NEW j \in 1..(Len(q) + 1), i < j,
                    Append(q, x)[i].by = Append(q, x)[j].by
             PROVE  Append(q, x)[i].n < Append(q, x)[j].n
  BY <1>1 DEF InPrintOrder
<1>2. i \in 1..Len(q) /\ Append(q, x)[i] = q[i] /\ q[i] \in ToSet(q)
  BY <1>1 DEF ToSet
<1>3. CASE j = Len(q) + 1
  BY <1>1, <1>2, <1>3 DEF Before
<1>4. CASE j # Len(q) + 1
  <2>1. j \in 1..Len(q) /\ Append(q, x)[j] = q[j]
    BY <1>1, <1>4
  <2>. QED BY <1>1, <1>2, <2>1 DEF InPrintOrder
<1>. QED BY <1>3, <1>4

\* The head of an ordered sequence comes before its tail, which is ordered.
LEMMA TailInOrder ==
  ASSUME NEW q \in Seq(Line), q # <<>>, InPrintOrder(q)
  PROVE  InPrintOrder(Tail(q)) /\ Before({Head(q)}, ToSet(Tail(q)))
<1>1. /\ Len(q) \in Nat \ {0} /\ DOMAIN q = 1..Len(q) /\ Head(q) = q[1]
      /\ DOMAIN Tail(q) = 1..(Len(q) - 1)
      /\ \A i \in 1..(Len(q) - 1) : Tail(q)[i] = q[i + 1]
  BY Taken
<1>2. \A i \in 1..(Len(q) - 1) : i + 1 \in 1..Len(q) /\ 1 < i + 1
  BY <1>1
<1>3. InPrintOrder(Tail(q))
  <2> SUFFICES ASSUME NEW i \in 1..(Len(q) - 1), NEW j \in 1..(Len(q) - 1), i < j,
                      Tail(q)[i].by = Tail(q)[j].by
               PROVE  Tail(q)[i].n < Tail(q)[j].n
    BY <1>1 DEF InPrintOrder
  <2>1. i + 1 < j + 1
    OBVIOUS
  <2>. QED BY <1>1, <1>2, <2>1 DEF InPrintOrder
<1>4. Before({Head(q)}, ToSet(Tail(q)))
  <2> SUFFICES ASSUME NEW i \in 1..(Len(q) - 1), Head(q).by = Tail(q)[i].by
               PROVE  Head(q).n < Tail(q)[i].n
    BY <1>1 DEF Before, ToSet
  <2>1. 1 \in 1..Len(q)
    BY <1>1
  <2>. QED BY <1>1, <1>2, <2>1 DEF InPrintOrder
<1>. QED BY <1>3, <1>4

\* The table takes a new record at the end, and gives up its oldest for it.
LEMMA Pushed ==
  ASSUME NEW r \in Seq(Record), NEW record \in Record, InTableOrder(r),
         record # Report => Before({s.line : s \in ToSet(r) \ {Report}}, {record.line})
  PROVE  /\ Append(r, record) \in Seq(Record)
         /\ InTableOrder(Append(r, record))
         /\ ToSet(Append(r, record)) = ToSet(r) \cup {record}
<1>1. /\ Append(r, record) \in Seq(Record)
      /\ Len(r) \in Nat /\ DOMAIN r = 1..Len(r)
      /\ DOMAIN Append(r, record) = 1..(Len(r) + 1)
      /\ \A i \in 1..Len(r) : Append(r, record)[i] = r[i]
      /\ Append(r, record)[Len(r) + 1] = record
      /\ ToSet(Append(r, record)) = ToSet(r) \cup {record}
  BY Appended
<1>2. InTableOrder(Append(r, record))
  <2> DEFINE q == Append(r, record)
  <2> SUFFICES ASSUME NEW i \in 1..(Len(r) + 1), NEW j \in 1..(Len(r) + 1), i < j,
                      q[i] # Report, q[j] # Report, q[i].line.by = q[j].line.by
               PROVE  q[i].line.n < q[j].line.n
    BY <1>1 DEF InTableOrder
  <2>1. i \in 1..Len(r) /\ q[i] = r[i] /\ r[i] \in ToSet(r)
    BY <1>1 DEF ToSet
  <2>2. CASE j = Len(r) + 1
    <3>1. q[j] = record
      BY <1>1, <2>2
    <3>. QED BY <2>1, <3>1 DEF Before
  <2>3. CASE j # Len(r) + 1
    <3>1. j \in 1..Len(r) /\ q[j] = r[j]
      BY <1>1, <2>3
    <3>. QED BY <1>1, <2>1, <3>1 DEF InTableOrder
  <2>. QED BY <2>2, <2>3
<1>. QED BY <1>1, <1>2

LEMMA TailInTable ==
  ASSUME NEW r \in Seq(Record), r # <<>>, InTableOrder(r)
  PROVE  InTableOrder(Tail(r)) /\ Tail(r) \in Seq(Record) /\ ToSet(Tail(r)) \subseteq ToSet(r)
<1>1. /\ Len(r) \in Nat \ {0} /\ DOMAIN r = 1..Len(r)
      /\ DOMAIN Tail(r) = 1..(Len(r) - 1)
      /\ \A i \in 1..(Len(r) - 1) : Tail(r)[i] = r[i + 1]
      /\ Tail(r) \in Seq(Record) /\ ToSet(r) = {Head(r)} \cup ToSet(Tail(r))
  BY Taken
<1>2. InTableOrder(Tail(r))
  <2> SUFFICES ASSUME NEW i \in 1..(Len(r) - 1), NEW j \in 1..(Len(r) - 1), i < j,
                      Tail(r)[i] # Report, Tail(r)[j] # Report,
                      Tail(r)[i].line.by = Tail(r)[j].line.by
               PROVE  Tail(r)[i].line.n < Tail(r)[j].line.n
    BY <1>1 DEF InTableOrder
  <2>1. i + 1 \in 1..Len(r) /\ j + 1 \in 1..Len(r) /\ i + 1 < j + 1
    BY <1>1
  <2>. QED BY <1>1, <2>1 DEF InTableOrder
<1>. QED BY <1>1, <1>2

------------------------------------------------------------------------------
(* Type correctness.                                                       *)

\* What a push does to the table's records.
LEMMA PushType ==
  ASSUME ring \in Seq(Record), NEW record \in Record, PushRecord(record)
  PROVE  ring' \in Seq(Record)
<1>1. CASE Len(ring) < MaxRecords
  BY <1>1, Appended DEF PushRecord
<1>2. CASE ~(Len(ring) < MaxRecords)
  <2>1. ring # <<>>
    BY <1>2, MaxRecordsAssumption
  <2>2. Tail(ring) \in Seq(Record)
    BY <2>1, Taken
  <2>. QED BY <1>2, <2>2, Appended DEF PushRecord
<1>. QED BY <1>1, <1>2

\* The initial state is well typed, and the books are in order.
LEMMA TypeInit == Init => OutputTypeOK /\ Bookkeeping
<1> SUFFICES ASSUME Init PROVE OutputTypeOK /\ Bookkeeping
  OBVIOUS
<1>1. 1 \in Children
  BY OutputBounds DEF Children
<1>2. /\ ring \in Seq(Record) /\ printed \in Seq(Children) /\ pending \in Seq(Line)
      /\ channel \in Seq(Line) /\ hub \in Seq(Line) /\ <<>> \in Seq(Line)
  BY DEF Init, SinkInit
<1>3. OutputTypeOK
  BY <1>1, <1>2 DEF Init, Idle, Places, OutputTypeOK
<1>4. Bookkeeping
  BY DEF Init, Idle, Draining, Bookkeeping
<1>. QED BY <1>3, <1>4

\* Every action keeps the types and the books.
LEMMA TypeStep == OutputTypeOK /\ Bookkeeping /\ [Next]_vars => (OutputTypeOK /\ Bookkeeping)'
<1> SUFFICES ASSUME OutputTypeOK, Bookkeeping, [Next]_vars
             PROVE  OutputTypeOK' /\ Bookkeeping'
  OBVIOUS
<1>t. /\ printed \in Seq(Children) /\ Len(printed) \in Nat /\ DOMAIN printed = 1..Len(printed)
      /\ pipe \in [Children -> Seq(Line)] /\ readers \subseteq Children
      /\ child \in [n : Children, runs : BOOLEAN] /\ child.n \in Nat
      /\ pending \in Seq(Line) /\ channel \in Seq(Line) /\ hub \in Seq(Line)
      /\ loop \in [at : Places, batch : Seq(Line), then : {"idle", "check", "kill", "forget"}]
      /\ loop.batch \in Seq(Line) /\ ring \in Seq(Record) /\ logged \subseteq Line
  BY DEF OutputTypeOK, Children
<1>e. <<>> \in Seq(Line)
  OBVIOUS
<1>r. Report \in Record /\ \A line \in Line : LineRecord(line) \in Record
  BY DEF Record, LineRecord
<1>h. Draining => /\ loop.batch # <<>> /\ Head(loop.batch) \in Line
                  /\ Tail(loop.batch) \in Seq(Line)
                  /\ Len(Tail(loop.batch)) = Len(loop.batch) - 1
  BY <1>t, Taken DEF Bookkeeping
<1> USE DEF childVars, hubVars, sinkVars
<1>1. CASE PrintLine
  <2>1. /\ printed' = Append(printed, child.n)
        /\ UNCHANGED <<sinkVars, readers, pending, loop, client, clients, sender, hubVars, logged>>
        /\ child' \in [n : Children, runs : BOOLEAN] /\ child'.n = child.n
    BY <1>1, <1>t DEF PrintLine
  <2>2. /\ printed' \in Seq(Children) /\ Len(printed') = Len(printed) + 1
        /\ DOMAIN printed' = 1..(Len(printed) + 1)
        /\ \A n \in 1..Len(printed) : printed'[n] = printed[n]
        /\ printed'[Len(printed) + 1] = child.n
    BY <1>t, <2>1, Appended
  <2>3. pipe' \in [Children -> Seq(Line)]
    <3>1. [by |-> child.n, n |-> Len(printed')] \in Line
      BY <1>t, <2>2 DEF Line
    <3>2. Append(pipe[child.n], [by |-> child.n, n |-> Len(printed')]) \in Seq(Line)
      BY <1>t, <3>1, Appended
    <3>. QED BY <1>1, <1>t, <3>2 DEF PrintLine
  <2>4. OutputTypeOK'
    BY <1>t, <2>1, <2>2, <2>3 DEF OutputTypeOK
  <2>5. \A n \in DOMAIN printed' : printed'[n] <= child'.n
    <3>1. \A n \in 1..Len(printed) : printed[n] <= child.n
      BY <1>t DEF Bookkeeping
    <3>2. \A n \in 1..(Len(printed) + 1) : n \in 1..Len(printed) \/ n = Len(printed) + 1
      BY <1>t
    <3>. QED BY <1>t, <2>1, <2>2, <3>1, <3>2
  <2>6. Bookkeeping'
    BY <2>1, <2>5 DEF Bookkeeping, Draining
  <2>. QED BY <2>4, <2>6
<1>2. CASE Dies
  <2>1. /\ child' \in [n : Children, runs : BOOLEAN] /\ child'.n = child.n
        /\ UNCHANGED <<sinkVars, printed, pipe, readers, pending, loop, hubVars, logged>>
    BY <1>2, <1>t DEF Dies
  <2>. QED BY <1>t, <2>1 DEF OutputTypeOK, Bookkeeping, Draining
<1>3. ASSUME NEW c \in Children, ReadLine(c) PROVE OutputTypeOK' /\ Bookkeeping'
  <2>1. /\ pipe[c] # <<>> /\ readers' \subseteq readers
        /\ UNCHANGED <<sinkVars, printed, child, loop, hubVars, logged>>
    BY <1>3 DEF ReadLine
  <2>2. Head(pipe[c]) \in Line /\ Tail(pipe[c]) \in Seq(Line)
    BY <1>t, <2>1, Taken
  <2>3. pending' \in Seq(Line)
    <3>1. Append(pending, Head(pipe[c])) \in Seq(Line)
      BY <1>t, <2>2, Appended
    <3>. QED BY <1>3, <1>t, <3>1 DEF ReadLine
  <2>4. pipe' \in [Children -> Seq(Line)]
    BY <1>3, <1>t, <1>e, <2>2 DEF ReadLine
  <2>. QED BY <1>t, <2>1, <2>3, <2>4 DEF OutputTypeOK, Bookkeeping, Draining
<1>4. ASSUME NEW then \in {"check", "kill", "forget"}, TakePending(then),
             UNCHANGED <<sinkVars, childVars, hubVars, logged>>
      PROVE  OutputTypeOK' /\ Bookkeeping'
  <2>1. /\ loop' = [at |-> IF pending = <<>> THEN then ELSE "push",
                    batch |-> pending, then |-> then]
        /\ pending' = <<>>
    BY <1>4 DEF TakePending
  <2>2. OutputTypeOK'
    BY <1>t, <1>e, <1>4, <2>1 DEF OutputTypeOK, Places
  <2>. QED BY <1>4, <2>1, <2>2 DEF Bookkeeping, Draining
<1>5. ASSUME NEW line \in Line, PushRecord(LineRecord(line)), logged' = logged \cup {line},
             UNCHANGED <<childVars, pending, hubVars>>,
             loop' = [loop EXCEPT !.at = "bump"], loop.at = "push"
      PROVE  OutputTypeOK' /\ Bookkeeping'
  <2>1. ring' \in Seq(Record)
    BY <1>5, <1>t, <1>r, PushType
  <2>. QED BY <1>5, <1>t, <2>1 DEF OutputTypeOK, Places, Bookkeeping, Draining
<1>6. CASE PushLine
  <2>1. Head(loop.batch) \in Line
    BY <1>6, <1>h DEF PushLine, Draining
  <2>. QED BY <1>6, <1>5, <2>1 DEF PushLine
<1>7. CASE SendLine
  <2>1. /\ loop.at = "bump"
        /\ UNCHANGED <<ring, childVars, pending, hub, logged>>
        /\ channel' \in {channel, Append(channel, Head(loop.batch))}
    BY <1>7 DEF SendLine
  <2>2. channel' \in Seq(Line)
    <3>1. Head(loop.batch) \in Line
      BY <1>h, <2>1 DEF Draining
    <3>2. Append(channel, Head(loop.batch)) \in Seq(Line)
      BY <1>t, <3>1, Appended
    <3>. QED BY <1>t, <2>1, <3>2
  <2>3. CASE Len(loop.batch) = 1
    <3>1. loop' = [at |-> loop.then, batch |-> <<>>, then |-> loop.then]
      BY <1>7, <2>3 DEF SendLine
    <3>. QED BY <1>t, <1>e, <2>1, <2>2, <3>1 DEF OutputTypeOK, Places, Bookkeeping, Draining
  <2>4. CASE Len(loop.batch) # 1
    <3>1. loop' = [loop EXCEPT !.at = "push", !.batch = Tail(@)]
      BY <1>7, <2>4 DEF SendLine
    <3>2. Tail(loop.batch) \in Seq(Line) /\ Tail(loop.batch) # <<>>
      <4>1. Tail(loop.batch) \in Seq(Line) /\ Len(Tail(loop.batch)) = Len(loop.batch) - 1
        BY <1>h, <2>1 DEF Draining
      <4>2. Len(Tail(loop.batch)) # 0
        BY <1>t, <2>4, <4>1
      <4>3. Len(<<>>) = 0
        BY EmptySeq
      <4>. QED BY <4>1, <4>2, <4>3, Zenon
    <3>. QED BY <1>t, <2>1, <2>2, <3>1, <3>2 DEF OutputTypeOK, Places, Bookkeeping, Draining
  <2>. QED BY <2>3, <2>4
<1>8. CASE Scan \/ Change \/ RemoveService
  BY <1>8, <1>4 DEF Scan, Change, RemoveService, Stopping
<1>9. CASE FindAlive \/ BumpAfterReport
  <2>1. /\ UNCHANGED <<ring, childVars, pending, hubVars, logged>>
        /\ loop' = Idle \/ loop' = [Idle EXCEPT !.at = "start"]
    BY <1>9 DEF FindAlive, BumpAfterReport
  <2>2. loop'.at \in {"idle", "start"} /\ loop'.batch = <<>> /\ loop'.then = "idle"
    BY <2>1 DEF Idle
  <2>3. loop' \in [at : Places, batch : Seq(Line), then : {"idle", "check", "kill", "forget"}]
    <3>1. CASE loop' = Idle
      BY <1>e, <3>1 DEF Idle, Places
    <3>2. CASE loop' = [Idle EXCEPT !.at = "start"]
      BY <1>e, <3>2 DEF Idle, Places
    <3>. QED BY <2>1, <3>1, <3>2
  <2>. QED BY <1>t, <2>1, <2>2, <2>3 DEF OutputTypeOK, Bookkeeping, Draining
<1>10. CASE FindDead
  <2>1. /\ UNCHANGED <<childVars, pending, hubVars, logged>>
        /\ loop' = [Idle EXCEPT !.at = "reported"] /\ PushRecord(Report)
    BY <1>10 DEF FindDead
  <2>2. ring' \in Seq(Record)
    BY <1>t, <1>r, <2>1, PushType
  <2>. QED BY <1>t, <1>e, <2>1, <2>2 DEF OutputTypeOK, Bookkeeping, Draining, Idle, Places
<1>11. CASE StartChild
  <2>1. /\ UNCHANGED <<sinkVars, printed, pipe, pending, hubVars, logged>>
        /\ child' = [n |-> child.n + 1, runs |-> TRUE]
        /\ readers' = readers \cup {child.n + 1} /\ loop' = Idle /\ child.n < MaxChildren
    BY <1>11 DEF StartChild
  <2>2. child.n + 1 \in Children
    BY <1>t, <2>1, OutputBounds DEF Children
  <2>3. OutputTypeOK'
    BY <1>t, <1>e, <2>1, <2>2 DEF OutputTypeOK, Idle, Places
  <2>4. readers' \subseteq 1..child'.n /\ \A n \in DOMAIN printed : printed[n] <= child'.n
    <3>1. \A n \in DOMAIN printed : printed[n] \in Nat
      <4>1. \A n \in 1..Len(printed) : printed[n] \in Children
        BY <1>t, ElementOfSeq
      <4>. QED BY <1>t, <4>1 DEF Children
    <3>2. child'.n = child.n + 1
      BY <2>1
    <3>3. \A n \in DOMAIN printed : printed[n] <= child'.n
      BY <1>t, <3>1, <3>2 DEF Bookkeeping
    <3>4. 1..child.n \subseteq 1..(child.n + 1) /\ child.n + 1 \in 1..(child.n + 1)
      BY <1>t, <2>2 DEF Children
    <3>. QED BY <2>1, <3>2, <3>3, <3>4 DEF Bookkeeping
  <2>. QED BY <2>1, <2>3, <2>4 DEF Bookkeeping, Draining, Idle
<1>12. CASE HardStop
  <2>1. /\ UNCHANGED <<sinkVars, printed, pipe, readers, pending, hubVars, logged>>
        /\ child' \in [n : Children, runs : BOOLEAN] /\ child'.n = child.n
        /\ loop' \in {[Idle EXCEPT !.at = "start"], [Idle EXCEPT !.at = "removed"]}
    BY <1>12, <1>t DEF HardStop
  <2>. QED BY <1>t, <1>e, <2>1 DEF OutputTypeOK, Bookkeeping, Draining, Idle, Places
<1>13. CASE DropClient \/ NewClient
  <2>1. UNCHANGED <<sinkVars, childVars, pending, loop, hub, logged>> /\ channel' \in {channel, <<>>}
    BY <1>13 DEF DropClient, NewClient
  <2>. QED BY <1>t, <1>e, <2>1 DEF OutputTypeOK, Bookkeeping, Draining
<1>14. CASE ForwardLine
  <2>1. /\ channel # <<>> /\ channel' = Tail(channel)
        /\ hub' \in {hub, Append(hub, Head(channel))}
        /\ UNCHANGED <<sinkVars, childVars, pending, loop, logged>>
    BY <1>14 DEF ForwardLine
  <2>2. channel' \in Seq(Line) /\ hub' \in Seq(Line)
    <3>1. Head(channel) \in Line /\ Tail(channel) \in Seq(Line)
      BY <1>t, <2>1, Taken
    <3>2. Append(hub, Head(channel)) \in Seq(Line)
      BY <1>t, <3>1, Appended
    <3>. QED BY <1>t, <2>1, <3>1, <3>2
  <2>. QED BY <1>t, <2>1, <2>2 DEF OutputTypeOK, Bookkeeping, Draining
<1>15. CASE UserInterface /\ UNCHANGED outputVars
  <2>1. ring' \in {ring, <<>>}
    BY <1>15 DEF UserInterface, Heartbeat, ReadGeneration, TakeSnapshot, ClearLog, ClearRing,
                 BumpAfterClear, ForgetRecords, TogglePause
  <2>2. ring' \in Seq(Record)
    <3>1. <<>> \in Seq(Record)
      OBVIOUS
    <3>. QED BY <1>t, <2>1, <3>1
  <2>3. UNCHANGED <<childVars, pending, loop, hubVars, logged>>
    BY <1>15 DEF outputVars
  <2>. QED BY <1>t, <2>2, <2>3 DEF OutputTypeOK, Bookkeeping, Draining
<1>16. CASE UNCHANGED vars
  BY <1>t, <1>16 DEF vars, outputVars, OutputTypeOK, Bookkeeping, Draining
<1>. QED
  BY <1>1, <1>2, <1>3, <1>6, <1>7, <1>8, <1>9, <1>10, <1>11, <1>12, <1>13, <1>14, <1>15, <1>16
  DEF Next, Reader, Loop, OutputIncrement, RespawnDead

\* Every variable keeps its type, the loop holds lines exactly while it passes
\* them on, and nobody printed, or is read, before being started.
THEOREM TypeCorrect == Spec => [](OutputTypeOK /\ Bookkeeping)
<1>. QED BY TypeInit, TypeStep, PTL DEF Spec

------------------------------------------------------------------------------
(* The order of the lines.                                                 *)

\* The relations between the stretches of the way, as sets of lines: the hub,
\* the channel, the batch, the buffer, the pipes; the log table and the lines
\* still to be put there; and the number of the last line.
Way(h, c, b, p, u, t, new, last) ==
  /\ Before(h, c \cup b \cup p \cup u)
  /\ Before(c, b \cup p \cup u)
  /\ Before(t, new \cup p \cup u)
  /\ Before(b, p \cup u)
  /\ Before(p, u)
  /\ \A line \in t \cup h \cup c \cup b \cup p \cup u : line.n <= last

\* Fewer lines are in order as well.
LEMMA WayLess ==
  ASSUME NEW h \in SUBSET Line, NEW c \in SUBSET Line, NEW b \in SUBSET Line,
         NEW p \in SUBSET Line, NEW u \in SUBSET Line, NEW t \in SUBSET Line,
         NEW new \in SUBSET Line, NEW last \in Nat, Way(h, c, b, p, u, t, new, last),
         NEW c2 \in SUBSET c, NEW b2 \in SUBSET b, NEW u2 \in SUBSET u, NEW t2 \in SUBSET t,
         NEW new2 \in SUBSET new, NEW last2 \in Nat, last <= last2
  PROVE  Way(h, c2, b2, p, u2, t2, new2, last2)
<1>1. \A line \in Line : line.n \in Nat
  BY DEF Line
<1>2. \A line \in t2 \cup h \cup c2 \cup b2 \cup p \cup u2 : line.n <= last2
  BY <1>1 DEF Way
<1>. QED BY <1>2 DEF Way, Before

\* A line is printed: it is newer than all.
LEMMA WayPrint ==
  ASSUME NEW h \in SUBSET Line, NEW c \in SUBSET Line, NEW b \in SUBSET Line,
         NEW p \in SUBSET Line, NEW u \in SUBSET Line, NEW t \in SUBSET Line,
         NEW new \in SUBSET Line, NEW last \in Nat, Way(h, c, b, p, u, t, new, last),
         NEW x \in Line, x.n = last + 1
  PROVE  Way(h, c, b, p, u \cup {x}, t, new, last + 1)
<1>1. \A line \in Line : line.n \in Nat
  BY DEF Line
<1>2. \A line \in t \cup h \cup c \cup b \cup p \cup u : line.n < x.n /\ line.n <= last + 1
  BY <1>1 DEF Way
<1>. QED BY <1>1, <1>2 DEF Way, Before

\* A line moves from a pipe to the buffer.
LEMMA WayRead ==
  ASSUME NEW h \in SUBSET Line, NEW c \in SUBSET Line, NEW b \in SUBSET Line,
         NEW p \in SUBSET Line, NEW u \in SUBSET Line, NEW t \in SUBSET Line,
         NEW new \in SUBSET Line, NEW last \in Nat, Way(h, c, b, p, u, t, new, last),
         NEW x \in u, NEW u2 \in SUBSET u, Before({x}, u2)
  PROVE  Way(h, c, b, p \cup {x}, u2, t, new, last)
BY DEF Way, Before

\* The loop takes the buffer.
LEMMA WayTake ==
  ASSUME NEW h \in SUBSET Line, NEW c \in SUBSET Line, NEW b \in SUBSET Line,
         NEW p \in SUBSET Line, NEW u \in SUBSET Line, NEW t \in SUBSET Line,
         NEW new \in SUBSET Line, NEW last \in Nat, Way(h, c, b, p, u, t, new, last)
  PROVE  Way(h, c, p, {}, u, t, p, last)
BY DEF Way, Before

\* The first line of the batch goes to the log table.
LEMMA WayPush ==
  ASSUME NEW h \in SUBSET Line, NEW c \in SUBSET Line, NEW b \in SUBSET Line,
         NEW p \in SUBSET Line, NEW u \in SUBSET Line, NEW t \in SUBSET Line,
         NEW last \in Nat, Way(h, c, b, p, u, t, b, last),
         NEW x \in b, NEW rest \in SUBSET b, Before({x}, rest),
         NEW t2 \in SUBSET (t \cup {x})
  PROVE  Way(h, c, b, p, u, t2, rest, last)
BY DEF Way, Before

\* It goes to the channel, or nowhere.
LEMMA WaySend ==
  ASSUME NEW h \in SUBSET Line, NEW c \in SUBSET Line, NEW b \in SUBSET Line,
         NEW p \in SUBSET Line, NEW u \in SUBSET Line, NEW t \in SUBSET Line,
         NEW new \in SUBSET Line, NEW last \in Nat, Way(h, c, b, p, u, t, new, last),
         NEW x \in b, NEW rest \in SUBSET b, Before({x}, rest),
         NEW c2 \in SUBSET (c \cup {x})
  PROVE  Way(h, c2, rest, p, u, t, new, last)
BY DEF Way, Before

\* A line moves from the channel to the hub, or is lost.
LEMMA WayForward ==
  ASSUME NEW h \in SUBSET Line, NEW c \in SUBSET Line, NEW b \in SUBSET Line,
         NEW p \in SUBSET Line, NEW u \in SUBSET Line, NEW t \in SUBSET Line,
         NEW new \in SUBSET Line, NEW last \in Nat, Way(h, c, b, p, u, t, new, last),
         NEW x \in c, NEW rest \in SUBSET c, Before({x}, rest),
         NEW h2 \in SUBSET (h \cup {x})
  PROVE  Way(h2, rest, b, p, u, t, new, last)
BY DEF Way, Before

\* A line is not a report.
LEMMA LinesAreNotReports ==
  ASSUME NEW line \in Line
  PROVE  LineRecord(line) # Report /\ LineRecord(line) \in Record /\ LineRecord(line).line = line
<1>1. "line" \in DOMAIN LineRecord(line) /\ "line" \notin DOMAIN Report
  BY DEF LineRecord, Report
<1>. QED BY <1>1 DEF LineRecord, Record

\* The stretches hold lines.
LEMMA WayType ==
  ASSUME OutputTypeOK, Bookkeeping
  PROVE  /\ ToSet(hub) \subseteq Line /\ ToSet(channel) \subseteq Line
         /\ ToSet(loop.batch) \subseteq Line /\ ToSet(pending) \subseteq Line
         /\ Unread \subseteq Line /\ Tabled \subseteq Line
         /\ Untabled \subseteq ToSet(loop.batch)
         /\ Len(printed) \in Nat
<1>1. ASSUME NEW S, NEW q \in Seq(S) PROVE ToSet(q) \subseteq S
  BY <1>1 DEF ToSet
<1>2. /\ ToSet(hub) \subseteq Line /\ ToSet(channel) \subseteq Line
      /\ ToSet(loop.batch) \subseteq Line /\ ToSet(pending) \subseteq Line
  <2>1. hub \in Seq(Line) /\ channel \in Seq(Line) /\ loop.batch \in Seq(Line)
        /\ pending \in Seq(Line)
    BY DEF OutputTypeOK
  <2>. QED BY <1>1, <2>1
<1>3. Unread \subseteq Line
  <2>1. \A c \in Children : pipe[c] \in Seq(Line)
    BY DEF OutputTypeOK
  <2>2. \A c \in Children : ToSet(pipe[c]) \subseteq Line
    BY <1>1, <2>1
  <2>. QED BY <2>2 DEF Unread
<1>4. Tabled \subseteq Line
  <2>1. ToSet(ring) \subseteq Record
    BY <1>1 DEF OutputTypeOK
  <2>2. \A record \in Record \ {Report} : record.line \in Line
    BY DEF Record
  <2>. QED BY <2>1, <2>2 DEF Tabled
<1>5. Untabled \subseteq ToSet(loop.batch)
  <2>1. CASE loop.at = "bump"
    <3>1. loop.batch \in Seq(Line) /\ loop.batch # <<>>
      BY <2>1 DEF OutputTypeOK, Bookkeeping, Draining
    <3>2. ToSet(Tail(loop.batch)) \subseteq ToSet(loop.batch)
      BY <3>1, Taken
    <3>. QED BY <2>1, <3>2 DEF Untabled
  <2>2. CASE loop.at # "bump"
    BY <2>2 DEF Untabled
  <2>. QED BY <2>1, <2>2
<1>6. Len(printed) \in Nat
  BY DEF OutputTypeOK
<1>. QED BY <1>2, <1>3, <1>4, <1>5, <1>6

\* The invariant of a state, said of the next one.
LEMMA OrderNext ==
  ASSUME InPrintOrder(hub'), InTableOrder(ring'), InPrintOrder(channel'),
         InPrintOrder(loop'.batch), InPrintOrder(pending'),
         \A c \in Children :
           InPrintOrder(pipe'[c]) /\ \A line \in ToSet(pipe'[c]) : line.by = c,
         Way(ToSet(hub'), ToSet(channel'), ToSet(loop'.batch), ToSet(pending'),
             Unread', Tabled', Untabled', Len(printed'))
  PROVE  OutputKeepsOrder' /\ OrderedOnTheWay'
<1>1. OutputKeepsOrder'
  BY DEF OutputKeepsOrder, InPrintOrder, InTableOrder
<1>2. /\ ToSet(hub)' = ToSet(hub') /\ ToSet(channel)' = ToSet(channel')
      /\ ToSet(loop.batch)' = ToSet(loop'.batch) /\ ToSet(pending)' = ToSet(pending')
  BY DEF ToSet
<1>3. InPrintOrder(channel)' /\ InPrintOrder(loop.batch)' /\ InPrintOrder(pending)'
  BY DEF InPrintOrder
<1>4. \A c \in Children : InPrintOrder(pipe[c])' /\ ToSet(pipe[c])' = ToSet(pipe'[c])
  BY DEF InPrintOrder, ToSet
<1>5. /\ Before(ToSet(hub), ToSet(channel) \cup ToSet(loop.batch) \cup ToSet(pending) \cup Unread)'
      /\ Before(ToSet(channel), ToSet(loop.batch) \cup ToSet(pending) \cup Unread)'
      /\ Before(Tabled, Untabled \cup ToSet(pending) \cup Unread)'
      /\ Before(ToSet(loop.batch), ToSet(pending) \cup Unread)'
      /\ Before(ToSet(pending), Unread)'
  BY <1>2 DEF Way, Before
<1>6. (\A line \in Tabled \cup ToSet(hub) \cup ToSet(channel) \cup ToSet(loop.batch)
                   \cup ToSet(pending) \cup Unread : line.n <= Len(printed))'
  BY <1>2 DEF Way
<1>. QED BY <1>1, <1>3, <1>4, <1>5, <1>6 DEF OrderedOnTheWay

\* A push keeps the table in order, and adds at most the one line to it.
LEMMA TablePush ==
  ASSUME ring \in Seq(Record), InTableOrder(ring), NEW record \in Record, PushRecord(record),
         record # Report => Before(Tabled, {record.line})
  PROVE  /\ InTableOrder(ring')
         /\ Tabled' \subseteq Tabled \cup {r.line : r \in {record} \ {Report}}
<1> DEFINE kept == IF Len(ring) < MaxRecords THEN ring ELSE Tail(ring)
<1>1. kept \in Seq(Record) /\ InTableOrder(kept) /\ ToSet(kept) \subseteq ToSet(ring)
  <2>1. CASE Len(ring) < MaxRecords
    BY <2>1
  <2>2. CASE ~(Len(ring) < MaxRecords)
    <3>1. ring # <<>>
      BY <2>2, MaxRecordsAssumption
    <3>. QED BY <2>2, <3>1, TailInTable
  <2>. QED BY <2>1, <2>2
<1>2. ring' = Append(kept, record)
  BY DEF PushRecord
<1> HIDE DEF kept
<1>3. record # Report => Before({r.line : r \in ToSet(kept) \ {Report}}, {record.line})
  BY <1>1 DEF Tabled, Before
<1>4. InTableOrder(ring') /\ ToSet(ring') = ToSet(kept) \cup {record}
  BY <1>1, <1>2, <1>3, Pushed
<1>5. Tabled' = {r.line : r \in ToSet(ring') \ {Report}}
  BY DEF Tabled, ToSet
<1>. QED BY <1>1, <1>4, <1>5 DEF Tabled

\* A step that moves no line on: it may add a report to the table or clear it,
\* drop the channel, or print where nobody reads.
LEMMA OrderQuiet ==
  ASSUME OutputTypeOK, Bookkeeping, OutputKeepsOrder, OrderedOnTheWay,
         UNCHANGED <<hub, pending>>, Len(printed') \in Nat, Len(printed) <= Len(printed'),
         \A c \in Children : pipe'[c] \in {pipe[c], <<>>},
         channel' \in {channel, <<>>},
         \/ loop'.batch = loop.batch /\ (loop'.at = "bump" <=> loop.at = "bump")
         \/ loop'.batch = <<>> /\ loop'.at # "bump",
         InTableOrder(ring'), Tabled' \subseteq Tabled
  PROVE  OutputKeepsOrder' /\ OrderedOnTheWay'
<1>1. InPrintOrder(<<>>) /\ ToSet(<<>>) = {}
  BY Emptied DEF InPrintOrder
<1>2. InPrintOrder(hub') /\ InPrintOrder(channel') /\ InPrintOrder(loop'.batch)
      /\ InPrintOrder(pending')
  BY <1>1 DEF OutputKeepsOrder, OrderedOnTheWay
<1>3. \A c \in Children :
        InPrintOrder(pipe'[c]) /\ \A line \in ToSet(pipe'[c]) : line.by = c
  BY <1>1 DEF OrderedOnTheWay
<1>4. /\ ToSet(channel') \subseteq ToSet(channel)
      /\ ToSet(loop'.batch) \subseteq ToSet(loop.batch)
  BY <1>1
<1>5. Unread' \subseteq Unread
  <2>1. Unread' = UNION {ToSet(pipe'[c]) : c \in Children}
    BY DEF Unread, ToSet
  <2>2. \A c \in Children : ToSet(pipe'[c]) \subseteq ToSet(pipe[c])
    BY <1>1
  <2>. QED BY <2>1, <2>2 DEF Unread
<1>6. Untabled' \subseteq Untabled
  <2>1. Untabled' = ToSet(IF loop'.at = "bump" THEN Tail(loop'.batch) ELSE loop'.batch)
    BY DEF Untabled, ToSet
  <2>2. CASE loop'.batch = loop.batch /\ (loop'.at = "bump" <=> loop.at = "bump")
    BY <2>1, <2>2 DEF Untabled
  <2>3. CASE loop'.batch = <<>> /\ loop'.at # "bump"
    BY <1>1, <2>1, <2>3
  <2>. QED BY <2>2, <2>3
<1>7. Way(ToSet(hub), ToSet(channel), ToSet(loop.batch), ToSet(pending), Unread, Tabled,
          Untabled, Len(printed))
  BY DEF OrderedOnTheWay, Way
<1>8. Untabled \subseteq Line
  BY WayType
<1>9. Way(ToSet(hub), ToSet(channel'), ToSet(loop'.batch), ToSet(pending), Unread', Tabled',
          Untabled', Len(printed'))
  BY <1>4, <1>5, <1>6, <1>7, <1>8, WayType, WayLess
<1>. QED BY <1>2, <1>3, <1>9, OrderNext

\* Initially there is no line.
LEMMA OrderInit == Init => OutputKeepsOrder /\ OrderedOnTheWay
<1> SUFFICES ASSUME Init PROVE OutputKeepsOrder /\ OrderedOnTheWay
  OBVIOUS
<1>1. /\ hub = <<>> /\ channel = <<>> /\ loop.batch = <<>> /\ pending = <<>> /\ ring = <<>>
      /\ \A c \in Children : pipe[c] = <<>>
  BY DEF Init, SinkInit, Idle
<1>2. ToSet(<<>>) = {} /\ InPrintOrder(<<>>) /\ InTableOrder(<<>>)
  BY Emptied DEF InPrintOrder, InTableOrder
<1>3. Unread = {} /\ Tabled = {} /\ ToSet(hub) = {} /\ ToSet(channel) = {}
      /\ ToSet(loop.batch) = {} /\ ToSet(pending) = {}
  BY <1>1, <1>2 DEF Unread, Tabled
<1>. QED BY <1>1, <1>2, <1>3 DEF OutputKeepsOrder, OrderedOnTheWay, Before

\* A line is printed into a pipe.
LEMMA OrderPrint ==
  ASSUME OutputTypeOK, Bookkeeping, OutputKeepsOrder, OrderedOnTheWay,
         NEW c \in Children, NEW line \in Line, line.by = c, line.n = Len(printed) + 1,
         Len(printed') = Len(printed) + 1,
         pipe' = [pipe EXCEPT ![c] = Append(@, line)],
         UNCHANGED <<hub, channel, loop, pending, ring>>
  PROVE  OutputKeepsOrder' /\ OrderedOnTheWay'
<1>1. Way(ToSet(hub), ToSet(channel), ToSet(loop.batch), ToSet(pending), Unread, Tabled,
          Untabled, Len(printed))
  BY DEF OrderedOnTheWay, Way
<1>2. pipe[c] \in Seq(Line) /\ Len(printed) \in Nat
  BY DEF OutputTypeOK
<1>3. /\ pipe'[c] = Append(pipe[c], line)
      /\ \A d \in Children \ {c} : pipe'[d] = pipe[d]
  BY DEF OutputTypeOK
<1>4. ToSet(pipe'[c]) = ToSet(pipe[c]) \cup {line}
  BY <1>2, <1>3, Appended
<1>5. Unread' = Unread \cup {line}
  <2>1. Unread' = UNION {ToSet(pipe'[d]) : d \in Children}
    BY DEF Unread, ToSet
  <2>. QED BY <1>3, <1>4, <2>1 DEF Unread
<1>6. Before(ToSet(pipe[c]), {line})
  <2>1. ToSet(pipe[c]) \subseteq Unread
    BY DEF Unread
  <2>2. \A l \in ToSet(pipe[c]) : l.n \in Nat /\ l.n <= Len(printed)
    BY <2>1, WayType DEF OrderedOnTheWay, Line
  <2>. QED BY <1>2, <2>2 DEF Before
<1>7. InPrintOrder(pipe'[c])
  BY <1>2, <1>3, <1>6, AppendInOrder DEF OrderedOnTheWay
<1>8. \A d \in Children : InPrintOrder(pipe'[d]) /\ \A l \in ToSet(pipe'[d]) : l.by = d
  BY <1>3, <1>4, <1>7 DEF OrderedOnTheWay
<1>9. Untabled' = Untabled /\ Tabled' = Tabled
  BY DEF Untabled, Tabled, ToSet
<1>10. Untabled \subseteq Line
  BY WayType
<1>11. Way(ToSet(hub), ToSet(channel), ToSet(loop.batch), ToSet(pending), Unread \cup {line},
           Tabled, Untabled, Len(printed) + 1)
  BY <1>1, <1>10, WayType, WayPrint
<1>12. Way(ToSet(hub'), ToSet(channel'), ToSet(loop'.batch), ToSet(pending'), Unread',
           Tabled', Untabled', Len(printed'))
  BY <1>5, <1>9, <1>11
<1>. QED BY <1>8, <1>12, OrderNext DEF OutputKeepsOrder, OrderedOnTheWay

\* A reader puts the first line of its pipe into the buffer: the others of that
\* pipe come after it, and those of another pipe are another child's.
LEMMA OrderRead ==
  ASSUME OutputTypeOK, Bookkeeping, OutputKeepsOrder, OrderedOnTheWay,
         NEW c \in Children, pipe[c] # <<>>,
         pending' = Append(pending, Head(pipe[c])),
         pipe' = [pipe EXCEPT ![c] = Tail(@)],
         UNCHANGED <<printed, hub, channel, loop, ring>>
  PROVE  OutputKeepsOrder' /\ OrderedOnTheWay'
<1> DEFINE line == Head(pipe[c])
<1>1. Way(ToSet(hub), ToSet(channel), ToSet(loop.batch), ToSet(pending), Unread, Tabled,
          Untabled, Len(printed))
  BY DEF OrderedOnTheWay, Way
<1>2. pipe[c] \in Seq(Line) /\ pending \in Seq(Line)
  BY DEF OutputTypeOK
<1>3. /\ pipe'[c] = Tail(pipe[c])
      /\ \A d \in Children \ {c} : pipe'[d] = pipe[d]
  BY DEF OutputTypeOK
<1>4. /\ line \in Line
      /\ ToSet(pipe[c]) = {line} \cup ToSet(pipe'[c])
      /\ InPrintOrder(pipe'[c]) /\ Before({line}, ToSet(pipe'[c]))
  <2>1. InPrintOrder(pipe[c])
    BY DEF OrderedOnTheWay
  <2>2. /\ line \in Line /\ ToSet(pipe[c]) = {line} \cup ToSet(Tail(pipe[c]))
        /\ InPrintOrder(Tail(pipe[c])) /\ Before({line}, ToSet(Tail(pipe[c])))
    BY <1>2, <2>1, Taken, TailInOrder
  <2>. QED BY <1>3, <2>2
<1> HIDE DEF line
<1>5. \A d \in Children : InPrintOrder(pipe'[d]) /\ \A l \in ToSet(pipe'[d]) : l.by = d
  BY <1>3, <1>4 DEF OrderedOnTheWay
<1>6. Unread' = UNION {ToSet(pipe'[d]) : d \in Children}
  BY DEF Unread, ToSet
<1>7. line \in Unread /\ line.by = c /\ Unread' \subseteq Unread
  <2>1. line \in ToSet(pipe[c])
    BY <1>4
  <2>2. \A d \in Children : ToSet(pipe'[d]) \subseteq ToSet(pipe[d])
    BY <1>3, <1>4
  <2>. QED BY <1>6, <2>1, <2>2 DEF Unread, OrderedOnTheWay
<1>8. Before({line}, Unread')
  <2>1. ASSUME NEW d \in Children, NEW l \in ToSet(pipe'[d]), l.by = c PROVE line.n < l.n
    <3>1. d = c
      BY <1>5, <2>1
    <3>. QED BY <1>4, <1>7, <2>1, <3>1 DEF Before
  <2>. QED BY <1>6, <1>7, <2>1 DEF Before
<1>9. ToSet(pending') = ToSet(pending) \cup {line}
  BY <1>2, <1>4, Appended DEF line
<1>10. InPrintOrder(pending')
  <2>1. Before(ToSet(pending), {line})
    BY <1>1, <1>7 DEF Way, Before
  <2>. QED BY <1>2, <1>4, <2>1, AppendInOrder DEF OrderedOnTheWay, line
<1>11. Untabled' = Untabled /\ Tabled' = Tabled /\ Untabled \subseteq Line
  <2>1. Untabled' = Untabled /\ Tabled' = Tabled
    BY DEF Untabled, Tabled, ToSet
  <2>. QED BY <2>1, WayType
<1>12. Way(ToSet(hub), ToSet(channel), ToSet(loop.batch), ToSet(pending) \cup {line}, Unread',
           Tabled, Untabled, Len(printed))
  BY <1>1, <1>7, <1>8, <1>11, WayType, WayRead
<1>13. Way(ToSet(hub'), ToSet(channel'), ToSet(loop'.batch), ToSet(pending'), Unread',
           Tabled', Untabled', Len(printed'))
  BY <1>9, <1>11, <1>12
<1>. QED BY <1>5, <1>10, <1>13, OrderNext DEF OutputKeepsOrder, OrderedOnTheWay

\* The loop, which holds no line, takes the whole buffer.
LEMMA OrderTake ==
  ASSUME OutputTypeOK, Bookkeeping, OutputKeepsOrder, OrderedOnTheWay,
         NEW then \in {"check", "kill", "forget"}, TakePending(then),
         UNCHANGED <<printed, pipe, hub, channel, ring>>
  PROVE  OutputKeepsOrder' /\ OrderedOnTheWay'
<1>1. Way(ToSet(hub), ToSet(channel), ToSet(loop.batch), ToSet(pending), Unread, Tabled,
          Untabled, Len(printed))
  BY DEF OrderedOnTheWay, Way
<1>2. loop'.batch = pending /\ loop'.at # "bump" /\ pending' = <<>>
  BY DEF TakePending
<1>3. InPrintOrder(pending') /\ ToSet(pending') = {}
  BY <1>2, Emptied DEF InPrintOrder
<1>4. Untabled' = ToSet(pending) /\ Tabled' = Tabled /\ Unread' = Unread
      /\ Untabled \subseteq Line
  <2>1. Untabled' = ToSet(pending) /\ Tabled' = Tabled /\ Unread' = Unread
    BY <1>2 DEF Untabled, Tabled, Unread, ToSet
  <2>. QED BY <2>1, WayType
<1>5. Way(ToSet(hub), ToSet(channel), ToSet(pending), {}, Unread, Tabled, ToSet(pending),
          Len(printed))
  BY <1>1, <1>4, WayType, WayTake
<1>6. Way(ToSet(hub'), ToSet(channel'), ToSet(loop'.batch), ToSet(pending'), Unread',
          Tabled', Untabled', Len(printed'))
  BY <1>2, <1>3, <1>4, <1>5
<1>. QED BY <1>2, <1>3, <1>6, OrderNext DEF OutputKeepsOrder, OrderedOnTheWay

\* The first line of the batch enters the log table.
LEMMA OrderPush ==
  ASSUME OutputTypeOK, Bookkeeping, OutputKeepsOrder, OrderedOnTheWay, PushLine
  PROVE  OutputKeepsOrder' /\ OrderedOnTheWay'
<1> DEFINE line == Head(loop.batch)
           rest == ToSet(Tail(loop.batch))
<1>1. /\ loop.at = "push" /\ PushRecord(LineRecord(line))
      /\ loop' = [loop EXCEPT !.at = "bump"]
      /\ UNCHANGED <<printed, pipe, pending, hub, channel>>
  BY DEF PushLine, childVars, hubVars
<1>2. loop.batch \in Seq(Line) /\ loop.batch # <<>> /\ InPrintOrder(loop.batch)
  BY <1>1 DEF OutputTypeOK, Bookkeeping, Draining, OrderedOnTheWay
<1>3. /\ line \in Line /\ ToSet(loop.batch) = {line} \cup rest
      /\ Before({line}, rest)
  BY <1>2, Taken, TailInOrder
<1>4. loop'.batch = loop.batch /\ loop'.at = "bump"
  BY <1>1 DEF OutputTypeOK
<1>5. Untabled = ToSet(loop.batch) /\ Untabled' = rest /\ Unread' = Unread
  <2>1. Untabled' = ToSet(Tail(loop'.batch))
    BY <1>4 DEF Untabled, ToSet
  <2>2. Untabled = ToSet(loop.batch)
    BY <1>1 DEF Untabled
  <2>3. Unread' = Unread
    BY <1>1 DEF Unread, ToSet
  <2>. QED BY <1>4, <2>1, <2>2, <2>3
<1> HIDE DEF line, rest
<1>6. Way(ToSet(hub), ToSet(channel), ToSet(loop.batch), ToSet(pending), Unread, Tabled,
          ToSet(loop.batch), Len(printed))
  BY <1>5 DEF OrderedOnTheWay, Way
<1>7. InTableOrder(ring') /\ Tabled' \subseteq Tabled \cup {line}
  <2>1. LineRecord(line) \in Record /\ LineRecord(line) # Report /\ LineRecord(line).line = line
    BY <1>3, LinesAreNotReports
  <2>2. Before(Tabled, {LineRecord(line).line})
    BY <1>3, <1>6, <2>1 DEF Way, Before
  <2>3. ring \in Seq(Record) /\ InTableOrder(ring)
    BY DEF OutputTypeOK, OutputKeepsOrder
  <2>4. /\ InTableOrder(ring')
        /\ Tabled' \subseteq Tabled \cup {r.line : r \in {LineRecord(line)} \ {Report}}
    BY <1>1, <2>1, <2>2, <2>3, TablePush
  <2>. QED BY <2>1, <2>4
<1>8. Way(ToSet(hub), ToSet(channel), ToSet(loop.batch), ToSet(pending), Unread, Tabled', rest,
          Len(printed))
  BY <1>3, <1>6, <1>7, WayType, WayPush
<1>9. Way(ToSet(hub'), ToSet(channel'), ToSet(loop'.batch), ToSet(pending'), Unread',
          Tabled', Untabled', Len(printed'))
  BY <1>1, <1>4, <1>5, <1>8
<1>. QED BY <1>1, <1>4, <1>7, <1>9, OrderNext DEF OutputKeepsOrder, OrderedOnTheWay

\* That line leaves the batch, for the channel or for nowhere.
LEMMA OrderSend ==
  ASSUME OutputTypeOK, Bookkeeping, OutputKeepsOrder, OrderedOnTheWay, SendLine
  PROVE  OutputKeepsOrder' /\ OrderedOnTheWay'
<1> DEFINE line == Head(loop.batch)
           rest == ToSet(Tail(loop.batch))
<1>1. /\ loop.at = "bump" /\ channel' \in {channel, Append(channel, line)}
      /\ UNCHANGED <<printed, pipe, pending, hub, ring>>
  BY DEF SendLine, childVars, hubVars
<1>2. loop.batch \in Seq(Line) /\ loop.batch # <<>> /\ InPrintOrder(loop.batch)
  BY <1>1 DEF OutputTypeOK, Bookkeeping, Draining, OrderedOnTheWay
<1>3. /\ line \in Line /\ ToSet(loop.batch) = {line} \cup rest
      /\ Before({line}, rest) /\ InPrintOrder(Tail(loop.batch))
      /\ Tail(loop.batch) \in Seq(Line) /\ Len(Tail(loop.batch)) = Len(loop.batch) - 1
  BY <1>2, Taken, TailInOrder
<1>4. loop'.batch = Tail(loop.batch) /\ loop'.at # "bump"
  <2>1. CASE Len(loop.batch) = 1
    <3>1. loop' = [at |-> loop.then, batch |-> <<>>, then |-> loop.then]
      BY <2>1 DEF SendLine
    <3>2. Tail(loop.batch) = <<>>
      <4>1. Len(Tail(loop.batch)) = 0
        BY <1>3, <2>1
      <4>. QED BY <1>3, <4>1, EmptySeq
    <3>3. loop.then \in {"idle", "check", "kill", "forget"}
      BY DEF OutputTypeOK
    <3>. QED BY <3>1, <3>2, <3>3
  <2>2. CASE Len(loop.batch) # 1
    <3>1. loop' = [loop EXCEPT !.at = "push", !.batch = Tail(@)]
      BY <2>2 DEF SendLine
    <3>. QED BY <3>1 DEF OutputTypeOK
  <2>. QED BY <2>1, <2>2
<1>5. Untabled = rest /\ Untabled' = rest /\ Unread' = Unread /\ Tabled' = Tabled
  <2>1. Untabled' = ToSet(loop'.batch)
    BY <1>4 DEF Untabled, ToSet
  <2>2. Untabled = rest
    BY <1>1 DEF Untabled
  <2>3. Unread' = Unread /\ Tabled' = Tabled
    BY <1>1 DEF Unread, Tabled, ToSet
  <2>. QED BY <1>4, <2>1, <2>2, <2>3
<1>6. Way(ToSet(hub), ToSet(channel), ToSet(loop.batch), ToSet(pending), Unread, Tabled, rest,
          Len(printed))
  BY <1>5 DEF OrderedOnTheWay, Way
<1>7. InPrintOrder(channel') /\ ToSet(channel') \subseteq ToSet(channel) \cup {line}
  <2>1. channel \in Seq(Line) /\ InPrintOrder(channel)
    BY DEF OutputTypeOK, OrderedOnTheWay
  <2>2. Before(ToSet(channel), {line})
    BY <1>3, <1>6 DEF Way, Before
  <2> HIDE DEF line
  <2>3. InPrintOrder(Append(channel, line))
        /\ ToSet(Append(channel, line)) = ToSet(channel) \cup {line}
    BY <1>3, <2>1, <2>2, Appended, AppendInOrder
  <2>. QED BY <1>1, <2>1, <2>3
<1> HIDE DEF line, rest
<1>8. Way(ToSet(hub), ToSet(channel'), rest, ToSet(pending), Unread, Tabled, rest, Len(printed))
  BY <1>3, <1>6, <1>7, WayType, WaySend
<1>9. Way(ToSet(hub'), ToSet(channel'), ToSet(loop'.batch), ToSet(pending'), Unread',
          Tabled', Untabled', Len(printed'))
  BY <1>1, <1>4, <1>5, <1>8 DEF rest
<1>. QED BY <1>1, <1>3, <1>4, <1>7, <1>9, OrderNext DEF OutputKeepsOrder, OrderedOnTheWay

\* The forwarder sends, or loses, the first line of the channel.
LEMMA OrderForward ==
  ASSUME OutputTypeOK, Bookkeeping, OutputKeepsOrder, OrderedOnTheWay, ForwardLine
  PROVE  OutputKeepsOrder' /\ OrderedOnTheWay'
<1> DEFINE line == Head(channel)
<1>1. /\ channel # <<>> /\ channel' = Tail(channel) /\ hub' \in {hub, Append(hub, line)}
      /\ UNCHANGED <<printed, pipe, pending, loop, ring>>
  BY DEF ForwardLine, childVars, sinkVars
<1>2. /\ channel \in Seq(Line) /\ InPrintOrder(channel)
      /\ hub \in Seq(Line) /\ InPrintOrder(hub)
  BY DEF OutputTypeOK, OrderedOnTheWay, OutputKeepsOrder
<1>3. /\ line \in Line /\ ToSet(channel) = {line} \cup ToSet(channel')
      /\ Before({line}, ToSet(channel')) /\ InPrintOrder(channel')
  BY <1>1, <1>2, Taken, TailInOrder
<1> HIDE DEF line
<1>4. Way(ToSet(hub), ToSet(channel), ToSet(loop.batch), ToSet(pending), Unread, Tabled,
          Untabled, Len(printed))
  BY DEF OrderedOnTheWay, Way
<1>5. InPrintOrder(hub') /\ ToSet(hub') \subseteq ToSet(hub) \cup {line}
  <2>1. Before(ToSet(hub), {line})
    BY <1>3, <1>4 DEF Way, Before
  <2>2. InPrintOrder(Append(hub, line)) /\ ToSet(Append(hub, line)) = ToSet(hub) \cup {line}
    BY <1>2, <1>3, <2>1, Appended, AppendInOrder
  <2>. QED BY <1>1, <1>2, <2>2
<1>6. Untabled' = Untabled /\ Unread' = Unread /\ Tabled' = Tabled /\ Untabled \subseteq Line
  <2>1. Untabled' = Untabled /\ Unread' = Unread /\ Tabled' = Tabled
    BY <1>1 DEF Untabled, Unread, Tabled, ToSet
  <2>. QED BY <2>1, WayType
<1>7. Way(ToSet(hub'), ToSet(channel'), ToSet(loop.batch), ToSet(pending), Unread, Tabled,
          Untabled, Len(printed))
  BY <1>3, <1>4, <1>5, <1>6, WayType, WayForward
<1>8. Way(ToSet(hub'), ToSet(channel'), ToSet(loop'.batch), ToSet(pending'), Unread',
          Tabled', Untabled', Len(printed'))
  BY <1>1, <1>6, <1>7
<1>. QED BY <1>1, <1>3, <1>5, <1>8, OrderNext DEF OutputKeepsOrder, OrderedOnTheWay

\* Every action keeps the order.
LEMMA OrderStep ==
  ASSUME OutputTypeOK, Bookkeeping, OutputKeepsOrder, OrderedOnTheWay, [Next]_vars
  PROVE  OutputKeepsOrder' /\ OrderedOnTheWay'
<1>t. /\ OutputTypeOK' /\ Len(printed) \in Nat /\ Len(printed') \in Nat
      /\ ring \in Seq(Record) /\ InTableOrder(ring) /\ pipe \in [Children -> Seq(Line)]
      /\ loop \in [at : Places, batch : Seq(Line), then : {"idle", "check", "kill", "forget"}]
  BY TypeStep DEF OutputTypeOK, OutputKeepsOrder
<1>u. ring' = ring => Tabled' = Tabled
  BY DEF Tabled, ToSet
<1>i. Idle.batch = <<>> /\ Idle.at # "bump"
  BY DEF Idle
<1> USE DEF childVars, hubVars, sinkVars
<1>1. CASE PrintLine
  <2>1. /\ printed' = Append(printed, child.n)
        /\ UNCHANGED <<ring, pending, loop, channel, hub>>
    BY <1>1 DEF PrintLine
  <2>2. printed \in Seq(Children) /\ child.n \in Children
    BY DEF OutputTypeOK
  <2>3. Len(printed') = Len(printed) + 1
    BY <2>1, <2>2, Appended
  <2>4. CASE child.n \in readers
    <3>1. pipe' = [pipe EXCEPT ![child.n] = Append(@, [by |-> child.n, n |-> Len(printed')])]
      BY <1>1, <2>4 DEF PrintLine
    <3>2. [by |-> child.n, n |-> Len(printed')] \in Line
      BY <1>t, <2>2 DEF Line
    <3>. QED BY <2>1, <2>2, <2>3, <3>1, <3>2, OrderPrint
  <2>5. CASE child.n \notin readers
    <3>1. pipe' = pipe
      BY <1>1, <2>5 DEF PrintLine
    <3>. QED BY <1>t, <1>u, <2>1, <2>3, <3>1, OrderQuiet
  <2>. QED BY <2>4, <2>5
<1>2. CASE Dies \/ StartChild \/ DropClient \/ NewClient
  <2>1. /\ UNCHANGED <<ring, printed, pipe, pending, hub>> /\ channel' \in {channel, <<>>}
        /\ loop' \in {loop, Idle}
    BY <1>2 DEF Dies, StartChild, DropClient, NewClient
  <2>. QED BY <1>t, <1>u, <1>i, <2>1, OrderQuiet
<1>3. ASSUME NEW c \in Children, ReadLine(c) PROVE OutputKeepsOrder' /\ OrderedOnTheWay'
  <2>1. pipe[c] # <<>> /\ UNCHANGED <<ring, printed, loop, channel, hub>>
    BY <1>3 DEF ReadLine
  <2>2. CASE pending' = Append(pending, Head(pipe[c])) /\ pipe' = [pipe EXCEPT ![c] = Tail(@)]
    BY <2>1, <2>2, OrderRead
  <2>3. CASE pipe' = [pipe EXCEPT ![c] = <<>>] /\ pending' = pending
    <3>1. \A d \in Children : pipe'[d] \in {pipe[d], <<>>}
      BY <1>t, <2>3
    <3>. QED BY <1>t, <1>u, <2>1, <2>3, <3>1, OrderQuiet
  <2>. QED BY <1>3, <2>2, <2>3 DEF ReadLine
<1>4. CASE Scan \/ Change \/ RemoveService
  <2>1. PICK then \in {"check", "kill", "forget"} : TakePending(then)
    BY <1>4 DEF Scan, Change, RemoveService, Stopping
  <2>2. UNCHANGED <<ring, printed, pipe, channel, hub>>
    BY <1>4 DEF Scan, Change, RemoveService, Stopping
  <2>. QED BY <2>1, <2>2, OrderTake
<1>5. CASE PushLine
  BY <1>5, OrderPush
<1>6. CASE SendLine
  BY <1>6, OrderSend
<1>7. CASE FindAlive \/ BumpAfterReport \/ HardStop
  <2>1. UNCHANGED <<ring, printed, pipe, pending, channel, hub>>
    BY <1>7 DEF FindAlive, BumpAfterReport, HardStop
  <2>2. loop'.batch = <<>> /\ loop'.at # "bump"
    <3>1. CASE FindAlive
      BY <1>i, <3>1 DEF FindAlive
    <3>2. CASE BumpAfterReport
      BY <3>2 DEF BumpAfterReport, Idle
    <3>3. CASE HardStop
      BY <3>3 DEF HardStop, Idle
    <3>. QED BY <1>7, <3>1, <3>2, <3>3
  <2>. QED BY <1>t, <1>u, <2>1, <2>2, OrderQuiet
<1>8. CASE FindDead
  <2>1. /\ PushRecord(Report) /\ UNCHANGED <<printed, pipe, pending, channel, hub>>
        /\ loop'.batch = <<>> /\ loop'.at # "bump"
    BY <1>8 DEF FindDead, Idle
  <2>2. Report \in Record
    BY DEF Record
  <2>3. InTableOrder(ring') /\ Tabled' \subseteq Tabled
    BY <1>t, <2>1, <2>2, TablePush
  <2>. QED BY <1>t, <2>1, <2>3, OrderQuiet
<1>9. CASE ForwardLine
  BY <1>9, OrderForward
<1>10. CASE UserInterface /\ UNCHANGED outputVars
  <2>1. UNCHANGED <<printed, pipe, pending, loop, channel, hub>>
    BY <1>10 DEF outputVars
  <2>2. ring' \in {ring, <<>>}
    BY <1>10 DEF UserInterface, Heartbeat, ReadGeneration, TakeSnapshot, ClearLog, ClearRing,
                 BumpAfterClear, ForgetRecords, TogglePause
  <2>3. InTableOrder(ring') /\ Tabled' \subseteq Tabled
    <3>1. CASE ring' = ring
      BY <1>t, <1>u, <3>1
    <3>2. CASE ring' = <<>>
      <4>1. InTableOrder(<<>>)
        BY DEF InTableOrder
      <4>2. Tabled' = {}
        BY <3>2 DEF Tabled, ToSet
      <4>. QED BY <3>2, <4>1, <4>2
    <3>. QED BY <2>2, <3>1, <3>2
  <2>. QED BY <1>t, <2>1, <2>3, OrderQuiet
<1>11. CASE UNCHANGED vars
  <2>1. UNCHANGED <<ring, printed, pipe, pending, loop, channel, hub>>
    BY <1>11 DEF vars, outputVars
  <2>. QED BY <1>t, <1>u, <2>1, OrderQuiet
<1>. QED
  BY <1>1, <1>2, <1>3, <1>4, <1>5, <1>6, <1>7, <1>8, <1>9, <1>10, <1>11
  DEF Next, Reader, Loop, OutputIncrement, RespawnDead

\* What a child prints arrives in the order it was printed and at most once, in
\* the log table and at the hub, whatever is lost on the way and whoever's
\* reader fills the buffer.
THEOREM OrderIsKept == Spec => []OutputKeepsOrder
<1>1. Init => OutputTypeOK /\ Bookkeeping /\ OutputKeepsOrder /\ OrderedOnTheWay
  BY TypeInit, OrderInit
<1>2. /\ OutputTypeOK /\ Bookkeeping /\ OutputKeepsOrder /\ OrderedOnTheWay
      /\ [Next]_vars
      => (OutputTypeOK /\ Bookkeeping /\ OutputKeepsOrder /\ OrderedOnTheWay)'
  BY TypeStep, OrderStep
<1>. QED BY <1>1, <1>2, PTL DEF Spec

------------------------------------------------------------------------------
(* No line is dropped on its way to the log table.                         *)

\* Where a line of a child is that has not been dropped.
Somewhere(c) == logged \cup Untabled \cup ToSet(pending) \cup ToSet(pipe[c])

\* The state the next step leaves, in its own variables.
LEMMA SomewhereNext ==
  /\ Untabled' = ToSet(IF loop'.at = "bump" THEN Tail(loop'.batch) ELSE loop'.batch)
  /\ \A c : Somewhere(c)' = logged' \cup Untabled' \cup ToSet(pending') \cup ToSet(pipe'[c])
BY DEF Somewhere, Untabled, ToSet

\* A step that prints nothing, starts no reader of a child that has printed, and
\* loses sight of no line but those of a reader that ends, drops no line.
LEMMA KeptUnless ==
  ASSUME OutputTypeOK, Bookkeeping, NoLineIsDropped, printed' = printed,
         \A c \in readers' : c <= child.n => c \in readers /\ Somewhere(c) \subseteq Somewhere(c)'
  PROVE  NoLineIsDropped'
<1>1. ASSUME NEW n \in DOMAIN printed, printed[n] \in readers'
      PROVE  LineNo(n) \in Somewhere(printed[n])'
  <2>1. printed[n] \in readers /\ Somewhere(printed[n]) \subseteq Somewhere(printed[n])'
    BY <1>1 DEF Bookkeeping
  <2>2. LineNo(n) \in Somewhere(printed[n])
    BY <2>1 DEF NoLineIsDropped, Somewhere
  <2>. QED BY <2>1, <2>2
<1>2. \A n : LineNo(n)' = LineNo(n)
  BY DEF LineNo
<1>3. \A n \in DOMAIN printed' :
        \/ printed'[n] \notin readers'
        \/ LineNo(n)' \in logged' \cup Untabled' \cup ToSet(pending') \cup ToSet(pipe'[printed'[n]])
  BY <1>1, <1>2, SomewhereNext
<1>4. NoLineIsDropped' <=>
        \A n \in DOMAIN printed' :
          \/ printed'[n] \notin readers'
          \/ LineNo(n)' \in logged' \cup Untabled' \cup ToSet(pending') \cup ToSet(pipe'[printed'[n]])
  BY DEF NoLineIsDropped, LineNo, Untabled, ToSet
<1>. QED BY <1>3, <1>4

LEMMA DroppedInit == Init => NoLineIsDropped
<1>1. DOMAIN <<>> = {}
  OBVIOUS
<1>. QED BY <1>1 DEF Init, NoLineIsDropped

\* A line is printed: it is in the pipe, or nobody reads it.
LEMMA DroppedPrint ==
  ASSUME OutputTypeOK, Bookkeeping, NoLineIsDropped, PrintLine
  PROVE  NoLineIsDropped'
<1> USE DEF childVars, hubVars, sinkVars
<1>1. /\ printed' = Append(printed, child.n) /\ child.n \in Children
      /\ UNCHANGED <<readers, pending, loop, logged>>
      /\ printed \in Seq(Children) /\ pipe \in [Children -> Seq(Line)]
  BY DEF PrintLine, OutputTypeOK
<1>2. /\ Len(printed') = Len(printed) + 1 /\ Len(printed) \in Nat
      /\ DOMAIN printed = 1..Len(printed) /\ DOMAIN printed' = 1..(Len(printed) + 1)
      /\ \A n \in 1..Len(printed) : printed'[n] = printed[n]
      /\ printed'[Len(printed) + 1] = child.n
  BY <1>1, Appended
<1>3. /\ \A c \in Children : ToSet(pipe[c]) \subseteq ToSet(pipe'[c])
      /\ child.n \in readers => [by |-> child.n, n |-> Len(printed) + 1] \in ToSet(pipe'[child.n])
  <2>1. CASE child.n \in readers
    <3> DEFINE line == [by |-> child.n, n |-> Len(printed) + 1]
    <3>1. pipe' = [pipe EXCEPT ![child.n] = Append(@, line)]
      BY <1>2, <2>1 DEF PrintLine
    <3>2. line \in Line
      BY <1>1, <1>2 DEF Line
    <3> HIDE DEF line
    <3>3. ToSet(Append(pipe[child.n], line)) = ToSet(pipe[child.n]) \cup {line}
      BY <1>1, <3>2, Appended
    <3>. QED BY <1>1, <3>1, <3>3 DEF line
  <2>2. CASE child.n \notin readers
    BY <2>2 DEF PrintLine
  <2>. QED BY <2>1, <2>2
<1>4. Untabled' = Untabled
  BY <1>1 DEF Untabled, ToSet
<1>5. ASSUME NEW n \in 1..(Len(printed) + 1), printed'[n] \in readers
      PROVE  [by |-> printed'[n], n |-> n]
               \in logged \cup Untabled \cup ToSet(pending) \cup ToSet(pipe'[printed'[n]])
  <2>1. CASE n = Len(printed) + 1
    BY <1>2, <1>3, <1>5, <2>1
  <2>2. CASE n # Len(printed) + 1
    <3>1. n \in 1..Len(printed) /\ printed'[n] = printed[n]
      BY <1>2, <2>2
    <3>2. LineNo(n) \in logged \cup Untabled \cup ToSet(pending) \cup ToSet(pipe[printed[n]])
      BY <1>2, <1>5, <3>1 DEF NoLineIsDropped
    <3>3. printed[n] \in Children
      BY <1>1, <3>1, ElementOfSeq
    <3>. QED BY <1>3, <3>1, <3>2, <3>3 DEF LineNo
  <2>. QED BY <2>1, <2>2
<1>6. NoLineIsDropped' <=>
        \A n \in DOMAIN printed' :
          \/ printed'[n] \notin readers'
          \/ [by |-> printed'[n], n |-> n]
               \in logged' \cup Untabled' \cup ToSet(pending)' \cup ToSet(pipe'[printed'[n]])
  BY DEF NoLineIsDropped, LineNo, Untabled, ToSet
<1>7. ToSet(pending)' = ToSet(pending)
  BY <1>1 DEF ToSet
<1>. QED BY <1>1, <1>2, <1>4, <1>5, <1>6, <1>7

\* A reader moves a line into the buffer, or ends.
LEMMA DroppedRead ==
  ASSUME OutputTypeOK, Bookkeeping, NoLineIsDropped, NEW c \in Children, ReadLine(c)
  PROVE  NoLineIsDropped'
<1>1. /\ pipe[c] # <<>> /\ UNCHANGED <<printed, loop, logged>>
      /\ pipe \in [Children -> Seq(Line)] /\ pending \in Seq(Line) /\ readers \subseteq Children
  BY DEF ReadLine, OutputTypeOK, childVars, hubVars, sinkVars
<1>2. Untabled' = Untabled
  BY <1>1 DEF Untabled, ToSet
<1>3. CASE /\ pending' = Append(pending, Head(pipe[c]))
           /\ pipe' = [pipe EXCEPT ![c] = Tail(@)] /\ readers' = readers
  <2>1. Head(pipe[c]) \in Line /\ ToSet(pipe[c]) = {Head(pipe[c])} \cup ToSet(Tail(pipe[c]))
    BY <1>1, Taken
  <2>2. ToSet(pending') = ToSet(pending) \cup {Head(pipe[c])}
    BY <1>1, <1>3, <2>1, Appended
  <2>3. \A d \in Children : ToSet(pipe[d]) \subseteq {Head(pipe[c])} \cup ToSet(pipe'[d])
    BY <1>1, <1>3, <2>1
  <2>4. \A d \in Children : Somewhere(d) \subseteq Somewhere(d)'
    BY <1>1, <1>2, <2>2, <2>3, SomewhereNext DEF Somewhere
  <2>. QED BY <1>1, <1>3, <2>4, KeptUnless
<1>4. CASE /\ readers' = readers \ {c} /\ pipe' = [pipe EXCEPT ![c] = <<>>]
           /\ pending' = pending
  <2>1. \A d \in Children \ {c} : pipe'[d] = pipe[d]
    BY <1>1, <1>4
  <2>2. \A d \in Children \ {c} : Somewhere(d) \subseteq Somewhere(d)'
    BY <1>1, <1>2, <1>4, <2>1, SomewhereNext DEF Somewhere
  <2>. QED BY <1>1, <1>4, <2>2, KeptUnless
<1>. QED BY <1>3, <1>4 DEF ReadLine

\* A step that only moves the loop leaves its lines where they are, or takes
\* what it lets go of from another stretch to the next.
LEMMA DroppedMove ==
  ASSUME OutputTypeOK, Bookkeeping, NoLineIsDropped,
         UNCHANGED <<printed, pipe>>, \A c \in readers' : c <= child.n => c \in readers,
         logged \cup Untabled \cup ToSet(pending)
           \subseteq logged' \cup Untabled' \cup ToSet(pending')
  PROVE  NoLineIsDropped'
<1>1. \A c : Somewhere(c) \subseteq Somewhere(c)'
  BY SomewhereNext DEF Somewhere
<1>. QED BY <1>1, KeptUnless

\* Every step keeps every line that is not the reader's own loss.
LEMMA DroppedStep ==
  ASSUME OutputTypeOK, Bookkeeping, NoLineIsDropped, [Next]_vars
  PROVE  NoLineIsDropped'
<1> USE DEF childVars, hubVars, sinkVars
<1>0. /\ loop.batch \in Seq(Line) /\ pending \in Seq(Line) /\ child.n \in Nat
      /\ loop.then # "bump"
  BY DEF OutputTypeOK, Children
<1>i. ~Draining => Untabled = {}
  <2>1. ~Draining => loop.at # "bump" /\ loop.batch = <<>>
    BY DEF Bookkeeping, Draining
  <2>. QED BY <2>1, Emptied DEF Untabled
<1>u. loop' = loop => Untabled' = Untabled
  BY DEF Untabled, ToSet
<1>1. CASE PrintLine
  BY <1>1, DroppedPrint
<1>2. CASE \E c \in Children : ReadLine(c)
  BY <1>2, DroppedRead
<1>3. CASE Dies \/ DropClient \/ NewClient
  <2>1. UNCHANGED <<printed, pipe, readers, pending, loop, logged>>
    BY <1>3 DEF Dies, DropClient, NewClient
  <2>. QED BY <1>u, <2>1, DroppedMove
<1>4. CASE Scan \/ Change \/ RemoveService
  <2>1. PICK then \in {"check", "kill", "forget"} : TakePending(then)
    BY <1>4 DEF Scan, Change, RemoveService, Stopping
  <2>2. UNCHANGED <<printed, pipe, readers, logged>> /\ ~Draining
    BY <1>4 DEF Scan, Change, RemoveService, Stopping, Draining
  <2>3. loop'.batch = pending /\ loop'.at # "bump"
    BY <2>1 DEF TakePending
  <2>4. Untabled' = ToSet(pending)
    BY <2>3, SomewhereNext
  <2>. QED BY <1>i, <2>2, <2>4, DroppedMove
<1>5. CASE PushLine
  <2>1. /\ loop.at = "push" /\ loop' = [loop EXCEPT !.at = "bump"]
        /\ logged' = logged \cup {Head(loop.batch)}
        /\ UNCHANGED <<printed, pipe, readers, pending>>
    BY <1>5 DEF PushLine
  <2>2. loop.batch # <<>> /\ ToSet(loop.batch) = {Head(loop.batch)} \cup ToSet(Tail(loop.batch))
    BY <1>0, <2>1, Taken DEF Bookkeeping, Draining
  <2>3. loop'.at = "bump" /\ loop'.batch = loop.batch
    BY <2>1 DEF OutputTypeOK
  <2>4. Untabled = ToSet(loop.batch) /\ Untabled' = ToSet(Tail(loop.batch))
    BY <2>1, <2>3, SomewhereNext DEF Untabled
  <2>. QED BY <2>1, <2>2, <2>4, DroppedMove
<1>6. CASE SendLine
  <2>1. loop.at = "bump" /\ UNCHANGED <<printed, pipe, readers, pending, logged>>
    BY <1>6 DEF SendLine
  <2>2. /\ loop.batch # <<>> /\ Tail(loop.batch) \in Seq(Line)
        /\ Len(Tail(loop.batch)) = Len(loop.batch) - 1
    BY <1>0, <2>1, Taken DEF Bookkeeping, Draining
  <2>3. loop'.at # "bump" /\ loop'.batch = Tail(loop.batch)
    <3>1. CASE Len(loop.batch) = 1
      <4>1. Len(Tail(loop.batch)) = 0
        BY <2>2, <3>1
      <4>2. Tail(loop.batch) = <<>>
        BY <2>2, <4>1, EmptySeq
      <4>. QED BY <1>0, <1>6, <3>1, <4>2 DEF SendLine
    <3>2. CASE Len(loop.batch) # 1
      BY <1>6, <3>2 DEF SendLine, OutputTypeOK
    <3>. QED BY <3>1, <3>2
  <2>4. Untabled' = Untabled
    BY <2>1, <2>3, SomewhereNext DEF Untabled
  <2>. QED BY <2>1, <2>4, DroppedMove
<1>7. CASE FindAlive \/ FindDead \/ BumpAfterReport \/ HardStop
  <2>1. UNCHANGED <<printed, pipe, readers, pending, logged>> /\ ~Draining
    BY <1>7 DEF FindAlive, FindDead, BumpAfterReport, HardStop, Draining
  <2>. QED BY <1>i, <2>1, DroppedMove
<1>8. CASE StartChild
  <2>1. /\ UNCHANGED <<printed, pipe, pending, logged>> /\ ~Draining
        /\ readers' = readers \cup {child.n + 1}
    BY <1>8 DEF StartChild, Draining
  <2>2. \A c \in readers' : c <= child.n => c \in readers
    BY <1>0, <2>1
  <2>. QED BY <1>i, <2>1, <2>2, DroppedMove
<1>9. CASE ForwardLine \/ (UserInterface /\ UNCHANGED outputVars) \/ UNCHANGED vars
  <2>1. UNCHANGED <<printed, pipe, readers, pending, loop, logged>>
    BY <1>9 DEF ForwardLine, outputVars, vars
  <2>. QED BY <1>u, <2>1, DroppedMove
<1>. QED
  BY <1>1, <1>2, <1>3, <1>4, <1>5, <1>6, <1>7, <1>8, <1>9
  DEF Next, Reader, Loop, OutputIncrement, RespawnDead

\* A line is in the log table's past, or on its way there, as long as somebody
\* reads its child's pipe: neither a death, a stop or a respawn, nor a change of
\* the service or the end of its client drops one (respawn_dead takes the output
\* before it looks at the child, start keeps the buffer).
THEOREM NoLineDropped == Spec => []NoLineIsDropped
<1>1. Init => OutputTypeOK /\ Bookkeeping /\ NoLineIsDropped
  BY TypeInit, DroppedInit
<1>2. OutputTypeOK /\ Bookkeeping /\ NoLineIsDropped /\ [Next]_vars
      => (OutputTypeOK /\ Bookkeeping /\ NoLineIsDropped)'
  BY TypeStep, DroppedStep
<1>. QED BY <1>1, <1>2, PTL DEF Spec

------------------------------------------------------------------------------
(* A copy that is behind is marked.                                        *)

\* Before the first clear the UI thread is in no clear_log.
CopyInvariant ==
  /\ clears \in Nat /\ moved \in BOOLEAN
  /\ table \in [records : Seq(Record), paused : BOOLEAN]
  /\ clears = 0 => ui \in {"idle", "snapshot"}
  /\ StaleCopyIsMarked

\* A step of another thread than the user interface's either leaves the ring
\* alone, or leaves the loop about to move the generation, or moves it.
LEMMA CopyElsewhere ==
  ASSUME CopyInvariant, UNCHANGED <<table, ui, clears>>, moved' \in {moved, TRUE},
         \/ moved' = TRUE
         \/ loop'.at \in {"bump", "reported"}
         \/ UNCHANGED <<ring, moved>> /\ loop.at \notin {"bump", "reported"}
         \/ UNCHANGED <<ring, moved>> /\ loop' = loop
  PROVE  CopyInvariant'
<1>1. moved' \in BOOLEAN
  BY DEF CopyInvariant
<1>. QED BY <1>1 DEF CopyInvariant, StaleCopyIsMarked

LEMMA CopyStep == ASSUME CopyInvariant, OutputTypeOK, [Next]_vars PROVE CopyInvariant'
<1> USE DEF childVars, hubVars, sinkVars
<1>0. loop.then \notin {"bump", "reported"}
  BY DEF OutputTypeOK
<1>1. CASE PrintLine \/ Dies \/ Reader \/ DropClient \/ NewClient \/ ForwardLine
  <2>1. UNCHANGED <<sinkVars, loop>>
    BY <1>1 DEF PrintLine, Dies, Reader, ReadLine, DropClient, NewClient, ForwardLine
  <2>. QED BY <2>1, CopyElsewhere
<1>2. CASE Scan \/ Change \/ RemoveService \/ FindAlive \/ StartChild \/ HardStop
  <2>1. UNCHANGED sinkVars /\ loop.at \notin {"bump", "reported"}
    BY <1>2 DEF Scan, Change, RemoveService, Stopping, FindAlive, StartChild, HardStop
  <2>. QED BY <2>1, CopyElsewhere
<1>3. CASE PushLine \/ FindDead
  <2>1. UNCHANGED <<moved, table, ui, clears>>
    BY <1>3 DEF PushLine, FindDead
  <2>2. loop'.at \in {"bump", "reported"}
    <3>1. CASE PushLine
      BY <3>1 DEF PushLine, OutputTypeOK
    <3>2. CASE FindDead
      BY <3>2 DEF FindDead, Idle
    <3>. QED BY <1>3, <3>1, <3>2
  <2>. QED BY <2>1, <2>2, CopyElsewhere
<1>4. CASE SendLine \/ BumpAfterReport
  <2>1. UNCHANGED <<table, ui, clears>> /\ moved' = TRUE
    BY <1>4 DEF SendLine, BumpAfterReport, Bump
  <2>. QED BY <2>1, CopyElsewhere
<1>5. CASE UserInterface /\ UNCHANGED outputVars
  <2>1. loop' = loop
    BY <1>5 DEF outputVars
  <2>2. CASE ReadGeneration
    BY <2>1, <2>2 DEF ReadGeneration, CopyInvariant, StaleCopyIsMarked
  <2>3. CASE TakeSnapshot
    <3>1. /\ table'.records = ring'
          /\ table' \in [records : Seq(Record), paused : BOOLEAN]
      BY <2>3 DEF TakeSnapshot, CopyInvariant, OutputTypeOK
    <3>. QED BY <2>1, <2>3, <3>1 DEF TakeSnapshot, CopyInvariant, StaleCopyIsMarked
  <2>4. CASE TogglePause
    <3>1. /\ table' \in [records : Seq(Record), paused : BOOLEAN]
          /\ table'.records = table.records
      BY <2>4 DEF TogglePause, CopyInvariant
    <3>2. moved' \in BOOLEAN /\ (~moved' => ~moved)
      <4>1. moved' = (moved \/ table.paused)
        BY <2>4 DEF TogglePause
      <4>. QED BY <4>1 DEF CopyInvariant
    <3>3. UNCHANGED <<ring, ui, clears>>
      BY <2>4 DEF TogglePause
    <3>. QED BY <2>1, <3>1, <3>2, <3>3 DEF CopyInvariant, StaleCopyIsMarked
  <2>5. CASE ClearRing
    <3>1. clears' \in Nat /\ clears' # 0 /\ UNCHANGED <<moved, table>>
      BY <2>5 DEF ClearRing, CopyInvariant
    <3>. QED BY <3>1 DEF CopyInvariant, StaleCopyIsMarked
  <2>6. CASE BumpAfterClear \/ ForgetRecords
    <3>1. clears' = clears /\ clears # 0 /\ moved' \in BOOLEAN
      BY <2>6 DEF BumpAfterClear, ForgetRecords, Bump, CopyInvariant
    <3>2. table' \in [records : Seq(Record), paused : BOOLEAN]
      <4>1. <<>> \in Seq(Record)
        OBVIOUS
      <4>. QED BY <2>6, <4>1 DEF BumpAfterClear, ForgetRecords, CopyInvariant
    <3>. QED BY <3>1, <3>2 DEF CopyInvariant, StaleCopyIsMarked
  <2>. QED
    BY <1>5, <2>2, <2>3, <2>4, <2>5, <2>6 DEF UserInterface, Heartbeat, ClearLog
<1>6. CASE UNCHANGED vars
  <2>1. UNCHANGED <<sinkVars, loop>>
    BY <1>6 DEF vars, outputVars
  <2>. QED BY <2>1, CopyElsewhere
<1>. QED
  BY <1>1, <1>2, <1>3, <1>4, <1>5, <1>6 DEF Next, Loop, OutputIncrement, RespawnDead

\* A copy the GUI believes to be new shows the ring, from the moment the writer
\* of a record is through until the user first clears the table (the heartbeat
\* reads the generation first, push_record moves it last).
THEOREM StaleIsMarked == Spec => []StaleCopyIsMarked
<1>1. Init => CopyInvariant
  <2>1. <<>> \in Seq(Record)
    OBVIOUS
  <2>. QED BY <2>1 DEF Init, SinkInit, CopyInvariant, StaleCopyIsMarked
<1>2. OutputTypeOK /\ CopyInvariant /\ [Next]_vars => CopyInvariant'
  BY CopyStep
<1>3. CopyInvariant => StaleCopyIsMarked
  BY DEF CopyInvariant
<1>4. Spec => []OutputTypeOK
  BY TypeCorrect, PTL
<1>. QED BY <1>1, <1>2, <1>3, <1>4, PTL DEF Spec
==============================================================================
