-------------------------- MODULE AnnotationProofs --------------------------
(***************************************************************************)
(* Proofs about Annotation, for every set of servers and every length of   *)
(* a test: the time line of faults that a visualization shows is the one   *)
(* that the test has reported, and the file with the clients' operations   *)
(* is kept until a goroutine that ends the process cleans up.              *)
(***************************************************************************)
EXTENDS Annotation, FiniteSetTheorems, TLAPS

-----------------------------------------------------------------------------
(* The inductive invariant *)

Desp    == [blocks: SUBSET SUBSET Servers, crashed: SUBSET Servers]
Reports == [connected: SUBSET Servers, crashed: SUBSET Servers, sides: SUBSET SUBSET Servers]
Labels  == {"over", "run", "history", "ended", "write", "clear", "fatal", "exiting", "exit"}

\* What is known of the variables at any time.
Typed ==
    /\ clock \in Nat \ {0}
    /\ pc \in [Threads -> Labels]
    /\ continuous = [tag \in Tags |-> continuous[tag]]
    /\ test \in Reports
    /\ told \in Seq(Desp) /\ Len(told) = clock - 1

\* A test is running and no goroutine is about to end the process.
Active == pc["test"] # "over" /\ pc["exiter"] \notin {"exiting", "exit"}

\* finfo is what the test has reported, and a test that partitions the servers has
\* reported nothing else.
Informed ==
    /\ connected = test.connected /\ crashed = test.crashed
    /\ test.sides # {} => connected = Servers /\ crashed = {}

Fault == continuous[Partition]

\* The on-going annotation of faults is there when a fault is present, and describes it.
Present ==
    \/ FaultOf(test) = Blank /\ Fault = Zero
    \/ /\ FaultOf(test) # Blank
       /\ Fault.start \in 1..(clock - 1)
       /\ Fault.desp = FaultOf(test)

\* The ended annotations that describe a fault of the moment t.
Past(t) == {a \in annotations :
               a.tag = Partition /\ a.start <= t /\ t < a.end /\ a.desp # Blank}

Ended == \A a \in annotations : a.tag = Partition => a.end \in Nat /\ a.end <= clock

\* The fault of the moment t is kept by one ended annotation.
Kept(t) ==
    \/ told[t] = Blank /\ Past(t) = {}
    \/ told[t] # Blank /\ \E a \in annotations : Past(t) = {a} /\ a.desp = told[t]

\* Since the on-going annotation began its fault is present, and no ended annotation
\* covers that time; the time before is covered by ended ones.
Tiled ==
    \A t \in 1..(clock - 1) :
        IF Fault # Zero /\ Fault.start <= t THEN told[t] = Fault.desp /\ Past(t) = {}
                                            ELSE Kept(t)

TimelineInv == Typed /\ (Active => Informed /\ Present /\ Ended /\ Tiled)

\* While the history is being written, and once it is written, the annotations are
\* final, so that the test's own cleanup writes nothing.
HistoryInv ==
    /\ pc \in [Threads -> Labels]
    /\ pc["exiter"] \notin {"exiting", "exit"} =>
          /\ pc["test"] = "history" => finalized
          /\ file = "history" => pc["test"] = "over" \/ (finalized /\ pc["test"] # "write")

-----------------------------------------------------------------------------
(* Descriptions *)

\* Some server is in some partition or crashed, so the text of a fault is never empty.
LEMMA FaultTextType ==
    ASSUME NEW conn \in SUBSET Servers, NEW crash \in SUBSET Servers
    PROVE  FaultText(conn, crash) \in Desp /\ FaultText(conn, crash) # Blank
<1> DEFINE blocks == {{i} : i \in (Servers \ conn) \ crash} \cup ({conn \ crash} \ {{}})
<1>1. blocks \in SUBSET SUBSET Servers
  OBVIOUS
<1>2. crash = {} => blocks # {}
  <2>1. PICK i \in Servers : TRUE
    BY ServersAssumption
  <2>2. i \notin conn /\ crash = {} => {i} \in blocks
    OBVIOUS
  <2>3. i \in conn /\ crash = {} => conn \ crash \in blocks
    OBVIOUS
  <2> QED
    BY <2>1, <2>2, <2>3
<1>3. FaultText(conn, crash) = [blocks |-> blocks, crashed |-> crash]
  BY DEF FaultText
<1> HIDE DEF blocks
<1>4. FaultText(conn, crash) \in Desp
  BY <1>1, <1>3 DEF Desp
<1>5. FaultText(conn, crash) # Blank
  <2>1. FaultText(conn, crash).blocks = blocks /\ FaultText(conn, crash).crashed = crash
    BY <1>3
  <2>2. Blank.blocks = {} /\ Blank.crashed = {}
    BY DEF Blank
  <2> QED
    BY <1>2, <2>1, <2>2
<1> QED
  BY <1>4, <1>5

LEMMA FaultType ==
    ASSUME NEW t \in Reports
    PROVE  FaultOf(t) \in Desp
<1>1. FaultText(t.connected, t.crashed) \in Desp
  BY FaultTextType DEF Reports
<1>2. Blank \in Desp
  BY DEF Blank, Desp
<1>3. [blocks |-> t.sides, crashed |-> {}] \in Desp
  BY DEF Desp, Reports
<1> QED
  BY <1>1, <1>2, <1>3 DEF FaultOf

-----------------------------------------------------------------------------
(* How a step changes the time line *)

\* Every step reads the clock and writes down the fault of that moment.
Told ==
    /\ clock' = clock + 1
    /\ told'[clock] = FaultOf(test)'
    /\ \A t \in 1..(clock - 1) : told'[t] = told[t]

\* The annotations of faults stay as they are, and so does the fault.
Untouched ==
    /\ Fault' = Fault
    /\ \A a \in annotations \cup annotations' :
          a.tag = Partition => (a \in annotations' <=> a \in annotations)
    /\ FaultOf(test)' = FaultOf(test)

\* A new fault is annotated.
Begun == annotateContinuousColor(Partition, FaultOf(test)') /\ FaultOf(test)' # Blank

\* The last fault is over.
Over == annotateContinuousEnd(Partition) /\ FaultOf(test)' = Blank

Line == Present /\ Ended /\ Tiled

LEMMA ReportTold ==
    ASSUME Typed, Tick, NEW t \in Reports, Report(t)
    PROVE  Told /\ told' \in Seq(Desp) /\ Len(told') = clock' - 1 /\ test' = t
<1>1. FaultOf(t) \in Desp
  BY FaultType
<1>2. clock' = clock + 1 /\ told' = Append(told, FaultOf(t)) /\ test' = t
  BY DEF Tick, Report
<1>3. clock \in Nat \ {0} /\ told \in Seq(Desp) /\ Len(told) = clock - 1
  BY DEF Typed
<1>4. /\ told' \in Seq(Desp) /\ Len(told') = clock
      /\ told'[clock] = FaultOf(t)
      /\ \A u \in 1..(clock - 1) : told'[u] = told[u]
  BY <1>1, <1>2, <1>3
<1>5. clock' - 1 = clock
  BY <1>2, <1>3
<1>6. FaultOf(test)' = FaultOf(t)
  BY <1>2
<1> QED
  BY <1>2, <1>4, <1>5, <1>6 DEF Told

LEMMA UntouchedLine ==
    ASSUME Typed, Line, Told, Untouched
    PROVE  Line'
<1>1. /\ clock \in Nat \ {0} /\ clock' = clock + 1 /\ clock' - 1 = clock
      /\ 1..(clock - 1) \subseteq 1..clock
  BY DEF Typed, Told
<1>2. Present'
  BY <1>1 DEF Line, Untouched, Present
<1>3. Ended'
  BY <1>1 DEF Line, Untouched, Ended
<1>4. \A t \in Nat : Past(t)' = Past(t)
  BY DEF Untouched, Past
\* No ended annotation covers the moment of the step.
<1>5. Past(clock) = {}
  BY <1>1 DEF Line, Ended, Past
<1>6. Tiled'
  <2> SUFFICES ASSUME NEW t \in 1..clock
               PROVE  (IF Fault # Zero /\ Fault.start <= t
                       THEN told[t] = Fault.desp /\ Past(t) = {} ELSE Kept(t))'
    BY <1>1 DEF Tiled
  <2>1. t \in Nat /\ Past(t)' = Past(t) /\ Fault' = Fault
    BY <1>4 DEF Untouched
  <2>2. CASE t = clock
    <3>1. told'[t] = FaultOf(test) /\ Past(t)' = {}
      BY <1>5, <2>1, <2>2 DEF Told, Untouched
    <3>2. CASE FaultOf(test) = Blank
      BY <2>1, <3>1, <3>2 DEF Line, Present, Kept
    <3>3. CASE FaultOf(test) # Blank
      <4>1. Fault.start \in 1..(clock - 1) /\ Fault.desp = FaultOf(test)
        BY <3>3 DEF Line, Present
      <4>2. Fault # Zero /\ Fault.start <= t
        BY <1>1, <2>2, <4>1 DEF Zero
      <4> QED
        BY <2>1, <3>1, <4>1, <4>2
    <3> QED
      BY <3>2, <3>3
  <2>3. CASE t # clock
    <3>1. t \in 1..(clock - 1)
      BY <1>1, <2>3
    <3>2. told'[t] = told[t]
      BY <3>1 DEF Told
    <3>3. Kept(t) => Kept(t)'
      <4>1. \A a \in Past(t) : a \in annotations'
        BY DEF Past, Untouched
      <4> QED
        BY <2>1, <3>2, <4>1 DEF Kept
    <3> QED
      BY <2>1, <3>1, <3>2, <3>3 DEF Line, Tiled
  <2> QED
    BY <2>2, <2>3
<1> QED
  BY <1>2, <1>3, <1>6 DEF Line

\* When the on-going annotation is ended at this moment, every earlier fault is kept by
\* an ended annotation.  Where nothing is on-going, what annotateContinuousEnd adds
\* describes nothing.
LEMMA ClosedLine ==
    ASSUME Typed, Line, Told,
           NEW closed \in SUBSET {Concrete(Partition, clock)},
           Fault # Zero => closed = {Concrete(Partition, clock)},
           annotations' = annotations \cup closed
    PROVE  /\ Ended'
           /\ \A t \in 1..clock : t = clock => Past(t)' = {}
           /\ \A t \in 1..(clock - 1) : Kept(t)'
<1> DEFINE c == Concrete(Partition, clock)
<1>1. clock \in Nat \ {0} /\ clock' = clock + 1
  BY DEF Typed, Told
<1>2. c.tag = Partition /\ c.start = Fault.start /\ c.end = clock /\ c.desp = Fault.desp
  BY DEF Concrete, Interval, Fault
<1> HIDE DEF c
<1>3. Ended'
  <2>1. \A a \in annotations' : a \in annotations \/ a = c
    BY DEF c
  <2> QED
    BY <1>1, <1>2, <2>1 DEF Line, Ended
<1>4. ASSUME NEW t \in 1..clock, t = clock
      PROVE  Past(t)' = {}
  <2>1. \A a \in annotations' : a \in annotations \/ a = c
    BY DEF c
  <2>2. \A a \in annotations' : a.tag = Partition => ~(clock < a.end)
    BY <1>1, <1>2, <2>1 DEF Line, Ended
  <2> QED
    BY <1>4, <2>2 DEF Past
<1>5. ASSUME NEW t \in 1..(clock - 1)
      PROVE  Kept(t)'
  <2>1. told'[t] = told[t] /\ t \in Nat /\ t < clock
    BY <1>1, <1>5 DEF Told
  <2>2. CASE Fault # Zero /\ Fault.start <= t
    <3>1. told[t] = Fault.desp /\ Past(t) = {}
      BY <1>5, <2>2 DEF Line, Tiled
    <3>2. Fault.start \in 1..(clock - 1) /\ Fault.desp # Blank
      BY <2>2 DEF Line, Present
    <3>3. annotations' = annotations \cup {c}
      BY <2>2 DEF c
    <3>4. c.start <= t /\ c.desp # Blank
      BY <1>2, <2>2, <3>2
    <3>5. Past(t)' = {c}
      BY <1>2, <2>1, <3>1, <3>3, <3>4 DEF Past
    <3> QED
      BY <1>2, <2>1, <3>1, <3>2, <3>3, <3>5 DEF Kept
  <2>3. CASE ~(Fault # Zero /\ Fault.start <= t)
    <3>1. Kept(t)
      BY <1>5, <2>3 DEF Line, Tiled
    <3>2. c.desp = Blank \/ ~(c.start <= t)
      BY <1>2, <2>3 DEF Zero
    <3>3. Past(t)' = Past(t) /\ annotations \subseteq annotations'
      BY <3>2 DEF Past, c
    <3> QED
      BY <2>1, <3>1, <3>3 DEF Kept
  <2> QED
    BY <2>2, <2>3
<1> QED
  BY <1>3, <1>4, <1>5

LEMMA BegunLine ==
    ASSUME Typed, Line, Told, Begun
    PROVE  Line'
<1>1. clock \in Nat \ {0} /\ clock' = clock + 1 /\ clock' - 1 = clock
  BY DEF Typed, Told
<1> DEFINE closed == {Concrete(t, clock) : t \in {Partition} \cap OnGoing}
<1>2. /\ closed \in SUBSET {Concrete(Partition, clock)}
      /\ Fault # Zero => closed = {Concrete(Partition, clock)}
      /\ annotations' = annotations \cup closed
  BY DEF Begun, annotateContinuousColor, OnGoing, Tags, Fault
<1>3. /\ Ended'
      /\ \A t \in 1..clock : t = clock => Past(t)' = {}
      /\ \A t \in 1..(clock - 1) : Kept(t)'
  BY <1>2, ClosedLine
<1>4. Fault' = [start |-> clock, desp |-> FaultOf(test)']
  BY DEF Begun, annotateContinuousColor, Fault, Typed, Tags
<1>5. Fault'.start = clock /\ Fault'.desp = FaultOf(test)' /\ FaultOf(test)' # Blank
  BY <1>4 DEF Begun
<1>6. Present'
  BY <1>1, <1>5 DEF Present
<1>7. Tiled'
  <2> SUFFICES ASSUME NEW t \in 1..clock
               PROVE  (IF Fault # Zero /\ Fault.start <= t
                       THEN told[t] = Fault.desp /\ Past(t) = {} ELSE Kept(t))'
    BY <1>1 DEF Tiled
  <2>1. CASE t = clock
    <3>1. Fault' # Zero /\ Fault'.start <= t
      BY <1>1, <1>5, <2>1 DEF Zero
    <3> QED
      BY <1>3, <1>5, <2>1, <3>1 DEF Told
  <2>2. CASE t # clock
    <3>1. t \in 1..(clock - 1) /\ ~(Fault'.start <= t)
      BY <1>1, <1>5, <2>2
    <3> QED
      BY <1>3, <3>1
  <2> QED
    BY <2>1, <2>2
<1> QED
  BY <1>3, <1>6, <1>7 DEF Line

LEMMA OverLine ==
    ASSUME Typed, Line, Told, Over
    PROVE  Line'
<1>1. clock \in Nat \ {0} /\ clock' = clock + 1 /\ clock' - 1 = clock
  BY DEF Typed, Told
<1>2. annotations' = annotations \cup {Concrete(Partition, clock)}
  BY DEF Over, annotateContinuousEnd
<1>3. /\ Ended'
      /\ \A t \in 1..clock : t = clock => Past(t)' = {}
      /\ \A t \in 1..(clock - 1) : Kept(t)'
  BY <1>2, ClosedLine
<1>4. Fault' = Zero /\ FaultOf(test)' = Blank
  BY DEF Over, annotateContinuousEnd, Fault, Typed, Tags
<1>5. Present'
  BY <1>4 DEF Present
<1>6. Tiled'
  <2> SUFFICES ASSUME NEW t \in 1..clock
               PROVE  Kept(t)'
    BY <1>1, <1>4 DEF Tiled
  <2>1. CASE t = clock
    BY <1>3, <1>4, <2>1 DEF Told, Kept
  <2>2. CASE t # clock
    <3>1. t \in 1..(clock - 1)
      BY <1>1, <2>2
    <3> QED
      BY <1>3, <3>1
  <2> QED
    BY <2>1, <2>2
<1> QED
  BY <1>3, <1>5, <1>6 DEF Line

-----------------------------------------------------------------------------
(* The steps *)

LEMMA TimelineInit == Init => TimelineInv
<1> SUFFICES ASSUME Init
             PROVE  TimelineInv
  OBVIOUS
<1>1. pc \in [Threads -> Labels] /\ pc["test"] = "over"
  BY DEF Init, Threads, Labels
<1>2. told \in Seq(Desp) /\ Len(told) = clock - 1 /\ clock = 1
  <2>1. told = <<>> /\ clock = 1
    BY DEF Init
  <2> QED
    BY <2>1
<1>3. test \in Reports
  BY DEF Init, NoFaults, Reports
<1>4. continuous = [tag \in Tags |-> continuous[tag]]
  BY DEF Init
<1> QED
  BY <1>1, <1>2, <1>3, <1>4 DEF TimelineInv, Typed, Active

\* A step that writes down the fault and keeps finfo in agreement with the test keeps
\* the time line.
LEMMA Advance ==
    ASSUME TimelineInv, Typed', Told,
           Active' => Active /\ Informed' /\ (Untouched \/ Begun \/ Over)
    PROVE  TimelineInv'
<1>1. CASE ~Active'
  BY <1>1 DEF TimelineInv
<1>2. CASE Active'
  <2>1. Typed /\ Line
    BY <1>2 DEF TimelineInv, Line
  <2>2. Line'
    BY <1>2, <2>1, UntouchedLine, BegunLine, OverLine
  <2> QED
    BY <1>2, <2>2 DEF TimelineInv, Line
<1> QED
  BY <1>1, <1>2

\* The text of annotateFault is the fault that the test reports.
LEMMA FaultStep ==
    ASSUME NEW t \in Reports, t.sides = {}, test' = t, annotateFault(t.connected, t.crashed)
    PROVE  Begun \/ Over
<1>1. CASE t.connected = Servers /\ t.crashed = {}
  <2>1. t = NoFaults
    BY <1>1 DEF Reports, NoFaults
  <2>2. FaultOf(t) = Blank
    BY <2>1 DEF FaultOf, NoFaults
  <2> QED
    BY <1>1, <2>2 DEF annotateFault, Over
<1>2. CASE ~(t.connected = Servers /\ t.crashed = {})
  <2>1. t # NoFaults
    BY <1>2 DEF NoFaults
  <2>2. FaultOf(t) = FaultText(t.connected, t.crashed)
    BY <2>1 DEF FaultOf
  <2>3. FaultText(t.connected, t.crashed) # Blank
    BY FaultTextType DEF Reports
  <2> QED
    BY <1>2, <2>2, <2>3 DEF annotateFault, Begun
<1> QED
  BY <1>1, <1>2

\* The map of continuous annotations keeps its domain.
MapTyped == continuous = [tag \in Tags |-> continuous[tag]]

LEMMA ColorTyped ==
    ASSUME MapTyped, NEW tag \in Tags, NEW desp,
           annotateContinuousColor(tag, desp) \/ annotateContinuousEnd(tag)
    PROVE  MapTyped'
<1>1. PICK x : continuous' = [continuous EXCEPT ![tag] = x]
  BY DEF annotateContinuousColor, annotateContinuousEnd
<1> QED
  BY <1>1 DEF MapTyped

LEMMA FaultTyped ==
    ASSUME MapTyped, NEW conn, NEW crash, annotateFault(conn, crash)
    PROVE  MapTyped'
BY ColorTyped DEF annotateFault, Tags

\* A step in which the test reports the fault t.
LEMMA FaultyStep ==
    ASSUME TimelineInv, Faulty, Tick, NEW t \in Reports, Report(t), MapTyped',
           Informed => Informed',
           Informed /\ Present => Untouched \/ Begun \/ Over
    PROVE  TimelineInv'
<1>1. Typed /\ Told /\ told' \in Seq(Desp) /\ Len(told') = clock' - 1 /\ test' = t
  BY ReportTold DEF TimelineInv
<1>2. pc' = pc
  BY DEF Faulty, files
<1>3. Typed'
  BY <1>1, <1>2 DEF Typed, Told, MapTyped
<1>4. Active' => Active
  BY <1>2 DEF Active
<1> QED
  BY <1>1, <1>3, <1>4, Advance DEF TimelineInv

LEMMA ConnectionStep ==
    ASSUME TimelineInv, NEW conn \in SUBSET Servers, AnnotateConnection(conn)
    PROVE  TimelineInv'
<1> DEFINE t == [test EXCEPT !.connected = conn]
<1>1. Faulty /\ Tick /\ Report(t) /\ connected' = conn /\ crashed' = crashed /\ test.sides = {}
  BY DEF AnnotateConnection
<1>2. /\ test \in Reports /\ t \in Reports /\ MapTyped
      /\ t.connected = conn /\ t.crashed = test.crashed /\ t.sides = {}
  BY <1>1 DEF TimelineInv, Typed, Reports, MapTyped
<1> HIDE DEF t
<1>3. test' = t
  BY <1>1 DEF Report
<1>4. MapTyped'
  BY <1>2, FaultTyped DEF AnnotateConnection, an, MapTyped
<1>5. Informed => Informed'
  BY <1>1, <1>2, <1>3 DEF Informed
<1>6. ASSUME Informed
      PROVE  Untouched \/ Begun \/ Over
  <2>1. CASE connected = conn
    <3>1. annotations' = annotations /\ continuous' = continuous
      BY <2>1 DEF AnnotateConnection, an
    <3>2. test' = test
      BY <1>2, <1>3, <1>6, <2>1 DEF Informed, Reports, t
    <3> QED
      BY <3>1, <3>2 DEF Untouched, Fault
  <2>2. CASE connected # conn
    <3>1. annotateFault(t.connected, t.crashed)
      BY <1>2, <1>6, <2>2 DEF AnnotateConnection, Informed
    <3> QED
      BY <1>2, <1>3, <3>1, FaultStep
  <2> QED
    BY <2>1, <2>2
<1> QED
  BY <1>1, <1>2, <1>4, <1>5, <1>6, FaultyStep

\* Shutdown and restart: the crashed servers become crash.
LEMMA CrashStep ==
    ASSUME TimelineInv, Faulty, Tick, test.sides = {},
           NEW crash \in SUBSET Servers,
           Report([test EXCEPT !.crashed = crash]),
           connected' = connected, Informed => crashed' = crash,
           Informed => \/ crash = crashed /\ UNCHANGED an
                       \/ annotateFault(connected, crash),
           MapTyped'
    PROVE  TimelineInv'
<1> DEFINE t == [test EXCEPT !.crashed = crash]
<1>2. /\ test \in Reports /\ t \in Reports
      /\ t.connected = test.connected /\ t.crashed = crash /\ t.sides = {}
  BY DEF TimelineInv, Typed, Reports
<1>1. Report(t)
  OBVIOUS
<1> HIDE DEF t
<1>3. test' = t
  BY <1>1 DEF Report
<1>5. Informed => Informed'
  BY <1>1, <1>2, <1>3 DEF Informed
<1>6. ASSUME Informed
      PROVE  Untouched \/ Begun \/ Over
  <2>1. CASE crash = crashed /\ UNCHANGED an
    <3>1. annotations' = annotations /\ continuous' = continuous
      BY <2>1 DEF an
    <3>2. test' = test
      BY <1>2, <1>3, <1>6, <2>1 DEF Informed, Reports, t
    <3> QED
      BY <3>1, <3>2 DEF Untouched, Fault
  <2>2. CASE annotateFault(connected, crash)
    <3>1. annotateFault(t.connected, t.crashed)
      BY <1>2, <1>6, <2>2 DEF Informed
    <3> QED
      BY <1>2, <1>3, <3>1, FaultStep
  <2> QED
    BY <1>6, <2>1, <2>2
<1> QED
  BY <1>1, <1>2, <1>5, <1>6, FaultyStep

LEMMA ShutdownStep ==
    ASSUME TimelineInv, NEW srvs \in SUBSET Servers, AnnotateShutdown(srvs)
    PROVE  TimelineInv'
<1> DEFINE crash == test.crashed \cup srvs
<1>1. /\ Faulty /\ Tick /\ test.sides = {} /\ Report([test EXCEPT !.crashed = crash])
      /\ connected' = connected /\ crashed' = crashed \cup srvs
  BY DEF AnnotateShutdown
<1>2. crash \in SUBSET Servers /\ MapTyped
  BY DEF TimelineInv, Typed, Reports, MapTyped
<1>3. MapTyped'
  BY <1>2, FaultTyped DEF AnnotateShutdown, an, MapTyped
<1>4. Informed => \/ crash = crashed /\ UNCHANGED an
                  \/ annotateFault(connected, crash)
  <2>1. CASE srvs \subseteq crashed
    BY <2>1 DEF AnnotateShutdown, Informed
  <2>2. CASE ~(srvs \subseteq crashed)
    BY <2>2 DEF AnnotateShutdown, Informed
  <2> QED
    BY <2>1, <2>2
<1>5. Informed => crashed' = crash
  BY <1>1 DEF Informed
<1> QED
  BY <1>1, <1>2, <1>3, <1>4, <1>5, CrashStep

LEMMA RestartStep ==
    ASSUME TimelineInv, NEW srvs \in SUBSET Servers, AnnotateRestart(srvs)
    PROVE  TimelineInv'
<1> DEFINE crash == test.crashed \ srvs
<1>1. /\ Faulty /\ Tick /\ test.sides = {} /\ Report([test EXCEPT !.crashed = crash])
      /\ connected' = connected /\ crashed' = crashed \ srvs
  BY DEF AnnotateRestart
<1>2. crash \in SUBSET Servers /\ MapTyped
  BY DEF TimelineInv, Typed, Reports, MapTyped
<1>3. MapTyped'
  BY <1>2, FaultTyped DEF AnnotateRestart, an, MapTyped
<1>4. Informed => \/ crash = crashed /\ UNCHANGED an
                  \/ annotateFault(connected, crash)
  <2>1. CASE srvs \cap crashed = {}
    BY <2>1 DEF AnnotateRestart, Informed
  <2>2. CASE srvs \cap crashed # {}
    BY <2>2 DEF AnnotateRestart, Informed
  <2> QED
    BY <2>1, <2>2
<1>5. Informed => crashed' = crash
  BY <1>1 DEF Informed
<1> QED
  BY <1>1, <1>2, <1>3, <1>4, <1>5, CrashStep

LEMMA PartitionsStep ==
    ASSUME TimelineInv, NEW one \in SUBSET Servers, AnnotateTwoPartitions(one)
    PROVE  TimelineInv'
<1> DEFINE both == {one, Servers \ one}
           t    == [test EXCEPT !.sides = both]
<1>1. /\ Faulty /\ Tick /\ [test EXCEPT !.sides = {}] = NoFaults /\ Report(t)
      /\ annotateContinuousColor(Partition, [blocks |-> both, crashed |-> {}])
      /\ connected' = connected /\ crashed' = crashed
  BY DEF AnnotateTwoPartitions
<1>2. /\ test \in Reports /\ t \in Reports /\ MapTyped
      /\ t.connected = test.connected /\ t.crashed = test.crashed /\ t.sides = both
      /\ both # {}
  BY DEF TimelineInv, Typed, Reports, MapTyped
<1>3. test.connected = Servers /\ test.crashed = {}
  <2>1. /\ [test EXCEPT !.sides = {}].connected = test.connected
        /\ [test EXCEPT !.sides = {}].crashed = test.crashed
    BY <1>2 DEF Reports
  <2> QED
    BY <1>1, <2>1 DEF NoFaults
<1>4. MapTyped'
  BY <1>1, <1>2, ColorTyped DEF Tags
<1> HIDE DEF t, both
<1>5. FaultOf(t) = [blocks |-> both, crashed |-> {}]
  <2>1. t # NoFaults /\ t.sides # {}
    BY <1>2 DEF NoFaults
  <2> QED
    BY <1>2, <2>1 DEF FaultOf
<1>6. FaultOf(t) # Blank
  <2>1. FaultOf(t).blocks = both
    BY <1>5
  <2> QED
    BY <1>2, <2>1 DEF Blank
<1>7. test' = t
  BY <1>1 DEF Report
<1>8. Begun
  BY <1>1, <1>5, <1>6, <1>7 DEF Begun
<1>9. Informed => Informed'
  BY <1>1, <1>2, <1>3, <1>7 DEF Informed
<1> QED
  BY <1>1, <1>2, <1>4, <1>8, <1>9, FaultyStep

LEMMA ClearFailureStep ==
    ASSUME TimelineInv, AnnotateClearFailure
    PROVE  TimelineInv'
<1>1. /\ Faulty /\ Tick /\ Report(NoFaults) /\ annotateContinuousEnd(Partition)
      /\ crashed' = {} /\ connected' = Servers /\ test' = NoFaults
  BY DEF AnnotateClearFailure, Report
<1>2. NoFaults \in Reports /\ MapTyped
  BY DEF TimelineInv, Typed, Reports, NoFaults, MapTyped
<1>3. FaultOf(NoFaults) = Blank
  BY DEF FaultOf, NoFaults
<1>4. Over
  BY <1>1, <1>3 DEF Over
<1>5. Informed'
  BY <1>1 DEF Informed, NoFaults
<1>6. MapTyped'
  BY <1>1, <1>2, ColorTyped DEF Tags
<1> QED
  BY <1>1, <1>2, <1>4, <1>5, <1>6, FaultyStep

\* The annotations of faults stay as they are.
SameFaults ==
    /\ Fault' = Fault
    /\ \A a \in annotations \cup annotations' :
          a.tag = Partition => (a \in annotations' <=> a \in annotations)

\* Annotations with the other tags leave those of faults alone.
LEMMA OtherTags ==
    ASSUME MapTyped, NEW tag \in Tags \ {Partition}, NEW start, NEW desp,
           \/ annotatePointColor(tag) \/ annotateIntervalColor(tag, start)
           \/ annotateContinuousColor(tag, desp) \/ annotateContinuousEnd(tag)
    PROVE  MapTyped' /\ SameFaults
<1>1. CASE annotatePointColor(tag) \/ annotateIntervalColor(tag, start)
  <2>1. PICK end, from : annotations' = annotations \cup {Interval(tag, from, end, Blank)}
    BY <1>1 DEF annotatePointColor, annotateIntervalColor
  <2>2. continuous' = continuous
    BY <1>1 DEF annotatePointColor, annotateIntervalColor
  <2>3. Interval(tag, from, end, Blank).tag # Partition
    BY DEF Interval
  <2> QED
    BY <2>1, <2>2, <2>3 DEF MapTyped, SameFaults, Fault
<1>2. CASE annotateContinuousColor(tag, desp) \/ annotateContinuousEnd(tag)
  <2>1. annotations \subseteq annotations'
    BY <1>2 DEF annotateContinuousColor, annotateContinuousEnd
  <2>2. \A a \in annotations' : a \in annotations \/ a = Concrete(tag, clock)
    BY <1>2 DEF annotateContinuousColor, annotateContinuousEnd
  <2>3. Concrete(tag, clock).tag # Partition
    BY DEF Concrete, Interval
  <2>4. Fault' = Fault
    BY <1>2 DEF annotateContinuousColor, annotateContinuousEnd, MapTyped, Fault, Tags
  <2> QED
    BY <1>2, <2>1, <2>2, <2>3, <2>4, ColorTyped DEF SameFaults
<1> QED
  BY <1>1, <1>2

\* A step in which the test reports nothing new.
LEMMA StillStep ==
    ASSUME TimelineInv, Tick, Report(test), connected' = connected, crashed' = crashed,
           pc' \in [Threads -> Labels], MapTyped',
           Active' => Active /\ SameFaults
    PROVE  TimelineInv'
<1>1. test \in Reports /\ Typed
  BY DEF TimelineInv, Typed
<1>2. Told /\ told' \in Seq(Desp) /\ Len(told') = clock' - 1 /\ test' = test
  BY <1>1, ReportTold
<1>3. Typed'
  BY <1>1, <1>2 DEF Typed, Told, MapTyped
<1>4. SameFaults => Untouched
  BY <1>2 DEF SameFaults, Untouched
<1>5. Informed => Informed'
  BY <1>2 DEF Informed
<1> QED
  BY <1>2, <1>3, <1>4, <1>5, Advance DEF TimelineInv

LEMMA OtherStep ==
    ASSUME TimelineInv, Other, MapTyped', SameFaults
    PROVE  TimelineInv'
<1>1. /\ Tick /\ Report(test) /\ connected' = connected /\ crashed' = crashed
      /\ pc' = pc
  BY DEF Other, Still, files
<1>2. pc' \in [Threads -> Labels] /\ (Active' => Active)
  BY <1>1 DEF TimelineInv, Typed, Active
<1> QED
  BY <1>1, <1>2, StillStep

LEMMA NoteStep ==
    ASSUME TimelineInv,
           \/ AnnotateCheckerBegin \/ AnnotateCheckerEnd
           \/ AnnotateContinuous \/ AnnotateContinuousEnd \/ Annotate
    PROVE  TimelineInv'
<1>1. MapTyped /\ User \in Tags \ {Partition} /\ Checker \in Tags \ {Partition}
  BY DEF TimelineInv, Typed, MapTyped, User, Checker, Partition, Tags
<1>2. CASE AnnotateCheckerBegin
  BY <1>1, <1>2, OtherStep DEF AnnotateCheckerBegin, an, MapTyped, SameFaults, Fault
<1>3. CASE AnnotateCheckerEnd
  BY <1>1, <1>3, OtherStep, OtherTags DEF AnnotateCheckerEnd
<1>4. CASE AnnotateContinuous
  BY <1>1, <1>4, OtherStep, OtherTags DEF AnnotateContinuous
<1>5. CASE AnnotateContinuousEnd
  BY <1>1, <1>5, OtherStep, OtherTags DEF AnnotateContinuousEnd
<1>6. CASE Annotate
  BY <1>1, <1>6, OtherStep, OtherTags DEF Annotate
<1> QED
  BY <1>2, <1>3, <1>4, <1>5, <1>6

LEMMA FailureBeforeExitStep ==
    ASSUME TimelineInv, AnnotateCheckerFailureBeforeExit
    PROVE  TimelineInv'
<1>1. MapTyped /\ Checker \in Tags \ {Partition}
  BY DEF TimelineInv, Typed, MapTyped, Checker, Partition, Tags
<1>2. MapTyped' /\ SameFaults
  BY <1>1, OtherTags DEF AnnotateCheckerFailureBeforeExit
<1>3. /\ Tick /\ Report(test) /\ connected' = connected /\ crashed' = crashed
      /\ pc["exiter"] = "run" /\ pc' = [pc EXCEPT !["exiter"] = "fatal"]
  BY DEF AnnotateCheckerFailureBeforeExit, Still, finfo
<1>4. pc' \in [Threads -> Labels] /\ (Active' => Active)
  BY <1>3 DEF TimelineInv, Typed, Active, Threads, Labels
<1> QED
  BY <1>2, <1>3, <1>4, StillStep

\* A step of a goroutine that writes a file or clears the annotations; those who
\* clear them leave no running test behind.
LEMMA QuietStep ==
    ASSUME TimelineInv, Tick, Quiet, NEW th \in Threads, NEW label \in Labels,
           pc[th] \notin {"over", "exiting", "exit"},
           At(th, label) \/ pc' = pc,
           \/ UNCHANGED <<annotations, continuous>>
           \/ Cleared /\ At(th, label) /\ label = Done(th)
    PROVE  TimelineInv'
<1>1. Report(test) /\ connected' = connected /\ crashed' = crashed
  BY DEF Quiet, finfo
<1>2. pc \in [Threads -> Labels] /\ MapTyped
  BY DEF TimelineInv, Typed, MapTyped
<1>3. pc' \in [Threads -> Labels]
  BY <1>2 DEF At
<1>4. Active' => Active
  BY <1>2 DEF Active, At, Threads
<1>5. MapTyped'
  BY <1>2 DEF Cleared, MapTyped
<1>6. CASE UNCHANGED <<annotations, continuous>>
  BY <1>1, <1>3, <1>4, <1>5, <1>6, StillStep DEF SameFaults, Fault
<1>7. CASE Cleared /\ At(th, label) /\ label = Done(th)
  <2>1. ~Active'
    BY <1>2, <1>7 DEF Active, At, Done, Threads
  <2> QED
    BY <1>1, <1>3, <1>5, <2>1, StillStep
<1> QED
  BY <1>6, <1>7

LEMMA FileStep ==
    ASSUME TimelineInv,
           SetAnnotationFinalized \/ CheckIllegal \/ CheckLegal \/ WriteHistory \/ TestEnds
    PROVE  TimelineInv'
<1>1. "test" \in Threads /\ {"ended", "history", "run"} \subseteq Labels
  BY DEF Threads, Labels
<1>2. CASE SetAnnotationFinalized
  BY <1>1, <1>2, QuietStep DEF SetAnnotationFinalized, Running
<1>3. CASE CheckIllegal
  BY <1>1, <1>3, QuietStep DEF CheckIllegal, Running
<1>4. CASE CheckLegal
  BY <1>1, <1>4, QuietStep DEF CheckLegal, Running, an
<1>5. CASE WriteHistory
  BY <1>1, <1>5, QuietStep DEF WriteHistory, an
<1>6. CASE TestEnds
  BY <1>1, <1>6, QuietStep DEF TestEnds, Running, an
<1> QED
  BY <1>2, <1>3, <1>4, <1>5, <1>6

LEMMA CleanupStep ==
    ASSUME TimelineInv, NEW th \in Threads,
           CleanupDecides(th) \/ CleanupClears(th) \/ CleanupWrites(th)
    PROVE  TimelineInv'
<1>1. {"write", "clear", Done(th)} \subseteq Labels
  BY DEF Labels, Done
<1>2. CASE CleanupDecides(th)
  BY <1>1, <1>2, QuietStep DEF CleanupDecides, an
<1>3. CASE CleanupClears(th)
  BY <1>1, <1>3, QuietStep DEF CleanupClears
<1>4. CASE CleanupWrites(th)
  BY <1>1, <1>4, QuietStep DEF CleanupWrites
<1> QED
  BY <1>2, <1>3, <1>4

LEMMA ExitStep ==
    ASSUME TimelineInv, Exit
    PROVE  TimelineInv'
<1>1. pc' = [pc EXCEPT !["exiter"] = "exit"] /\ UNCHANGED <<clock, continuous, test, told>>
  BY DEF Exit, At, an
<1>2. pc' \in [Threads -> Labels] /\ pc'["exiter"] = "exit"
  BY <1>1 DEF TimelineInv, Typed, Threads, Labels
<1> QED
  BY <1>1, <1>2 DEF TimelineInv, Typed, Active

LEMMA TestStarts ==
    ASSUME TimelineInv, AnnotateTest
    PROVE  TimelineInv'
<1>1. /\ clock \in Nat \ {0} /\ clock' = clock + 1 /\ clock' - 1 = clock
      /\ clock' \in Nat \ {0}
  BY DEF TimelineInv, Typed, AnnotateTest, Tick
<1>2. told' \in Seq(Desp) /\ Len(told') = clock /\ \A t \in 1..clock : told'[t] = Blank
  <2>1. Blank \in Desp
    BY DEF Blank, Desp
  <2>2. told' = [t \in 1..clock |-> Blank]
    BY DEF AnnotateTest
  <2> QED
    BY <1>1, <2>1, <2>2
<1>3. Typed'
  <2>1. pc' \in [Threads -> Labels]
    BY DEF TimelineInv, Typed, AnnotateTest, Labels
  <2>2. test' \in Reports
    BY DEF AnnotateTest, NoFaults, Reports
  <2>3. MapTyped'
    BY DEF AnnotateTest, MapTyped
  <2> QED
    BY <1>1, <1>2, <2>1, <2>2, <2>3 DEF Typed, MapTyped
<1>4. Informed'
  BY DEF AnnotateTest, Informed, NoFaults
<1>5. \A a \in annotations' : a.tag # Partition
  <2>1. annotations' = {Interval(Info, clock, 0, Blank)}
    BY DEF AnnotateTest
  <2>2. Interval(Info, clock, 0, Blank).tag = Info
    BY DEF Interval
  <2>3. Info # Partition
    BY DEF Info, Partition
  <2> QED
    BY <2>1, <2>2, <2>3
<1>6. Ended' /\ \A t \in 1..clock : Past(t)' = {}
  BY <1>5 DEF Ended, Past
<1>7. Fault' = Zero
  BY DEF AnnotateTest, Fault, Tags
<1>8. Present'
  <2>1. FaultOf(NoFaults) = Blank
    BY DEF FaultOf, NoFaults
  <2> QED
    BY <1>7, <2>1 DEF Present, AnnotateTest
<1>9. Tiled'
  <2> SUFFICES ASSUME NEW t \in 1..clock
               PROVE  Kept(t)'
    BY <1>1, <1>7 DEF Tiled
  <2> QED
    BY <1>2, <1>6 DEF Kept
<1> QED
  BY <1>3, <1>4, <1>6, <1>8, <1>9 DEF TimelineInv

LEMMA TimelineNext == TimelineInv /\ [Next]_vars => TimelineInv'
<1> SUFFICES ASSUME TimelineInv, [Next]_vars
             PROVE  TimelineInv'
  OBVIOUS
<1>1. ASSUME NEW S \in SUBSET Servers,
             \/ AnnotateConnection(S) \/ AnnotateTwoPartitions(S)
             \/ AnnotateShutdown(S) \/ AnnotateRestart(S)
      PROVE  TimelineInv'
  BY <1>1, ConnectionStep, PartitionsStep, ShutdownStep, RestartStep
<1>2. CASE TestStep
  <2>1. CASE AnnotateShutdownAll \/ AnnotateRestartAll
    <3>1. Servers \in SUBSET Servers
      OBVIOUS
    <3> QED
      BY <1>1, <2>1, <3>1 DEF AnnotateShutdownAll, AnnotateRestartAll
  <2> QED
    BY <1>1, <1>2, <2>1, ClearFailureStep, TestStarts, NoteStep, FileStep DEF TestStep
<1>3. CASE UNCHANGED vars
  BY <1>3 DEF vars, an, finfo, files, TimelineInv, Typed, Active, Informed, Present, Fault,
              Ended, Tiled, Kept, Past
<1> QED
  BY <1>2, <1>3, FailureBeforeExitStep, CleanupStep, ExitStep DEF Next

-----------------------------------------------------------------------------
(* The visualization of a fault's time line *)

\* What a visualization describes at the moment t: the ended annotations of faults, and
\* the one that is on-going.
LEMMA DescribedIs ==
    ASSUME Typed, Line, NEW t \in 1..(clock - 1)
    PROVE  Described(t) = IF Fault # Zero /\ Fault.start <= t
                          THEN {Concrete(Partition, clock)} ELSE Past(t)
<1> DEFINE c == Concrete(Partition, clock)
<1>1. clock \in Nat \ {0} /\ t \in Nat /\ t < clock
  BY DEF Typed
<1>2. c.tag = Partition /\ c.start = Fault.start /\ c.end = clock /\ c.desp = Fault.desp
  BY DEF Concrete, Interval, Fault
<1>3. \A tag \in Tags : Concrete(tag, clock).tag = tag
  BY DEF Concrete, Interval
<1> HIDE DEF c
<1>4. Described(t) =
        Past(t) \cup {a \in {c} : Fault # Zero /\ a.start <= t /\ a.desp # Blank}
  <2>1. Partition \in OnGoing <=> Fault # Zero
    BY DEF OnGoing, Fault, Tags
  <2>2. \A a : a \in Finalize(clock) /\ a.tag = Partition <=>
                 \/ a \in annotations /\ a.tag = Partition
                 \/ a = c /\ Fault # Zero
    BY <1>2, <1>3, <2>1 DEF Finalize, OnGoing, c
  <2> QED
    BY <1>1, <1>2, <2>2 DEF Described, ShownAt, Past
<1>5. CASE Fault = Zero
  BY <1>4, <1>5
<1>6. CASE Fault # Zero
  <2>1. Fault.desp # Blank
    BY <1>6 DEF Line, Present
  <2>2. Fault.start <= t => Past(t) = {}
    BY <1>6 DEF Line, Tiled
  <2> QED
    BY <1>2, <1>4, <1>6, <2>1, <2>2 DEF c
<1> QED
  BY <1>5, <1>6

LEMMA TimelineShown == TimelineInv => TimelineFaithful
<1> SUFFICES ASSUME TimelineInv, Active, NEW t \in 1..(clock - 1)
             PROVE  /\ {a.desp : a \in Described(t)} = {told[t]} \ {Blank}
                    /\ Cardinality(Described(t)) <= 1
  BY DEF TimelineFaithful, Active
<1>1. Typed /\ Line
  BY DEF TimelineInv, Line
<1>2. \/ told[t] = Blank /\ Described(t) = {}
      \/ told[t] # Blank /\ \E a : Described(t) = {a} /\ a.desp = told[t]
  <2>1. CASE Fault # Zero /\ Fault.start <= t
    <3>1. told[t] = Fault.desp
      BY <1>1, <2>1 DEF Line, Tiled
    <3>2. Fault.desp # Blank
      BY <1>1, <2>1 DEF Line, Present
    <3>3. Concrete(Partition, clock).desp = Fault.desp
      BY DEF Concrete, Interval, Fault
    <3> QED
      BY <1>1, <2>1, <3>1, <3>2, <3>3, DescribedIs
  <2>2. CASE ~(Fault # Zero /\ Fault.start <= t)
    <3>1. Kept(t) /\ Described(t) = Past(t)
      BY <1>1, <2>2, DescribedIs DEF Line, Tiled
    <3> QED
      BY <3>1 DEF Kept
  <2> QED
    BY <2>1, <2>2
<1>3. Cardinality({}) = 0 /\ \A a : Cardinality({a}) = 1
  BY FS_EmptySet, FS_Singleton
<1>4. CASE told[t] = Blank /\ Described(t) = {}
  BY <1>3, <1>4
<1>5. CASE told[t] # Blank /\ \E a : Described(t) = {a} /\ a.desp = told[t]
  <2>1. PICK a : Described(t) = {a} /\ a.desp = told[t]
    BY <1>5
  <2>2. {b.desp : b \in Described(t)} = {told[t]}
    BY <2>1
  <2>3. Cardinality(Described(t)) = 1
    BY <1>3, <2>1
  <2> QED
    BY <1>5, <2>2, <2>3
<1> QED
  BY <1>2, <1>4, <1>5

\* Over all combinations of connections, crashes, restarts, partitions and other
\* annotations, the fault that a visualization describes at a past moment is the fault
\* that the test had reported to be present then, and no moment has two.
THEOREM FaultsShownAsTold == Spec => []TimelineFaithful
<1> QED
  BY TimelineInit, TimelineNext, TimelineShown, PTL DEF Spec

-----------------------------------------------------------------------------
(* The file with the history *)

LEMMA HistoryInit == Init => HistoryInv
BY DEF Init, HistoryInv, Threads, Labels

LEMMA HistoryNext == HistoryInv /\ [Next]_vars => HistoryInv'
<1> SUFFICES ASSUME HistoryInv, [Next]_vars
             PROVE  HistoryInv'
  OBVIOUS
<1>1. pc \in [Threads -> Labels] /\ Threads = {"test", "exiter"}
  BY DEF HistoryInv, Threads
<1>2. CASE UNCHANGED <<finalized, pc, file>>
  BY <1>2 DEF HistoryInv
<1>3. CASE AnnotateTest
  BY <1>1, <1>3 DEF AnnotateTest, HistoryInv, Labels
<1>4. CASE AnnotateCheckerFailureBeforeExit
  BY <1>1, <1>4 DEF AnnotateCheckerFailureBeforeExit, annotatePointColor,
                    annotateIntervalColor, HistoryInv, Labels
<1>5. CASE CheckIllegal
  BY <1>1, <1>5 DEF CheckIllegal, Running, At, HistoryInv, Labels
<1>6. CASE SetAnnotationFinalized
  BY <1>1, <1>6 DEF SetAnnotationFinalized, Running, HistoryInv
<1>7. CASE CheckLegal
  BY <1>1, <1>7 DEF CheckLegal, Running, At, an, HistoryInv, Labels
<1>8. CASE WriteHistory
  BY <1>1, <1>8 DEF WriteHistory, At, an, HistoryInv, Labels
<1>9. CASE TestEnds
  BY <1>1, <1>9 DEF TestEnds, Running, At, an, HistoryInv, Labels
<1>10. ASSUME NEW th \in Threads, CleanupDecides(th)
       PROVE  HistoryInv'
  BY <1>1, <1>10 DEF CleanupDecides, SkipsVis, At, an, HistoryInv, Labels
<1>11. ASSUME NEW th \in Threads, CleanupClears(th)
       PROVE  HistoryInv'
  BY <1>1, <1>11 DEF CleanupClears, Cleared, Done, At, HistoryInv, Labels
<1>12. ASSUME NEW th \in Threads, CleanupWrites(th)
       PROVE  HistoryInv'
  BY <1>1, <1>12 DEF CleanupWrites, Done, At, HistoryInv, Labels
\* The remaining operations on annotations keep an.finalized, and write no file.
<1>13. ASSUME NEW S, \/ AnnotateConnection(S) \/ AnnotateTwoPartitions(S)
                     \/ AnnotateShutdown(S) \/ AnnotateRestart(S)
                     \/ AnnotateClearFailure
       PROVE  UNCHANGED <<finalized, pc, file>>
  BY <1>13 DEF AnnotateConnection, AnnotateTwoPartitions, AnnotateShutdown, AnnotateRestart,
               AnnotateClearFailure, Faulty, files, an, annotateFault,
               annotateContinuousColor, annotateContinuousEnd
<1>14. ASSUME \/ AnnotateCheckerBegin \/ AnnotateCheckerEnd
              \/ AnnotateContinuous \/ AnnotateContinuousEnd \/ Annotate
       PROVE  UNCHANGED <<finalized, pc, file>>
  BY <1>14 DEF AnnotateCheckerBegin, AnnotateCheckerEnd, AnnotateContinuous,
               AnnotateContinuousEnd, Annotate, Other, files, an, annotatePointColor,
               annotateIntervalColor, annotateContinuousColor, annotateContinuousEnd
<1>15. CASE UNCHANGED vars
  BY <1>2, <1>15 DEF vars, an, files
<1>16. CASE Exit
  BY <1>1, <1>16 DEF Exit, At, HistoryInv, Labels
<1>17. CASE TestStep
  BY <1>2, <1>3, <1>5, <1>6, <1>7, <1>8, <1>9, <1>13, <1>14, <1>17
  DEF TestStep, AnnotateShutdownAll, AnnotateRestartAll
<1> QED
  BY <1>4, <1>10, <1>11, <1>12, <1>15, <1>16, <1>17 DEF Next

\* As long as no goroutine that ends the process has begun its cleanup, the file that holds
\* the clients' operations is not replaced, whatever the test does after its check.
THEOREM HistoryIsKept == Spec => HistoryKept
<1>1. HistoryInv /\ [Next]_vars =>
        [file = "history" /\ file' = "bare" => pc["exiter"] \notin {"run", "fatal"}]_vars
  <2> SUFFICES ASSUME HistoryInv, Next, file = "history", file' = "bare"
               PROVE  pc["exiter"] \notin {"run", "fatal"}
    OBVIOUS
  <2>1. CASE Exit
    BY <2>1 DEF Exit
  <2>2. ASSUME NEW th \in Threads, CleanupWrites(th)
        PROVE  pc["exiter"] \notin {"run", "fatal"}
    BY <2>2 DEF CleanupWrites, HistoryInv, Threads
  <2>3. ASSUME NEW th \in Threads, CleanupDecides(th) \/ CleanupClears(th)
        PROVE  FALSE
    BY <2>3 DEF CleanupDecides, CleanupClears
  <2>4. CASE AnnotateCheckerFailureBeforeExit
    BY <2>4 DEF AnnotateCheckerFailureBeforeExit
  <2>5. CASE TestStep
    BY <2>5 DEF TestStep, AnnotateConnection, AnnotateTwoPartitions, AnnotateShutdown,
                AnnotateRestart, AnnotateShutdownAll, AnnotateRestartAll,
                AnnotateClearFailure, AnnotateTest, AnnotateCheckerBegin,
                AnnotateCheckerEnd, AnnotateContinuous, AnnotateContinuousEnd, Annotate,
                SetAnnotationFinalized, CheckIllegal, CheckLegal, WriteHistory, TestEnds,
                Faulty, Other, files
  <2> QED
    BY <2>1, <2>2, <2>3, <2>4, <2>5 DEF Next
<1> QED
  BY <1>1, HistoryInit, HistoryNext, PTL DEF Spec, HistoryKept
=============================================================================
