---------------------------- MODULE Annotation ----------------------------
(***************************************************************************)
(* The annotations of a test's execution: src/src/tester1/annotation.go,   *)
(* with the visualization files of checkPorcupine in                       *)
(* src/src/kvtest1/porcupine.go.                                           *)
(*                                                                         *)
(* Every operation holds annotation.mu (and finfo.mu) and is one action,   *)
(* at a time of its own.  cleanup takes the lock twice and may run in the  *)
(* test's goroutine and in one that ends the process: the one that         *)
(* captures SIGINT, or one whose check has failed.  A description is what  *)
(* it says of the servers: the partitions, and who is crashed.             *)
(* VIS_FILE is set, so that all visualizations go to one file.             *)
(***************************************************************************)
EXTENDS Naturals, Sequences, FiniteSets

CONSTANTS
    Servers,
    MaxTime     \* bound: no operation has a later timestamp

ASSUME ServersAssumption == Servers # {} /\ IsFiniteSet(Servers)
ASSUME MaxTimeAssumption == MaxTime \in Nat \ {0}

VARIABLES
    clock,          \* timestamp()
    annotations,    \* an.annotations, as a set: no two have the same times and tag
    continuous,     \* an.continuous; a tag that is not in the map has Go's zero value
    finalized,      \* an.finalized
    connected,      \* finfo.connected
    crashed,        \* finfo.crashed
    ckbegin,        \* finfo.ckbegin.ts
    vis,            \* the environment variable VIS_ENABLE
    failed,         \* cfg.t.Failed()
    pc,             \* where the test and the exiting goroutine are in writing a file
    file,           \* what the visualization file holds
    test,           \* history: the faults that the test has reported to be present
    told            \* history: told[t] is the fault that was present from t to t + 1

an    == <<annotations, continuous, finalized>>
finfo == <<connected, crashed, ckbegin>>
files == <<vis, failed, pc, file>>
vars  == <<clock, an, finfo, files, test, told>>

Partition == "$ Failure"    \* TAG_PARTITION
Checker   == "$ Checker"
Info      == "$ Test Info"
User      == "user"
Tags      == {Partition, Checker, Info, User}
Threads   == {"test", "exiter"}

Blank == [blocks |-> {}, crashed |-> {}]
Zero  == [start |-> 0, desp |-> Blank]

-----------------------------------------------------------------------------
(* The list of annotations and the map of continuous ones *)

\* timestamp: every operation reads the clock, and the clock moves on.
Tick == clock < MaxTime /\ clock' = clock + 1

Interval(tag, start, end, desp) ==
    [tag |-> tag, start |-> start, end |-> end, desp |-> desp]

\* annotatePointColor: a point in time has no end.
annotatePointColor(tag) ==
    /\ annotations' = annotations \cup {Interval(tag, clock, 0, Blank)}
    /\ UNCHANGED <<continuous, finalized>>

annotateIntervalColor(tag, start) ==
    /\ annotations' = annotations \cup {Interval(tag, start, clock, Blank)}
    /\ UNCHANGED <<continuous, finalized>>

\* What the on-going annotation of tag becomes when it ends at time t.
Concrete(tag, t) == Interval(tag, continuous[tag].start, t, continuous[tag].desp)

OnGoing == {tag \in Tags : continuous[tag] # Zero}

\* Mutant: the previous annotation is replaced and not kept.
annotateContinuousColorForgets(tag, desp) ==
    /\ annotations' = annotations
    /\ continuous' = [continuous EXCEPT ![tag] = [start |-> clock, desp |-> desp]]
    /\ UNCHANGED finalized

\* annotateContinuousColor: the previous annotation of the tag ends where this starts.
annotateContinuousColor(tag, desp) ==
    /\ annotations' = annotations \cup {Concrete(t, clock) : t \in {tag} \cap OnGoing}
    /\ continuous' = [continuous EXCEPT ![tag] = [start |-> clock, desp |-> desp]]
    /\ UNCHANGED finalized

\* annotateContinuousEnd: the branch for a tag with nothing on-going does not return,
\* and an annotation that starts at 0 is added.
annotateContinuousEnd(tag) ==
    /\ annotations' = annotations \cup {Concrete(tag, clock)}
    /\ continuous' = [continuous EXCEPT ![tag] = Zero]
    /\ UNCHANGED finalized

\* clear
Cleared ==
    /\ annotations' = {}
    /\ continuous' = [tag \in Tags |-> Zero]
    /\ finalized' = FALSE

\* What finalize returns at time t: it closes what is on-going and changes neither the
\* list nor the map.
Finalize(t) == annotations \cup {Concrete(tag, t) : tag \in OnGoing}

-----------------------------------------------------------------------------
(* Faults *)

NoFaults == [connected |-> Servers, crashed |-> {}, sides |-> {}]

\* The text that annotateFault builds: a disconnected server is a partition of its own,
\* the connected ones share one, and crashed servers are listed apart.
FaultText(conn, crash) ==
    [blocks  |-> {{i} : i \in (Servers \ conn) \ crash} \cup ({conn \ crash} \ {{}}),
     crashed |-> crash]

\* annotateFault, for the values that its caller has just put into finfo.
annotateFault(conn, crash) ==
    IF conn = Servers /\ crash = {}
    THEN annotateContinuousEnd(Partition)
    ELSE annotateContinuousColor(Partition, FaultText(conn, crash))

\* The fault that is present when the test has reported t.
FaultOf(t) ==
    CASE t.sides # {}  -> [blocks |-> t.sides, crashed |-> {}]
      [] t = NoFaults  -> Blank
      [] OTHER         -> FaultText(t.connected, t.crashed)

Report(t) == test' = t /\ told' = Append(told, FaultOf(t))

Running == pc["test"] = "run"
Faulty  == Running /\ UNCHANGED <<ckbegin, files>>

\* AnnotateConnection, for a test that does not use Partition.
AnnotateConnection(conn) ==
    /\ Faulty /\ Tick
    /\ test.sides = {}
    /\ connected' = conn
    /\ IF connected = conn THEN UNCHANGED an ELSE annotateFault(conn, crashed)
    /\ Report([test EXCEPT !.connected = conn])
    /\ UNCHANGED crashed

\* AnnotateTwoPartitions does not look at finfo; a test uses it without other faults.
AnnotateTwoPartitions(one) ==
    /\ Faulty /\ Tick
    /\ [test EXCEPT !.sides = {}] = NoFaults
    /\ annotateContinuousColor(Partition, [blocks |-> {one, Servers \ one}, crashed |-> {}])
    /\ Report([test EXCEPT !.sides = {one, Servers \ one}])
    /\ UNCHANGED <<connected, crashed>>

AnnotateClearFailure ==
    /\ Faulty /\ Tick
    /\ crashed' = {} /\ connected' = Servers
    /\ annotateContinuousEnd(Partition)
    /\ Report(NoFaults)

AnnotateShutdown(srvs) ==
    /\ Faulty /\ Tick
    /\ test.sides = {}
    /\ crashed' = crashed \cup srvs
    /\ IF srvs \subseteq crashed THEN UNCHANGED an ELSE annotateFault(connected, crashed \cup srvs)
    /\ Report([test EXCEPT !.crashed = @ \cup srvs])
    /\ UNCHANGED connected

AnnotateShutdownAll == AnnotateShutdown(Servers)

\* Mutant: only a restart of servers that are all crashed counts as a change.
AnnotateRestartOfCrashed(srvs) ==
    /\ Faulty /\ Tick
    /\ test.sides = {}
    /\ crashed' = crashed \ srvs
    /\ IF ~(srvs \subseteq crashed) THEN UNCHANGED an ELSE annotateFault(connected, crashed \ srvs)
    /\ Report([test EXCEPT !.crashed = @ \ srvs])
    /\ UNCHANGED connected

AnnotateRestart(srvs) ==
    /\ Faulty /\ Tick
    /\ test.sides = {}
    /\ crashed' = crashed \ srvs
    /\ IF srvs \cap crashed = {} THEN UNCHANGED an ELSE annotateFault(connected, crashed \ srvs)
    /\ Report([test EXCEPT !.crashed = @ \ srvs])
    /\ UNCHANGED connected

AnnotateRestartAll == AnnotateRestart(Servers)

-----------------------------------------------------------------------------
(* The other annotations of tests and of users *)

Still == Report(test)
Other == Running /\ Tick /\ Still /\ UNCHANGED <<connected, crashed, files>>

\* AnnotateTest, at the start of every test of the process; file tells what the file
\* holds of this test.
AnnotateTest ==
    /\ pc["test"] = "over" /\ Tick
    /\ connected' = Servers /\ crashed' = {} /\ ckbegin' = 0
    /\ annotations' = {Interval(Info, clock, 0, Blank)}
    /\ continuous' = [tag \in Tags |-> Zero]
    /\ finalized' = FALSE
    /\ failed' = FALSE
    /\ file' = "none"
    /\ test' = NoFaults
    /\ told' = [t \in 1..clock |-> Blank]
    /\ pc' = [pc EXCEPT !["test"] = "run"]
    /\ UNCHANGED vis

AnnotateCheckerBegin == Other /\ ckbegin' = clock /\ UNCHANGED an

\* AnnotateCheckerEnd resets its own copy of ckbegin and leaves finfo's as it is.
AnnotateCheckerEnd ==
    /\ Other
    /\ IF ckbegin = 0 THEN annotatePointColor(Checker) ELSE annotateIntervalColor(Checker, ckbegin)
    /\ UNCHANGED ckbegin

\* AnnotateCheckerFailureBeforeExit, in a goroutine that reads an apply channel; the
\* cleanup comes next.
AnnotateCheckerFailureBeforeExit ==
    /\ pc["exiter"] = "run"
    /\ Tick /\ Still
    /\ IF ckbegin = 0 THEN annotatePointColor(Checker) ELSE annotateIntervalColor(Checker, ckbegin)
    /\ pc' = [pc EXCEPT !["exiter"] = "fatal"]
    /\ UNCHANGED <<finfo, vis, failed, file>>

AnnotateContinuous    == Other /\ annotateContinuousColor(User, Blank) /\ UNCHANGED ckbegin
AnnotateContinuousEnd == Other /\ annotateContinuousEnd(User) /\ UNCHANGED ckbegin
Annotate              == Other /\ annotatePointColor(User) /\ UNCHANGED ckbegin

-----------------------------------------------------------------------------
(* Visualizations *)

Quiet == Report(test) /\ UNCHANGED <<finfo, vis>>

At(th, label) == pc' = [pc EXCEPT ![th] = label]

\* checkPorcupine of a history that is not linearizable: open the file, which empties it;
\* unless VIS_ENABLE is never, FinalizeAnnotations, then write the history; t.Fatal in
\* any case.
CheckIllegal ==
    /\ Running /\ Tick /\ Quiet
    /\ failed' = TRUE
    /\ IF vis = "never"
       THEN At("test", "ended") /\ UNCHANGED finalized
       ELSE At("test", "history") /\ finalized' = TRUE
    /\ file' = "none"
    /\ UNCHANGED <<annotations, continuous>>

\* SetAnnotationFinalized, before the last check of a test's history.
SetAnnotationFinalized ==
    /\ Running /\ Tick /\ Quiet
    /\ finalized' = TRUE
    /\ UNCHANGED <<annotations, continuous, failed, pc, file>>

\* checkPorcupine of a legal history: with VIS_ENABLE = always, and in the last check,
\* open the file, FinalizeAnnotations and write the history.
CheckLegal ==
    /\ Running /\ Tick /\ Quiet
    /\ vis = "always" /\ finalized
    /\ At("test", "history")
    /\ file' = "none"
    /\ UNCHANGED <<an, failed>>

\* Visualize in checkPorcupine.
WriteHistory ==
    /\ pc["test"] = "history"
    /\ Tick /\ Quiet
    /\ At("test", IF failed THEN "ended" ELSE "run")
    /\ file' = "history"
    /\ UNCHANGED <<an, failed>>

\* A test that reports a failure, or that returns, goes on to Cleanup.
TestEnds ==
    /\ Running /\ Tick /\ Quiet
    /\ At("test", "ended")
    /\ failed' \in BOOLEAN
    /\ UNCHANGED <<an, file>>

\* Mutant: cleanup does not ask whether CheckPorcupine has written a file.
SkipsVisUnasked(th) ==
    \/ vis = "never"
    \/ th = "test" /\ ~failed /\ vis # "always"

\* The first condition of cleanup; an exiting goroutine cleans up as after a failure.
SkipsVis(th) ==
    \/ vis = "never"
    \/ th = "test" /\ ~failed /\ vis # "always"
    \/ finalized

\* cleanup, first part: it reads finalized and gives up the lock.
CleanupDecides(th) ==
    /\ pc[th] \in IF th = "test" THEN {"ended"} ELSE {"run", "fatal"}
    /\ Tick /\ Quiet
    /\ At(th, IF SkipsVis(th) THEN "clear" ELSE "write")
    /\ UNCHANGED <<an, failed, file>>

\* After cleanup the test is over and another may start; the other goroutine has the exit
\* of the process before it.
Done(th) == IF th = "test" THEN "over" ELSE "exiting"

CleanupClears(th) ==
    /\ pc[th] = "clear"
    /\ Tick /\ Quiet
    /\ Cleared
    /\ At(th, Done(th))
    /\ UNCHANGED <<failed, file>>

\* cleanup, second part: finalize, and write a file without a history unless there is
\* nothing to show.
CleanupWrites(th) ==
    /\ pc[th] = "write"
    /\ Tick /\ Quiet
    /\ finalized' = TRUE
    /\ file' = IF Finalize(clock) = {} THEN file ELSE "bare"
    /\ At(th, Done(th))
    /\ UNCHANGED <<annotations, continuous, failed>>

\* os.Exit of captureSignal, and log.Fatalf of a check that has failed, when the cleanup
\* has returned and given up the lock: the test's goroutine may have run in between.
Exit ==
    /\ pc["exiter"] = "exiting"
    /\ At("exiter", "exit")
    /\ UNCHANGED <<clock, an, finfo, vis, failed, file, test, told>>

-----------------------------------------------------------------------------
Init ==
    /\ clock = 1
    /\ annotations = {}
    /\ continuous = [tag \in Tags |-> Zero]
    /\ finalized = FALSE
    /\ connected = {}
    /\ crashed = {}
    /\ ckbegin = 0
    /\ vis \in {"", "always", "never"}
    /\ failed = FALSE
    /\ pc = [th \in Threads |-> IF th = "test" THEN "over" ELSE "run"]
    /\ file = "none"
    /\ test = NoFaults
    /\ told = <<>>

TestStep ==
    \/ \E S \in SUBSET Servers : \/ AnnotateConnection(S)
                                 \/ AnnotateTwoPartitions(S)
                                 \/ S # {} /\ AnnotateShutdown(S)
                                 \/ S # {} /\ AnnotateRestart(S)
    \/ AnnotateShutdownAll \/ AnnotateRestartAll \/ AnnotateClearFailure
    \/ AnnotateTest \/ AnnotateCheckerBegin \/ AnnotateCheckerEnd
    \/ AnnotateContinuous \/ AnnotateContinuousEnd \/ Annotate
    \/ SetAnnotationFinalized \/ CheckIllegal \/ CheckLegal \/ WriteHistory \/ TestEnds

Next ==
    /\ pc["exiter"] # "exit"
    /\ \/ TestStep
       \/ AnnotateCheckerFailureBeforeExit
       \/ Exit
       \/ \E th \in Threads : CleanupDecides(th) \/ CleanupClears(th) \/ CleanupWrites(th)

Spec == Init /\ [][Next]_vars

-----------------------------------------------------------------------------
(* Properties *)

\* The partition intervals that a visualization made now would show at time t, and those
\* among them with a text.
ShownAt(t)   == {a \in Finalize(clock) : a.tag = Partition /\ a.start <= t /\ t < a.end}
Described(t) == {a \in ShownAt(t) : a.desp # Blank}

\* The fault described at every past moment is the fault that the test had reported to be
\* present then: no gap, no overlap, no stale text, over all combinations of
\* connections, crashes, restarts and partitions.  The intervals from 0 on that
\* annotateContinuousEnd adds when there is no fault are drawn too, and say nothing.
\* It ends where an exiting goroutine may have cleared the annotations of the test.
TimelineFaithful ==
    pc["test"] # "over" /\ pc["exiter"] \notin {"exiting", "exit"} =>
        \A t \in 1..(clock - 1) :
            /\ {a.desp : a \in Described(t)} = {told[t]} \ {Blank}
            /\ Cardinality(Described(t)) <= 1

\* "so that the vis file containing client operations (generated here) won't be
\* overridden by that without client operations" (porcupine.go): whatever a test annotates
\* after its history is in the file, and however it ends, its file is not replaced, as
\* long as no goroutine that ends the process has begun its own cleanup.  From then on the
\* code does not keep the promise: that goroutine may have found finalized unset before
\* the check set it, and when it clears, the test's cleanup finds it unset again.
HistoryKept ==
    [][file = "history" /\ file' = "bare" => pc["exiter"] \notin {"run", "fatal"}]_vars
=============================================================================
