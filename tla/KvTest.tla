------------------------------- MODULE KvTest -------------------------------
(***************************************************************************)
(* The harness that tests a key/value service with many clients:           *)
(* src/src/kvtest1/kvtest.go, kvtest1/porcupine.go and models1/kv.go.      *)
(* Clients append to one key, or put to it, until the tester tells them to *)
(* stop; the tester then checks the final value against what the clients   *)
(* counted, and the log of all calls for linearizability.  In the third    *)
(* kind of test the tester alone puts at least once and checks with Gets.  *)
(*                                                                         *)
(* The service and its Clerk are external, as the comments of              *)
(* kvsrv1/server.go and kvsrv1/client.go define them: a Put with the       *)
(* right version is executed, a Clerk resends what is lost, and turns      *)
(* ErrVersion into ErrMaybe when it has resent.  A service that breaks its *)
(* promise answers OK to one Put without executing it (checked without     *)
(* lost messages).                                                         *)
(***************************************************************************)
EXTENDS Integers, Sequences, FiniteSets

CONSTANTS
    Clients,
    Tester,         \* the tester's own client id, -1 in the code
    None,           \* no value, "" in the code
    MaxIter,        \* bound: the iterations of all clients, or of the tester
    MaxRounds,      \* bound: the rounds of GenericTest, NITER in the code
    MaxMaybe        \* bound: the Puts that end with ErrMaybe

ASSUME ClientsAssumption == IsFiniteSet(Clients)
ASSUME TesterAssumption  == Tester \notin Clients
ASSUME BoundAssumption   == {MaxIter, MaxRounds, MaxMaybe} \subseteq Nat \ {0}

VARIABLES
    fn,         \* what the clients run: "append", "put", or "atleastonce"
    reliable,   \* whether the network loses nothing
    forgot,     \* "never": the service keeps its promises; else "not yet" or "once"
    kv,         \* the value and the version of the key; version 0 if there is no key
    pc,         \* where each client is, and the tester
    call,       \* the call that each is in
    iter,       \* i of OneClientAppend; the iterations of OneClientPut
    ver,        \* verm of OneClientPut, and ver of PutAtLeastOnce
    err,        \* err of OnePut
    res,        \* the ClntRes of each client in this round
    total,      \* the sum of all rounds: res of GenericTest
    round,
    oplog,      \* ts.oplog, with times counted in the calls that have returned
    verdict     \* of porcupine: "none" before it runs, "ok", "illegal", or "unknown"

params == <<fn, reliable>>
local  == <<iter, ver, err, res>>
tester == <<total, round, verdict>>
service == <<forgot, kv>>
vars   == <<params, service, pc, call, local, tester, oplog>>

Procs == Clients \cup {Tester}
Entry(p, n) == [id |-> p, n |-> n]
NoRes   == [nok |-> 0, nmaybe |-> 0]
NoReply == [val |-> None, ver |-> 0, err |-> "none"]
NoCall  == [op |-> "none", val |-> None, ver |-> 0, start |-> 0, resent |-> FALSE, reply |-> NoReply]

-----------------------------------------------------------------------------
(* Calls of the Clerk, and what is logged about them *)

\* Get and Put of porcupine.go note the time and call the Clerk.
Calls(p, op, val, v) ==
    call' = [call EXCEPT ![p] = [op |-> op, val |-> val, ver |-> v, resent |-> FALSE,
                                 start |-> Cardinality(oplog'), reply |-> NoReply]]

NoMoreCalls(p) == call' = [call EXCEPT ![p] = NoCall]

\* The Clerk's Put: ErrVersion for a Put that was sent again means ErrMaybe.
Err(p) ==
    IF call[p].op = "put" /\ call[p].resent /\ call[p].reply.err = "ErrVersion"
    THEN "ErrMaybe"
    ELSE call[p].reply.err

\* The Clerk has answered, and OpLog.Append records the call with its two times.
Returns(p) ==
    /\ call[p].reply # NoReply
    /\ oplog' = oplog \cup
          {[op |-> call[p].op, val |-> call[p].val, ver |-> call[p].ver,
            out |-> call[p].reply.val, err |-> Err(p), start |-> call[p].start,
            end |-> Cardinality(oplog) + 1]}

\* The server executes a request.
Serve(p) ==
    LET c == call[p] IN
    /\ c.op # "none" /\ c.reply = NoReply
    /\ \E forget \in IF forgot = "not yet" THEN BOOLEAN ELSE {FALSE} :
          LET fits == c.op = "put" /\ c.ver = kv.ver
              e    == IF c.op = "get" THEN IF kv.ver = 0 THEN "ErrNoKey" ELSE "OK"
                      ELSE IF fits THEN "OK" ELSE IF kv.ver = 0 THEN "ErrNoKey" ELSE "ErrVersion"
              r    == IF c.op = "get" THEN [val |-> kv.val, ver |-> kv.ver, err |-> e]
                      ELSE [val |-> None, ver |-> 0, err |-> e]
          IN  /\ forget => fits
              /\ kv' = IF fits /\ ~forget THEN [val |-> c.val, ver |-> kv.ver + 1] ELSE kv
              /\ forgot' = IF forget THEN "once" ELSE forgot
              /\ call' = [call EXCEPT ![p].reply = r]
    /\ UNCHANGED <<params, pc, local, tester, oplog>>

\* The request or its reply is lost, and the Clerk sends a Put again.  A Get that is sent
\* again is no different.
Lose(p) ==
    /\ ~reliable /\ call[p].op = "put"
    /\ Cardinality({o \in oplog : o.err = "ErrMaybe"})
          + Cardinality({q \in Procs \ {p} : call[q].resent}) < MaxMaybe
    /\ call' = [call EXCEPT ![p].resent = TRUE, ![p].reply = NoReply]
    /\ UNCHANGED <<params, service, pc, local, tester, oplog>>

-----------------------------------------------------------------------------
(* The clients *)

Goto(p, l) == pc' = [pc EXCEPT ![p] = l]

\* Fatalf in a client's goroutine ends that goroutine.
Fatal(p) ==
    /\ Goto(p, "fatal")
    /\ NoMoreCalls(p)
    /\ UNCHANGED <<params, service, local, tester>>

\* The sum of what the clients have counted, as the number of the things counted.
Sum(f)  == Cardinality(UNION {{c} \X (1..f[c]) : c \in Clients})
Counts  == [nok    |-> total.nok + Sum([c \in Clients |-> res[c].nok]),
            nmaybe |-> total.nmaybe + Sum([c \in Clients |-> res[c].nmaybe])]
Started == Counts.nok + Counts.nmaybe + Cardinality({c \in Clients : pc[c] \in {"get", "put"}})

\* A client in select takes the signal if the tester is sending one.
TakeDone(c) ==
    /\ pc[c] = "head" /\ pc[Tester] = "signal"
    /\ Goto(c, "result")
    /\ UNCHANGED <<params, service, call, local, tester, oplog>>

\* OneClientAppend starts an iteration with a Get.
AppendIter(c) ==
    /\ oplog' = oplog
    /\ fn = "append" /\ pc[c] = "head" /\ pc[Tester] # "signal" /\ Started < MaxIter
    /\ Goto(c, "get") /\ Calls(c, "get", None, 0)
    /\ UNCHANGED <<params, service, local, tester>>

\* OneClientAppend, after its GetJson.
AppendGot(c) ==
    /\ fn = "append" /\ pc[c] = "get" /\ Returns(c)
    /\ IF Err(c) # "OK"
       THEN Fatal(c)
       ELSE /\ Goto(c, "put")
            /\ Calls(c, "put", Append(call[c].reply.val, Entry(c, iter[c])), call[c].reply.ver)
            /\ UNCHANGED <<params, service, local, tester>>

\* Mutant: a client returns after an ErrMaybe, and never takes its signal.
CountedReturns(c, ok) ==
    /\ res' = IF ok THEN [res EXCEPT ![c].nok = @ + 1] ELSE [res EXCEPT ![c].nmaybe = @ + 1]
    /\ iter' = [iter EXCEPT ![c] = @ + 1]
    /\ Goto(c, IF ok THEN "head" ELSE "returned") /\ NoMoreCalls(c)

\* A client has counted an iteration and goes back to its select.
Counted(c, ok) ==
    /\ res' = IF ok THEN [res EXCEPT ![c].nok = @ + 1] ELSE [res EXCEPT ![c].nmaybe = @ + 1]
    /\ iter' = [iter EXCEPT ![c] = @ + 1]
    /\ Goto(c, "head") /\ NoMoreCalls(c)

\* Mutant: a Put that may have happened is tried again.
LeavesLoopSure(e) == e = "OK"

\* The errors after which OneClientAppend and OnePut leave their inner loop.
LeavesLoop(e) == e \in {"OK", "ErrMaybe"}

\* OneClientAppend, after its PutJson: any other error starts over with a Get.
AppendPut(c) ==
    /\ fn = "append" /\ pc[c] = "put" /\ Returns(c)
    /\ IF LeavesLoop(Err(c))
       THEN Counted(c, Err(c) = "OK")
       ELSE Goto(c, "get") /\ Calls(c, "get", None, 0) /\ UNCHANGED <<iter, res>>
    /\ UNCHANGED <<params, service, ver, err, tester>>

\* OneClientPut calls OnePut, with the version it knows.
PutIter(c) ==
    /\ oplog' = oplog
    /\ fn = "put" /\ pc[c] = "head" /\ pc[Tester] # "signal" /\ Started < MaxIter
    /\ Goto(c, "put") /\ Calls(c, "put", <<Entry(c, ver[c])>>, ver[c])
    /\ UNCHANGED <<params, service, local, tester>>

\* OnePut, after its PutJson.
PutPut(c) ==
    /\ fn = "put" /\ pc[c] = "put" /\ Returns(c)
    /\ IF Err(c) \notin {"OK", "ErrVersion", "ErrMaybe"}
       THEN Fatal(c)
       ELSE /\ err' = [err EXCEPT ![c] = Err(c)]
            /\ Goto(c, "get") /\ Calls(c, "get", None, 0)
            /\ UNCHANGED <<params, service, iter, ver, res, tester>>

\* OnePut's test of what it reads.
WrongValue(c, e, v) == err[c] = "OK" /\ v = ver[c] + 1 /\ e.id # c /\ e.n # ver[c]

\* OnePut, after its GetJson.
PutGot(c) ==
    LET r == call[c].reply IN
    /\ fn = "put" /\ pc[c] = "get" /\ Returns(c)
    /\ IF Err(c) # "OK" \/ WrongValue(c, r.val[1], r.ver)
       THEN Fatal(c)
       ELSE /\ ver' = [ver EXCEPT ![c] = r.ver]
            /\ IF LeavesLoop(err[c])
               THEN Counted(c, err[c] = "OK")
               ELSE /\ Goto(c, "put") /\ Calls(c, "put", <<Entry(c, r.ver)>>, r.ver)
                    /\ UNCHANGED <<iter, res>>
            /\ UNCHANGED <<params, service, err, tester>>

-----------------------------------------------------------------------------
(* The tester *)

\* SpawnClientsAndWait has slept, and sends one signal after the other.  It sleeps a
\* second or more, taken to be time enough for one iteration of some client; if it were
\* not, the tester could find no key.
Signal ==
    /\ pc[Tester] = "sleep"
    /\ \E c \in Clients : iter[c] > 0
    /\ Goto(Tester, "signal")
    /\ UNCHANGED <<params, service, call, local, tester, oplog>>

\* SpawnClientsAndWait has sent all signals, receives every client's result, and the test
\* reads the key.
Collect ==
    /\ oplog' = oplog
    /\ pc[Tester] = "signal"
    /\ \A c \in Clients : pc[c] = "result"
    /\ pc' = [p \in Procs |-> IF p = Tester THEN "get" ELSE "end"]
    /\ Calls(Tester, "get", None, 0)
    /\ total' = Counts
    /\ UNCHANGED <<params, service, local, round, verdict>>

\* CheckPutConcurrent
CheckPutConcurrent(v) == IF reliable THEN v = total.nok ELSE v <= total.nok + total.nmaybe

\* CheckAppends.  expect[c] ends up one above the last entry of c, and skipped[c] is how
\* many are missing below it.
CheckAppends(es, v) ==
    LET mine(c)   == {k \in DOMAIN es : es[k].id = c}
        expect(c) == IF mine(c) = {} THEN 0
                     ELSE LET k == CHOOSE k \in mine(c) : \A j \in mine(c) : j <= k
                          IN  es[k].n + 1
    IN  /\ Len(es) + 1 = v
        /\ \A c \in Clients :
              /\ \A j, k \in mine(c) : j < k => es[j].n < es[k].n
              /\ expect(c) - Cardinality(mine(c)) <= res[c].nmaybe
              /\ expect(c) <= res[c].nok + res[c].nmaybe

\* Mutant: Step does not compare the version of a Put that was acknowledged.
StepBlind(st, o) ==
    IF o.op = "get" THEN [ok |-> o.out = st.val, state |-> st]
    ELSE IF st.ver = o.ver \/ o.err = "OK"
         THEN [ok |-> o.err \in {"OK", "ErrMaybe"}, state |-> [val |-> o.val, ver |-> st.ver + 1]]
         ELSE [ok |-> o.err \in {"ErrVersion", "ErrMaybe"}, state |-> st]

\* KvModel.Step
Step(st, o) ==
    IF o.op = "get" THEN [ok |-> o.out = st.val, state |-> st]
    ELSE IF st.ver = o.ver
         THEN [ok |-> o.err \in {"OK", "ErrMaybe"}, state |-> [val |-> o.val, ver |-> st.ver + 1]]
         ELSE [ok |-> o.err \in {"ErrVersion", "ErrMaybe"}, state |-> st]

\* KvModel.Init
KvInit == [val |-> None, ver |-> 0]

\* porcupine tries an order of the calls, and is at c: the calls that are left, and the
\* state of the model.  No call comes before one that had returned when it was made.
After(c) ==
    {[todo |-> c.todo \ {o}, state |-> Step(c.state, o).state] :
        o \in {q \in c.todo : Step(c.state, q).ok /\ \A p \in c.todo : p.end > q.start}}

\* porcupine: the calls can be put in an order that the model accepts.  reached[k] holds
\* what the first k calls in such an order can leave.
Linearizable(ops) ==
    LET reached[k \in 0..Cardinality(ops)] ==
            IF k = 0 THEN {[todo |-> ops, state |-> KvInit]}
            ELSE UNION {After(c) : c \in reached[k - 1]}
    IN  reached[Cardinality(ops)] # {}

\* checkPorcupine: only an illegal history stops the test; porcupine may give up.
CheckPorcupine ==
    \/ \E ops \in {oplog'} : verdict' = IF Linearizable(ops) THEN "ok" ELSE "illegal"
    \/ verdict' = "unknown"

\* GetJson of the tester, CheckPutConcurrent or CheckAppends, and CheckPorcupine.
Check ==
    LET r      == call[Tester].reply
        passed == Err(Tester) = "OK" /\ IF fn = "put" THEN CheckPutConcurrent(r.ver)
                                                      ELSE CheckAppends(r.val, r.ver)
    IN
    /\ fn # "atleastonce" /\ pc[Tester] = "get" /\ Returns(Tester)
    /\ IF passed THEN CheckPorcupine ELSE UNCHANGED verdict
    /\ Goto(Tester, IF passed /\ verdict' # "illegal" THEN "passed" ELSE "fatal")
    /\ NoMoreCalls(Tester)
    /\ UNCHANGED <<params, service, local, total, round>>

\* GenericTest starts the clients again; they begin with version 0.
NextRound ==
    /\ fn = "put" /\ pc[Tester] = "passed" /\ round < MaxRounds
    /\ total.nok + total.nmaybe < MaxIter
    /\ round' = round + 1
    /\ pc' = [p \in Procs |-> IF p = Tester THEN "sleep" ELSE "head"]
    /\ iter' = [c \in Clients |-> 0]
    /\ ver' = [p \in Procs |-> 0]
    /\ res' = [c \in Clients |-> NoRes]
    /\ verdict' = "none"
    /\ UNCHANGED <<params, service, call, err, total, oplog>>

\* PutAtLeastOnce calls Put with the version it has.
AtLeastOncePut ==
    /\ oplog' = oplog
    /\ fn = "atleastonce" /\ pc[Tester] = "start" /\ round <= MaxIter
    /\ Goto(Tester, "put")
    /\ Calls(Tester, "put", <<Entry(Tester, round)>>, ver[Tester])
    /\ UNCHANGED <<params, service, local, tester>>

\* PutAtLeastOnce: the version for the next Put.
NextVersion(v, e) == IF e \in {"OK", "ErrMaybe", "ErrVersion"} THEN v + 1 ELSE v

\* PutAtLeastOnce, after its Put: OK ends it, and the caller goes on to CheckGet.
AtLeastOncePutDone ==
    LET v == NextVersion(ver[Tester], Err(Tester)) IN
    /\ fn = "atleastonce" /\ pc[Tester] = "put" /\ Returns(Tester)
    /\ ver' = [ver EXCEPT ![Tester] = v]
    /\ IF Err(Tester) = "OK"
       THEN Goto(Tester, "get") /\ Calls(Tester, "get", None, 0)
       ELSE IF Err(Tester) \in {"ErrMaybe", "ErrVersion"} \/ v = 0
            THEN Goto(Tester, "put") /\ Calls(Tester, "put", call[Tester].val, v)
            ELSE Goto(Tester, "fatal") /\ NoMoreCalls(Tester)
    /\ UNCHANGED <<params, service, iter, err, res, tester>>

\* CheckGet: the value that was put, with the version that PutAtLeastOnce returned.
CheckGet ==
    LET r == call[Tester].reply IN
    /\ fn = "atleastonce" /\ pc[Tester] = "get" /\ Returns(Tester)
    /\ Goto(Tester, IF /\ Err(Tester) = "OK"
                       /\ r.val = <<Entry(Tester, round)>> /\ r.ver = ver[Tester]
                    THEN "start" ELSE "fatal")
    /\ NoMoreCalls(Tester)
    /\ round' = round + 1
    /\ UNCHANGED <<params, service, local, total, verdict>>

\* At the end the calls are checked for linearizability.
AtLeastOnceEnd ==
    /\ fn = "atleastonce" /\ pc[Tester] = "start" /\ round > MaxIter
    /\ oplog' = oplog /\ CheckPorcupine
    /\ Goto(Tester, IF verdict' = "illegal" THEN "fatal" ELSE "passed")
    /\ UNCHANGED <<params, service, call, local, total, round>>

-----------------------------------------------------------------------------
\* CheckAppends expects that the key has been put once, with an empty list.
Init ==
    /\ fn \in {"append", "put", "atleastonce"}
    /\ reliable \in BOOLEAN
    /\ forgot \in IF reliable THEN {"never", "not yet"} ELSE {"never"}
    /\ kv = IF fn = "append" THEN [val |-> <<>>, ver |-> 1] ELSE [val |-> None, ver |-> 0]
    /\ pc = [p \in Procs |-> IF p # Tester THEN "head"
                             ELSE IF fn = "atleastonce" THEN "start" ELSE "sleep"]
    /\ call = [p \in Procs |-> NoCall]
    /\ iter = [c \in Clients |-> 0]
    /\ ver = [p \in Procs |-> 0]
    /\ err = [c \in Clients |-> "none"]
    /\ res = [c \in Clients |-> NoRes]
    /\ total = NoRes
    /\ round = 1
    /\ oplog = IF fn = "append"
               THEN {[op |-> "put", val |-> <<>>, ver |-> 0, out |-> None,
                      err |-> "OK", start |-> 0, end |-> 1]}
               ELSE {}
    /\ verdict = "none"

TesterStep ==
    \/ Signal \/ Collect \/ Check \/ NextRound
    \/ AtLeastOncePut \/ AtLeastOncePutDone \/ CheckGet \/ AtLeastOnceEnd

ClientStep(c) ==
    \/ TakeDone(c)
    \/ AppendIter(c) \/ AppendGot(c) \/ AppendPut(c)
    \/ PutIter(c) \/ PutPut(c) \/ PutGot(c)

Next ==
    \/ TesterStep
    \/ \E c \in Clients : ClientStep(c)
    \/ \E p \in Procs : Serve(p) \/ Lose(p)

\* Goroutines run, and a Put that is sent again and again is answered: the network loses
\* each message with a probability below 1.  As every client's steps are bounded, it is
\* enough that some goroutine runs whenever one can, and that some request is served.
Fairness ==
    /\ SF_vars(TesterStep \/ \E c \in Clients : ClientStep(c))
    /\ WF_vars(\E p \in Procs : Serve(p))

Spec == Init /\ [][Next]_vars /\ Fairness

-----------------------------------------------------------------------------
(* Properties *)

\* A service that keeps its promises passes: neither a client nor the tester calls Fatalf,
\* and porcupine accepts the log, whatever requests and replies were lost, however the
\* clients were interleaved, and in every round.
NoFalseAlarm == forgot = "never" => \A p \in Procs : pc[p] # "fatal"

\* A test that passes, with a verdict of porcupine, has every Put that was acknowledged
\* with OK in the service: each one made a version of its own, and no append is missing
\* from the list.
LostPutsReported ==
    pc[Tester] = "passed" /\ verdict = "ok" =>
        LET acked == {o \in oplog : o.op = "put" /\ o.err = "OK"} IN
        /\ Cardinality({o.ver : o \in acked}) = Cardinality(acked)
        /\ \A o \in acked : o.ver < kv.ver
        /\ fn = "append" => \A o \in acked \ {q \in acked : q.val = <<>>} :
                                \E k \in DOMAIN kv.val : kv.val[k] = o.val[Len(o.val)]

\* With a service that keeps its promises, SpawnClientsAndWait gets a result from every
\* client ("a client runs the function f and then signals it is done"), and the test ends.
WaitReturns == forgot = "never" => <>(pc[Tester] = "passed" /\ verdict # "none")
=============================================================================
