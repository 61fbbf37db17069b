---------------------------- MODULE NetworkProofs ----------------------------
(***************************************************************************)
(* What the network and the Persisters guarantee for every number of       *)
(* calls, ends, server names, Server objects and restarts: the network's   *)
(* type invariant, that processReq implements the at-most-once call of     *)
(* AtMostOnceRpc, and that no update is lost in a restart.                 *)
(***************************************************************************)
EXTENDS ServerPersist, TLAPS

-----------------------------------------------------------------------------
(* The network *)

\* A call that has been made has an end.
HasEnd == \A c \in Calls : pc[c] # "idle" => req[c].end \in Ends

\* The places of a call that has not been dispatched, and of one that has had its reply.
Before  == {"idle", "call", "sent", "live", "unreachable"}
Replied == {"got", "delayed", "true"}

\* The handler of a call runs once, after the call was dispatched, and nothing is replied
\* before it has returned; a call whose handler still runs can only wait or give up.
HandledOnce ==
    \A c \in Calls :
        /\ runs[c] = IF handler[c] = "returned" THEN 1 ELSE 0
        /\ pc[c] \in Before => handler[c] = "none"
        /\ pc[c] \in Replied => handler[c] = "returned"

\* The inductive invariant.
Inv == TypeOK /\ HasEnd /\ HandledOnce

USE DEF netVars, callVars, Objects, Before, Replied

\* MakeNetwork's state.
LEMMA InitInv == Init => Inv
<1> SUFFICES ASSUME Init PROVE Inv
  OBVIOUS
<1>1. NoReq \in Reqs
  BY DEF NoReq, Reqs
<1>2. TypeOK
  <2>1. /\ reliable \in BOOLEAN /\ longReordering \in BOOLEAN
        /\ enabled \in [Ends -> BOOLEAN] /\ done \in BOOLEAN /\ loop \in BOOLEAN
    BY DEF Init
  <2>2. /\ ends \in [Ends -> {"none", "in", "deleted"}]
        /\ connections \in [Ends -> Names \cup {Nil}]
        /\ servers \in [Names -> Objects \cup {Nil}]
        /\ pc \in [Calls -> Places] /\ req \in [Calls -> Reqs]
        /\ handler \in [Calls -> {"none", "running", "returned"}]
    BY <1>1 DEF Init, Places
  <2>3. made \in 0..MaxServers /\ runs \in [Calls -> 0..1]
    BY MaxServersAssumption DEF Init
  <2>4. \A c \in Calls : pc[c] = "idle"
    BY DEF Init
  <2> QED BY <2>1, <2>2, <2>3, <2>4 DEF TypeOK
<1>3. HasEnd /\ HandledOnce
  BY DEF Init, HasEnd, HandledOnce
<1> QED BY <1>2, <1>3 DEF Inv

\* The tester's steps, and the end of the network's goroutine, leave the calls alone.
LEMMA TesterInv ==
  ASSUME Inv,
         Configure \/ LoopExits \/ \E s \in Names : AddServer(s) \/ DeleteServer(s)
  PROVE  Inv' /\ UNCHANGED callVars
<1> USE DEF Inv
<1>1. UNCHANGED callVars
  BY DEF Configure, Reliable, LongReordering, MakeEnd, DeleteEnd, Connect, Enable, Cleanup,
         LoopExits, AddServer, DeleteServer
<1>2. HasEnd' /\ HandledOnce'
  BY <1>1 DEF HasEnd, HandledOnce
<1>3. TypeOK'
  <2>1. CASE Configure
    BY <2>1, <1>1 DEF TypeOK, Configure, Reliable, LongReordering, MakeEnd, DeleteEnd, Connect,
                 Enable, Cleanup
  <2>2. CASE LoopExits
    BY <2>2, <1>1 DEF TypeOK, LoopExits
  <2>3. CASE \E s \in Names : AddServer(s)
    BY <2>3, <1>1, MaxServersAssumption DEF TypeOK, AddServer
  <2>4. CASE \E s \in Names : DeleteServer(s)
    BY <2>4, <1>1 DEF TypeOK, DeleteServer
  <2> QED BY <2>1, <2>2, <2>3, <2>4
<1> QED BY <1>1, <1>2, <1>3

\* A call is made, or leaves the network before its handler is started.
LEMMA RequestInv ==
  ASSUME Inv, NEW c \in Calls,
         \/ \E e \in Ends : Call(c, e)
         \/ Send(c) \/ NetworkGone(c) \/ Timeout(c) \/ DropRequest(c)
  PROVE  Inv'
<1> USE DEF Inv, Goto
<1>1. ASSUME NEW e \in Ends, Call(c, e) PROVE Inv'
  <2> DEFINE r == [NoReq EXCEPT !.end = e]
  <2>1. r \in Reqs /\ r.end = e
    BY DEF NoReq, Reqs
  <2>2. req' = [req EXCEPT ![c] = r]
    BY <1>1 DEF Call
  <2> HIDE DEF r
  <2>3. TypeOK'
    BY <1>1, <2>1, <2>2 DEF Call, TypeOK, Places
  <2>4. HasEnd' /\ HandledOnce'
    BY <1>1, <2>1, <2>2 DEF Call, TypeOK, HasEnd, HandledOnce
  <2> QED BY <2>3, <2>4
<1>2. CASE Send(c) \/ NetworkGone(c) \/ Timeout(c) \/ DropRequest(c)
  BY <1>2 DEF Send, NetworkGone, Timeout, DropRequest, TypeOK, HasEnd, HandledOnce, Places
<1> QED BY <1>1, <1>2

\* processReq reads the tables: a call that it finds a server for has copies of the three.
LEMMA ReadEndnameInfoInv ==
  ASSUME Inv, NEW c \in Calls, ReadEndnameInfo(c)
  PROVE  Inv'
<1> USE DEF Inv, Goto
<1> DEFINE e == req[c].end
           s == connections[e]
           o == IF s = Nil THEN Nil ELSE servers[s]
<1>1. e \in Ends
  BY DEF ReadEndnameInfo, HasEnd
<1>2. /\ s \in Names \cup {Nil} /\ o \in Objects \cup {Nil}
      /\ o # Nil => s \in Names /\ o \in Objects
  BY <1>1, NilAssumption DEF TypeOK
<1>3. TypeOK'
  <2> DEFINE r == [end |-> e, name |-> s, server |-> o, reliable |-> reliable,
                   longReordering |-> longReordering]
             p == IF enabled[e] /\ o # Nil THEN "live" ELSE "unreachable"
  <2>1. r \in Reqs
    BY <1>1, <1>2 DEF Reqs, TypeOK
  <2>2. /\ req' = [req EXCEPT ![c] = r]
        /\ pc' = [pc EXCEPT ![c] = p]
    BY DEF ReadEndnameInfo
  <2>3. r.end = e /\ r.name = s /\ r.server = o
    OBVIOUS
  <2> HIDE DEF r
  <2>4. req' \in [Calls -> Reqs] /\ pc' \in [Calls -> Places]
    BY <2>1, <2>2 DEF TypeOK, Places
  <2>5. \A d \in Calls : pc'[d] \in {"live", "wait", "got", "dead", "delayed"} =>
           req'[d].end \in Ends /\ req'[d].name \in Names /\ req'[d].server \in Objects
    BY <1>1, <1>2, <2>2, <2>3 DEF TypeOK
  <2> QED BY <2>4, <2>5 DEF TypeOK, ReadEndnameInfo
<1>4. HasEnd' /\ HandledOnce'
  BY <1>1 DEF ReadEndnameInfo, TypeOK, HasEnd, HandledOnce
<1> QED BY <1>3, <1>4

\* The handler is started, and runs.
LEMMA HandlerInv ==
  ASSUME Inv, NEW c \in Calls, Dispatch(c) \/ Handle(c)
  PROVE  Inv'
<1> USE DEF Inv, Goto
<1>1. CASE Dispatch(c)
  BY <1>1 DEF Dispatch, TypeOK, HasEnd, HandledOnce, Places
<1>2. CASE Handle(c)
  BY <1>2 DEF Handle, TypeOK, HasEnd, HandledOnce
<1> QED BY <1>1, <1>2

\* The reply of a handler is waited for, checked and delivered.
LEMMA ReplyInv ==
  ASSUME Inv, NEW c \in Calls,
         ReceiveReply(c) \/ PollDead(c) \/ ReplyDead(c) \/ Reply(c) \/ DelayedReply(c)
  PROVE  Inv'
<1> USE DEF Inv, Goto
<1>1. PICK p \in Places :
         /\ pc' = [pc EXCEPT ![c] = p]
         /\ p \notin Before
         /\ pc[c] \in {"wait", "got", "dead", "delayed"}
         /\ p \in Replied => handler[c] = "returned"
  BY DEF ReceiveReply, PollDead, ReplyDead, Reply, DelayedReply, HandledOnce, Places
<1>2. UNCHANGED <<netVars, req, handler, runs>>
  BY DEF ReceiveReply, PollDead, ReplyDead, Reply, DelayedReply
<1>3. TypeOK'
  BY <1>1, <1>2 DEF TypeOK
<1>4. HasEnd' /\ HandledOnce'
  BY <1>1, <1>2 DEF TypeOK, HasEnd, HandledOnce
<1> QED BY <1>3, <1>4

\* Every step keeps the invariant.
LEMMA NextInv == Inv /\ [Next]_vars => Inv'
<1> SUFFICES ASSUME Inv, [Next]_vars PROVE Inv'
  OBVIOUS
<1>1. CASE UNCHANGED vars
  BY <1>1 DEF vars, Inv, TypeOK, HasEnd, HandledOnce
<1>2. CASE Next
  BY <1>2, TesterInv, RequestInv, ReadEndnameInfoInv, HandlerInv, ReplyInv DEF Next, CallStep
<1> QED BY <1>1, <1>2

\* The invariant holds in every reachable state.
LEMMA InvHolds == Spec => []Inv
  BY InitInv, NextInv, PTL DEF Spec

\* Every variable keeps its type, and processReq never goes on without a server.
THEOREM TypeCorrect == Spec => []TypeOK
<1>1. Inv => TypeOK
  BY DEF Inv
<1> QED BY <1>1, InvHolds, PTL

-----------------------------------------------------------------------------
(* The refinement *)

\* A step of a call from a place that has not returned changes its outcome alone.
LEMMA GotoOutcome ==
  ASSUME pc \in [Calls -> Places], NEW c \in Calls, NEW p \in Places, Goto(c, p)
  PROVE  Outcome' = [Outcome EXCEPT ![c] = IF p \in {"true", "false"} THEN p ELSE "none"]
  BY DEF Goto, Outcome

\* A step that keeps a call from returning, and its handler from running, is not seen.
LEMMA InternalStep ==
  ASSUME Inv, NEW c \in Calls,
         \/ \E e \in Ends : Call(c, e)
         \/ Send(c) \/ ReadEndnameInfo(c) \/ Dispatch(c) \/ ReceiveReply(c) \/ PollDead(c)
         \/ Reply(c) /\ Goto(c, "delayed")
  PROVE  UNCHANGED <<runs, Outcome>>
<1>1. PICK p \in Places \ {"true", "false"} : Goto(c, p) /\ pc[c] \notin {"true", "false"}
  BY DEF Call, Send, ReadEndnameInfo, Dispatch, ReceiveReply, PollDead, Reply, Places
<1>2. Outcome' = [Outcome EXCEPT ![c] = "none"]
  BY <1>1, GotoOutcome DEF Inv, TypeOK
<1>3. Outcome[c] = "none"
  BY <1>1 DEF Outcome
<1>4. UNCHANGED runs
  BY DEF Call, Send, ReadEndnameInfo, Dispatch, ReceiveReply, PollDead, Reply
<1> QED BY <1>2, <1>3, <1>4 DEF Outcome

\* A call that gives up returns false, whatever its handler has done.
LEMMA FalseStep ==
  ASSUME Inv, NEW c \in Calls,
         \/ NetworkGone(c) \/ Timeout(c) \/ DropRequest(c) \/ ReplyDead(c)
         \/ Reply(c) /\ Goto(c, "false")
  PROVE  Abstract!ReturnFalse(c)
<1>1. Goto(c, "false") /\ pc[c] \notin {"true", "false"} /\ UNCHANGED runs
  BY DEF NetworkGone, Timeout, DropRequest, ReplyDead, Reply
<1>2. Outcome' = [Outcome EXCEPT ![c] = "false"]
  BY <1>1, GotoOutcome DEF Inv, TypeOK, Places
<1> QED BY <1>1, <1>2 DEF Abstract!ReturnFalse, Outcome

\* A reply is delivered after its handler ran, and ran once.
LEMMA TrueStep ==
  ASSUME Inv, NEW c \in Calls, DelayedReply(c) \/ (Reply(c) /\ Goto(c, "true"))
  PROVE  Abstract!ReturnTrue(c)
<1>1. Goto(c, "true") /\ pc[c] \in {"got", "delayed"} /\ UNCHANGED runs
  BY DEF DelayedReply, Reply
<1>2. Outcome' = [Outcome EXCEPT ![c] = "true"]
  BY <1>1, GotoOutcome DEF Inv, TypeOK, Places
<1>3. runs[c] = 1
  BY <1>1 DEF Inv, HandledOnce
<1> QED BY <1>1, <1>2, <1>3 DEF Abstract!ReturnTrue, Outcome

\* A handler runs for the first time, for a call that has not returned true.
LEMMA RunStep ==
  ASSUME Inv, NEW c \in Calls, Handle(c)
  PROVE  Abstract!Run(c)
<1>1. runs[c] = 0 /\ pc[c] # "true"
  BY DEF Inv, HandledOnce, Handle
<1>2. runs' = [runs EXCEPT ![c] = 1] /\ UNCHANGED Outcome
  BY <1>1 DEF Handle, Outcome
<1> QED BY <1>1, <1>2 DEF Abstract!Run, Outcome

\* Every step of the network is a step of the at-most-once call, or is not seen.
LEMMA StepRefines ==
  Inv /\ [Next]_vars => [Abstract!Next]_<<runs, Outcome>>
<1> SUFFICES ASSUME Inv, [Next]_vars
             PROVE  Abstract!Next \/ UNCHANGED <<runs, Outcome>>
  OBVIOUS
<1>1. CASE UNCHANGED callVars
  BY <1>1 DEF Outcome
<1>2. CASE \E c \in Calls : (\E e \in Ends : Call(c, e)) \/ CallStep(c) \/ Handle(c)
  <2>1. PICK c \in Calls : (\E e \in Ends : Call(c, e)) \/ CallStep(c) \/ Handle(c)
    BY <1>2
  <2>2. CASE \/ \E e \in Ends : Call(c, e)
             \/ Send(c) \/ ReadEndnameInfo(c) \/ Dispatch(c) \/ ReceiveReply(c) \/ PollDead(c)
    BY <2>2, InternalStep
  <2>3. CASE NetworkGone(c) \/ Timeout(c) \/ DropRequest(c) \/ ReplyDead(c)
    BY <2>3, FalseStep DEF Abstract!Next
  <2>4. CASE Reply(c)
    <3>1. Goto(c, "false") \/ Goto(c, "delayed") \/ Goto(c, "true")
      BY <2>4 DEF Reply
    <3> QED BY <2>4, <3>1, InternalStep, FalseStep, TrueStep DEF Abstract!Next
  <2>5. CASE DelayedReply(c)
    BY <2>5, TrueStep DEF Abstract!Next
  <2>6. CASE Handle(c)
    BY <2>6, RunStep DEF Abstract!Next
  <2> QED BY <2>1, <2>2, <2>3, <2>4, <2>5, <2>6 DEF CallStep
<1> QED BY <1>1, <1>2, TesterInv DEF Next, vars

\* However the tester reconfigures the network under its calls, and for any number of calls,
\* processReq implements the at-most-once call: a handler runs at most once, and Call()
\* returns true only after it ran.
THEOREM Refinement == Spec => ImplementsAtMostOnce
<1>1. Init => Abstract!Init
  BY DEF Init, Abstract!Init, Outcome
<1> QED BY <1>1, StepRefines, InvHolds, PTL DEF Spec, ImplementsAtMostOnce, Abstract!Spec

-----------------------------------------------------------------------------
(* Servers and their Persisters *)

TypeP ==
    /\ phase \in [Names -> {"down", "starting", "up", "stopping"}]
    /\ heap \in [Persisters -> SUBSET Calls]
    /\ saved \in [Names -> Persisters \cup {Nil}]
    /\ holds \in [Objects -> Persisters \cup {Nil}]
    /\ copies \in 0..2 * MaxServers

\* The tester keeps a Persister of its own for each name, from the first start on.
Kept ==
    /\ \A s \in Names : saved[s] \in 1..copies \cup {Nil}
    /\ \A s \in Names : saved[s] = Nil => phase[s] = "down"
    /\ \A s, t \in Names : saved[s] = saved[t] /\ s # t => saved[s] = Nil

\* Every server that was made has a Persister, and the one that is registered writes to the
\* Persister that the tester keeps for its name.
Started ==
    /\ \A o \in 1..made : holds[o] \in 1..copies
    /\ \A s \in Names : servers[s] # Nil =>
          phase[s] = "up" /\ servers[s] \in 1..made /\ holds[servers[s]] = saved[s]

\* No server, however late its handlers run, writes to what the next one starts from.
Parted ==
    \A s \in Names : phase[s] \in {"down", "starting"} =>
        \A o \in 1..made : holds[o] # saved[s]

\* A call is handled by a server that was made.
Sent ==
    \A c \in Calls : pc[c] = "live" \/ handler[c] # "none" =>
        req[c].name \in Names /\ req[c].server \in 1..made

\* A handler that has returned has saved its update.
Written == \A c \in Calls : handler[c] = "returned" => c \in heap[holds[req[c].server]]

\* The inductive invariant, beside Labrpc's.
InvP == TypeP /\ Kept /\ Started /\ Parted /\ Sent /\ Written /\ AcknowledgedSurvives

USE DEF netVars, callVars, persistVars, Objects, Persisters

-----------------------------------------------------------------------------
(* Labrpc's invariant *)

\* The steps of the tester and of the handlers are steps of the network.
LEMMA StepOfLabrpc == [NextP]_<<vars, persistVars>> => [Next]_vars
  BY DEF NextP, Next, vars, StartServer, RegisterServer, UnregisterServer, ShutdownServer,
         HandleAndSave

\* So what the network guarantees holds here too.
LEMMA LabrpcHolds == SpecP => []Inv
<1>1. InitP => Init
  BY DEF InitP
<1> QED BY <1>1, StepOfLabrpc, InitInv, NextInv, PTL DEF SpecP

-----------------------------------------------------------------------------
(* The Persisters *)

\* Before the first server is started.
LEMMA InitInvP == InitP => InvP
  BY NilAssumption, MaxServersAssumption
     DEF InitP, Init, InvP, TypeP, Kept, Started, Parted, Sent, Written, AcknowledgedSurvives

\* A step that leaves the Persisters, the servers and the handlers alone.
LEMMA NetworkInv ==
  ASSUME Inv, InvP, UNCHANGED <<persistVars, servers, made, callVars>>
  PROVE  InvP'
  BY DEF InvP, TypeP, Kept, Started, Parted, Sent, Written, AcknowledgedSurvives, Content

\* A copy is fresh, has the content of what it is a copy of, and leaves the others alone.
LEMMA FreshCopyFacts ==
  ASSUME InvP, NEW s \in Names, FreshCopy(s)
  PROVE  /\ copies + 1 \in Persisters /\ copies' = copies + 1
         /\ saved'[s] = copies + 1
         /\ \A t \in Names : t # s => saved'[t] = saved[t]
         /\ heap' \in [Persisters -> SUBSET Calls]
         /\ saved' \in [Names -> Persisters \cup {Nil}]
         /\ \A p \in 1..copies : heap'[p] = heap[p]
         /\ \A t \in Names : Content(t)' = Content(t)
<1>1. copies + 1 \in Persisters /\ copies' = copies + 1 /\ copies \in Nat
  BY MaxServersAssumption DEF InvP, TypeP, FreshCopy
<1>2. Content(s) \in SUBSET Calls
  BY DEF Content, InvP, TypeP
<1>3. /\ heap' \in [Persisters -> SUBSET Calls]
      /\ saved' \in [Names -> Persisters \cup {Nil}]
  BY <1>1, <1>2 DEF FreshCopy, InvP, TypeP
<1>4. /\ saved'[s] = copies + 1
      /\ \A t \in Names : t # s => saved'[t] = saved[t]
      /\ heap'[copies + 1] = Content(s)
      /\ \A p \in 1..copies : heap'[p] = heap[p]
  BY <1>1 DEF FreshCopy, InvP, TypeP
<1>5. ASSUME NEW t \in Names PROVE Content(t)' = Content(t)
  <2>1. CASE t = s
    BY <2>1, <1>1, <1>4, NilAssumption DEF Content
  <2>2. CASE t # s
    BY <2>2, <1>4 DEF Content, InvP, Kept
  <2> QED BY <2>1, <2>2
<1> QED BY <1>1, <1>3, <1>4, <1>5

\* StartServer and shutdownServer: the tester moves to a copy of its own.
LEMMA CopyInv ==
  ASSUME Inv, InvP, NEW s \in Names, StartServer(s) \/ ShutdownServer(s)
  PROVE  InvP'
<1>1. FreshCopy(s) /\ UNCHANGED <<vars, holds>>
  BY DEF StartServer, ShutdownServer
<1>2. PICK q \in {"starting", "down"} : phase' = [phase EXCEPT ![s] = q]
  BY DEF StartServer, ShutdownServer
<1>3. servers[s] = Nil
  BY DEF StartServer, ShutdownServer, InvP, Started
<1> USE FreshCopyFacts, <1>1
<1>4. copies \in Nat /\ made \in Nat
  BY MaxServersAssumption DEF InvP, TypeP, Inv, TypeOK
<1>5. TypeP'
  <2>1. copies' \in 0..2 * MaxServers
    BY <1>4, MaxServersAssumption
  <2>2. phase' \in [Names -> {"down", "starting", "up", "stopping"}]
    BY <1>2 DEF InvP, TypeP
  <2> QED BY <2>1, <2>2 DEF InvP, TypeP
<1>6. Kept'
  BY <1>2, <1>4, NilAssumption DEF InvP, TypeP, Kept
<1>7. Started'
  BY <1>2, <1>3, <1>4 DEF InvP, TypeP, Started, vars
<1>8. Parted'
  BY <1>2, <1>4 DEF InvP, TypeP, Parted, Started, vars
<1>9. Sent' /\ Written'
  BY <1>4 DEF InvP, Sent, Written, Started, vars
<1>10. AcknowledgedSurvives'
  <2> SUFFICES ASSUME NEW c \in Calls, pc[c] \in {"true", "delayed"}
               PROVE  c \in Content(req[c].name)'
    BY DEF AcknowledgedSurvives, vars
  <2>1. req[c].name \in Names
    BY DEF InvP, Sent, Inv, HandledOnce, Replied
  <2> QED BY <2>1 DEF InvP, AcknowledgedSurvives, vars
<1> QED BY <1>5, <1>6, <1>7, <1>8, <1>9, <1>10 DEF InvP

\* The end of StartServer: the new server writes to the tester's Persister.
LEMMA RegisterInv ==
  ASSUME Inv, InvP, NEW s \in Names, RegisterServer(s)
  PROVE  InvP'
<1> USE DEF RegisterServer, AddServer
<1>1. /\ copies \in Nat /\ made \in Nat /\ made + 1 \in Objects
      /\ saved[s] \in 1..copies
      /\ servers \in [Names -> Objects \cup {Nil}]
  BY MaxServersAssumption, NilAssumption DEF InvP, TypeP, Inv, TypeOK, Kept
<1>2. /\ holds'[made + 1] = saved[s]
      /\ \A o \in 1..made : holds'[o] = holds[o]
  BY <1>1 DEF InvP, TypeP
<1>3. TypeP' /\ Kept'
  BY <1>1 DEF InvP, TypeP, Kept
<1>4. Started'
  <2>1. \A o \in 1..made' : holds'[o] \in 1..copies'
    BY <1>1, <1>2 DEF InvP, Started
  <2>2. ASSUME NEW t \in Names, servers'[t] # Nil
        PROVE  phase'[t] = "up" /\ servers'[t] \in 1..made' /\ holds'[servers'[t]] = saved'[t]
    BY <2>2, <1>1, <1>2 DEF InvP, TypeP, Started
  <2> QED BY <2>1, <2>2 DEF Started
<1>5. Parted'
  <2> SUFFICES ASSUME NEW t \in Names, phase'[t] \in {"down", "starting"}, NEW o \in 1..made'
               PROVE  holds'[o] # saved[t]
    BY DEF Parted
  <2>1. t # s /\ phase[t] \in {"down", "starting"}
    BY DEF InvP, TypeP
  <2>2. CASE o = made + 1
    BY <2>1, <2>2, <1>1, <1>2, NilAssumption DEF InvP, Kept
  <2>3. CASE o \in 1..made
    BY <2>1, <2>3, <1>2 DEF InvP, Parted
  <2> QED BY <2>2, <2>3, <1>1
<1>6. Sent' /\ Written'
  BY <1>1, <1>2 DEF InvP, Sent, Written
<1>7. AcknowledgedSurvives'
  BY DEF InvP, AcknowledgedSurvives, Content
<1> QED BY <1>3, <1>4, <1>5, <1>6, <1>7 DEF InvP

\* ShutdownServer deletes the server.
LEMMA UnregisterInv ==
  ASSUME Inv, InvP, NEW s \in Names, UnregisterServer(s)
  PROVE  InvP'
  BY DEF UnregisterServer, DeleteServer, Inv, TypeOK, InvP, TypeP, Kept, Started, Parted,
         Sent, Written, AcknowledgedSurvives, Content

\* A handler writes to the Persister of its server, which the tester may have left behind.
LEMMA HandleInv ==
  ASSUME Inv, InvP, NEW c \in Calls, HandleAndSave(c)
  PROVE  InvP'
<1> USE DEF HandleAndSave, Handle
<1> DEFINE p == holds[req[c].server]
<1>1. p \in 1..copies /\ p \in Persisters /\ heap'[p] = heap[p] \cup {c}
  BY MaxServersAssumption DEF InvP, TypeP, Sent, Started
<1>2. \A q \in Persisters : heap[q] \subseteq heap'[q]
  BY <1>1 DEF InvP, TypeP
<1>3. TypeP' /\ Kept' /\ Started' /\ Parted'
  BY <1>1 DEF InvP, TypeP, Kept, Started, Parted
<1>4. Sent'
  BY DEF InvP, Sent, Inv, TypeOK
<1>5. Written'
  <2> SUFFICES ASSUME NEW d \in Calls, handler'[d] = "returned"
               PROVE  d \in heap'[holds[req[d].server]]
    BY DEF Written
  <2>1. CASE d = c
    BY <2>1, <1>1
  <2>2. CASE d # c
    <3>1. handler[d] = "returned"
      BY <2>2 DEF Inv, TypeOK
    <3>2. holds[req[d].server] \in Persisters
      BY <3>1, MaxServersAssumption DEF InvP, TypeP, Sent, Started
    <3> QED BY <1>2, <3>1, <3>2 DEF InvP, Written
  <2> QED BY <2>1, <2>2
<1>6. AcknowledgedSurvives'
  <2> SUFFICES ASSUME NEW d \in Calls, pc[d] \in {"true", "delayed"}
               PROVE  d \in Content(req[d].name)'
    BY DEF AcknowledgedSurvives
  <2>1. req[d].name \in Names /\ d \in Content(req[d].name)
    BY DEF InvP, Sent, AcknowledgedSurvives, Inv, HandledOnce, Replied
  <2> QED BY <2>1, <1>2 DEF Content, InvP, TypeP
<1> QED BY <1>3, <1>4, <1>5, <1>6 DEF InvP

\* processReq delivers a reply only while the server that gave it is registered, and then the
\* tester's Persister has the update; it sends no request to a server that was never made.
LEMMA CallInv ==
  ASSUME Inv, InvP, NEW c \in Calls, (\E e \in Ends : Call(c, e)) \/ CallStep(c),
         UNCHANGED persistVars
  PROVE  InvP'
<1>1. UNCHANGED netVars /\ UNCHANGED runs
  BY DEF CallStep, Call, Send, NetworkGone, ReadEndnameInfo, Timeout, DropRequest, Dispatch,
         ReceiveReply, PollDead, ReplyDead, Reply, DelayedReply
<1>2. TypeP' /\ Kept' /\ Started' /\ Parted'
  BY <1>1 DEF InvP, TypeP, Kept, Started, Parted
<1>3. PICK q : Goto(c, q)
  BY DEF CallStep, Call, Send, NetworkGone, ReadEndnameInfo, Timeout, DropRequest, Dispatch,
         ReceiveReply, PollDead, ReplyDead, Reply, DelayedReply
<1>4. Content(req[c].name)' = Content(req'[c].name) /\ \A s \in Names : Content(s)' = Content(s)
  BY DEF Content
<1>5. CASE ReadEndnameInfo(c)
  <2> DEFINE e == req[c].end
             s == connections[e]
  <2>1. e \in Ends
    BY <1>5 DEF Inv, HasEnd, ReadEndnameInfo
  <2>2. handler[c] = "none"
    BY <1>5 DEF Inv, HandledOnce, Before, ReadEndnameInfo
  <2>3. pc'[c] = "live" => req'[c].name \in Names /\ req'[c].server \in 1..made
    BY <1>5, <2>1, NilAssumption DEF ReadEndnameInfo, Goto, Inv, TypeOK, InvP, Started
  <2>4. pc'[c] \in {"live", "unreachable"}
    BY <1>5, <2>1 DEF ReadEndnameInfo, Goto, Inv, TypeOK
  <2>5. Sent' /\ Written'
    BY <1>1, <1>5, <2>2, <2>3 DEF ReadEndnameInfo, Goto, Inv, TypeOK, InvP, Sent, Written
  <2>6. AcknowledgedSurvives'
    BY <1>5, <2>4 DEF ReadEndnameInfo, Goto, Inv, TypeOK, InvP, AcknowledgedSurvives, Content
  <2> QED BY <1>2, <2>5, <2>6 DEF InvP
<1>6. CASE \E e \in Ends : Call(c, e)
  <2>1. handler[c] = "none" /\ pc'[c] = "call"
    BY <1>6 DEF Call, Goto, Inv, TypeOK, HandledOnce, Before
  <2>2. Sent' /\ Written' /\ AcknowledgedSurvives'
    BY <1>1, <1>6, <2>1 DEF Call, Goto, Inv, TypeOK, InvP, Sent, Written, AcknowledgedSurvives,
                            Content
  <2> QED BY <1>2, <2>2 DEF InvP
<1>7. CASE Dispatch(c)
  BY <1>1, <1>2, <1>7 DEF Dispatch, Goto, Inv, TypeOK, InvP, Sent, Written,
                          AcknowledgedSurvives, Content
<1>8. CASE Reply(c) /\ ~IsServerDead(c) /\ Goto(c, q)
  <2>1. handler[c] = "returned"
    BY <1>8 DEF Reply, Inv, HandledOnce, Replied
  <2>2. req[c].name \in Names /\ req[c].server \in 1..made
    BY <2>1 DEF InvP, Sent
  <2>3. servers[req[c].name] = req[c].server /\ req[c].server # Nil
    BY <1>8, <2>2, NilAssumption DEF IsServerDead, Inv, TypeOK
  <2>4. saved[req[c].name] = holds[req[c].server] /\ saved[req[c].name] # Nil
    BY <2>2, <2>3, NilAssumption DEF InvP, Started
  <2>5. c \in Content(req[c].name)
    BY <2>1, <2>4 DEF InvP, Written, Content
  <2>6. UNCHANGED <<req, handler>> /\ q # "live"
    BY <1>8 DEF Reply, Goto, Inv, TypeOK
  <2>7. Sent' /\ Written'
    BY <1>1, <1>8, <2>6 DEF Goto, Inv, TypeOK, InvP, Sent, Written
  <2>8. AcknowledgedSurvives'
    BY <1>8, <2>5, <2>6 DEF Goto, Inv, TypeOK, InvP, AcknowledgedSurvives, Content
  <2> QED BY <1>2, <2>7, <2>8 DEF InvP
<1>9. CASE /\ \/ Send(c) \/ NetworkGone(c) \/ Timeout(c) \/ DropRequest(c) \/ ReceiveReply(c)
              \/ PollDead(c) \/ ReplyDead(c) \/ DelayedReply(c)
              \/ Reply(c) /\ IsServerDead(c)
  <2>1. /\ UNCHANGED <<req, handler>>
        /\ pc'[c] # "live"
        /\ pc'[c] \in {"true", "delayed"} => pc[c] = "delayed"
    BY <1>9 DEF Send, NetworkGone, Timeout, DropRequest, ReceiveReply, PollDead, ReplyDead,
                DelayedReply, Reply, Goto, Inv, TypeOK
  <2>2. \A d \in Calls : d # c => pc'[d] = pc[d]
    BY <1>3 DEF Goto, Inv, TypeOK
  <2>3. Sent' /\ Written'
    BY <1>1, <2>1, <2>2 DEF InvP, Sent, Written
  <2>4. AcknowledgedSurvives'
    BY <2>1, <2>2 DEF InvP, AcknowledgedSurvives, Content
  <2> QED BY <1>2, <2>3, <2>4 DEF InvP
<1> QED BY <1>3, <1>5, <1>6, <1>7, <1>8, <1>9 DEF CallStep

\* Every step keeps the invariant.
LEMMA NextInvP == Inv /\ InvP /\ [NextP]_<<vars, persistVars>> => InvP'
<1> SUFFICES ASSUME Inv, InvP, [NextP]_<<vars, persistVars>> PROVE InvP'
  OBVIOUS
<1>1. CASE UNCHANGED <<vars, persistVars>>
  BY <1>1, NetworkInv DEF vars
<1>2. CASE (Configure \/ LoopExits) /\ UNCHANGED persistVars
  <2>1. UNCHANGED <<servers, made, callVars>>
    BY <1>2 DEF Configure, Reliable, LongReordering, MakeEnd, DeleteEnd, Connect, Enable,
                Cleanup, LoopExits
  <2> QED BY <1>2, <2>1, NetworkInv
<1>3. CASE NextP /\ ~((Configure \/ LoopExits) /\ UNCHANGED persistVars)
  BY <1>3, CopyInv, RegisterInv, UnregisterInv, HandleInv, CallInv DEF NextP
<1> QED BY <1>1, <1>2, <1>3

\* The invariant holds in every reachable state.
LEMMA InvPHolds == SpecP => []InvP
  BY InitInvP, NextInvP, LabrpcHolds, PTL DEF SpecP

\* However often a server is shut down and restarted, an update whose caller got a positive
\* reply is in the Persister that the server's next instance starts from.
THEOREM AckedSurvives == SpecP => []AcknowledgedSurvives
<1>1. InvP => AcknowledgedSurvives
  BY DEF InvP
<1> QED BY <1>1, InvPHolds, PTL

\* While a server is down, handlers of its old instances change nothing of what its next
\* instance starts from.
THEOREM DownIsFrozen == SpecP => FrozenWhileDown
<1> DEFINE A == \A s \in Names : phase[s] = "down" /\ phase'[s] = "down"
                                   => Content(s)' = Content(s)
<1>1. Inv /\ InvP /\ [NextP]_<<vars, persistVars>> => [A]_<<vars, persistVars>>
  <2> SUFFICES ASSUME Inv, InvP, NextP, NEW s \in Names, phase[s] = "down", phase'[s] = "down"
               PROVE  Content(s)' = Content(s)
    OBVIOUS
  <2>1. CASE UNCHANGED <<heap, saved>>
    BY <2>1 DEF Content
  <2>2. CASE \E t \in Names : FreshCopy(t)
    BY <2>2, FreshCopyFacts
  <2>3. ASSUME NEW c \in Calls, HandleAndSave(c) PROVE Content(s)' = Content(s)
    <3>1. holds[req[c].server] # saved[s] /\ saved' = saved
      BY <2>3 DEF HandleAndSave, Handle, InvP, Sent, Parted
    <3>2. saved[s] # Nil => heap'[saved[s]] = heap[saved[s]]
      BY <2>3, <3>1 DEF HandleAndSave, InvP, TypeP
    <3> QED BY <3>1, <3>2 DEF Content
  <2> QED BY <2>1, <2>2, <2>3 DEF NextP, StartServer, RegisterServer, UnregisterServer,
                                  ShutdownServer
<1> QED BY <1>1, LabrpcHolds, InvPHolds, PTL DEF SpecP, FrozenWhileDown
=============================================================================
