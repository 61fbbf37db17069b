------------------------------- MODULE Labrpc -------------------------------
(***************************************************************************)
(* The simulated network of src/src/labrpc/labrpc.go.                      *)
(*                                                                         *)
(* Every Call() runs its own processReq goroutine; the goroutines share    *)
(* the Network's maps under rn.mu, and every critical section of rn.mu is  *)
(* one action.  readEndnameInfo copies what it reads, and processReq goes  *)
(* on with the copy, whatever the tester does to the maps meanwhile; the   *)
(* handler runs in a goroutine of its own, for as long as it likes.        *)
(*                                                                         *)
(* Delays are abstracted: a goroutine may pause before any step, which     *)
(* leaves longDelays without effect.  The statistics (rn.count, rn.bytes,  *)
(* rs.count) and the encoding of arguments and replies are left out.       *)
(***************************************************************************)
EXTENDS Integers, FiniteSets

CONSTANTS
    Calls,          \* the Call()s that are ever made
    Ends,           \* names of ClientEnds
    Names,          \* names of servers
    Nil,            \* the nil of a missing connection, server or end
    MaxServers      \* bound on the number of Server objects made

ASSUME NilAssumption == Nil \notin Names \cup Ends /\ Nil \notin Nat
ASSUME MaxServersAssumption == MaxServers \in Nat

VARIABLES
    reliable,       \* rn.reliable
    longReordering, \* rn.longReordering
    ends,           \* each ClientEnd: not made, in rn.ends, or deleted from it
    enabled,        \* rn.enabled: false for an end that does not exist
    connections,    \* rn.connections
    servers,        \* rn.servers: a Server object (a number) or Nil
    made,           \* the number of Server objects made so far
    done,           \* rn.done has been closed
    loop,           \* MakeNetwork's goroutine still receives from rn.endCh
    pc,             \* where each call is
    req,            \* the end a call is made on, and processReq's copies
    handler,        \* the handler goroutine of each call
    runs            \* how often the handler of a call has run

netVars  == <<reliable, longReordering, ends, enabled, connections, servers, made, done, loop>>
callVars == <<pc, req, handler, runs>>
vars     == <<netVars, callVars>>

Objects == 1..MaxServers

\* A call is made ("call"), accepted by the network ("sent"), found to reach a
\* server ("live") or not ("unreachable"), waits for its handler ("wait"), has a
\* reply ("got") or a dead server ("dead"), has its reply held back ("delayed"),
\* and returns.
Places == {"idle", "call", "sent", "live", "unreachable", "wait", "got", "dead", "delayed",
           "true", "false"}

Reqs == [end: Ends \cup {Nil}, name: Names \cup {Nil}, server: Objects \cup {Nil},
         reliable: BOOLEAN, longReordering: BOOLEAN]

NoReq == [end |-> Nil, name |-> Nil, server |-> Nil, reliable |-> TRUE, longReordering |-> FALSE]

-----------------------------------------------------------------------------
\* MakeNetwork
Init ==
    /\ reliable = TRUE /\ longReordering = FALSE
    /\ ends = [e \in Ends |-> "none"]
    /\ enabled = [e \in Ends |-> FALSE]
    /\ connections = [e \in Ends |-> Nil]
    /\ servers = [s \in Names |-> Nil]
    /\ made = 0
    /\ done = FALSE /\ loop = TRUE
    /\ pc = [c \in Calls |-> "idle"]
    /\ req = [c \in Calls |-> NoReq]
    /\ handler = [c \in Calls |-> "none"]
    /\ runs = [c \in Calls |-> 0]

-----------------------------------------------------------------------------
(* The tester reconfigures the network *)

Reliable(yes) ==
    /\ reliable' = yes
    /\ UNCHANGED <<longReordering, ends, enabled, connections, servers, made, done, loop,
                   callVars>>

LongReordering(yes) ==
    /\ longReordering' = yes
    /\ UNCHANGED <<reliable, ends, enabled, connections, servers, made, done, loop, callVars>>

\* MakeEnd of a name that exists, and DeleteEnd of one that does not, end the
\* process; the tester's names are fresh.
MakeEnd(e) ==
    /\ ends[e] # "in"
    /\ ends' = [ends EXCEPT ![e] = "in"]
    /\ enabled' = [enabled EXCEPT ![e] = FALSE]
    /\ connections' = [connections EXCEPT ![e] = Nil]
    /\ UNCHANGED <<reliable, longReordering, servers, made, done, loop, callVars>>

DeleteEnd(e) ==
    /\ ends[e] = "in"
    /\ ends' = [ends EXCEPT ![e] = "deleted"]
    /\ enabled' = [enabled EXCEPT ![e] = FALSE]
    /\ connections' = [connections EXCEPT ![e] = Nil]
    /\ UNCHANGED <<reliable, longReordering, servers, made, done, loop, callVars>>

\* Connect and Enable do not ask whether the end still exists.
Connect(e, s) ==
    /\ ends[e] # "none"
    /\ connections' = [connections EXCEPT ![e] = s]
    /\ UNCHANGED <<reliable, longReordering, ends, enabled, servers, made, done, loop, callVars>>

Enable(e, yes) ==
    /\ ends[e] # "none"
    /\ enabled' = [enabled EXCEPT ![e] = yes]
    /\ UNCHANGED <<reliable, longReordering, ends, connections, servers, made, done, loop,
                   callVars>>

\* MakeServer and AddServer: a Server object is never registered twice.
AddServer(s) ==
    /\ made < MaxServers
    /\ made' = made + 1
    /\ servers' = [servers EXCEPT ![s] = made + 1]
    /\ UNCHANGED <<reliable, longReordering, ends, enabled, connections, done, loop, callVars>>

DeleteServer(s) ==
    /\ servers' = [servers EXCEPT ![s] = Nil]
    /\ UNCHANGED <<reliable, longReordering, ends, enabled, connections, made, done, loop,
                   callVars>>

Cleanup ==
    /\ ~done
    /\ done' = TRUE
    /\ UNCHANGED <<reliable, longReordering, ends, enabled, connections, servers, made, loop,
                   callVars>>

\* MakeNetwork's goroutine sees rn.done.
LoopExits ==
    /\ done /\ loop
    /\ loop' = FALSE
    /\ UNCHANGED <<reliable, longReordering, ends, enabled, connections, servers, made, done,
                   callVars>>

-----------------------------------------------------------------------------
(* Call *)

Goto(c, place) == pc' = [pc EXCEPT ![c] = place]

\* Whoever holds a ClientEnd can call on it, a deleted one too.
Call(c, e) ==
    /\ pc[c] = "idle" /\ ends[e] # "none"
    /\ Goto(c, "call")
    /\ req' = [req EXCEPT ![c] = [NoReq EXCEPT !.end = e]]
    /\ UNCHANGED <<netVars, handler, runs>>

\* The select in Call: the network takes the request, or is gone.
Send(c) ==
    /\ pc[c] = "call" /\ loop
    /\ Goto(c, "sent")
    /\ UNCHANGED <<netVars, req, handler, runs>>

\* Mutant: Call only sends, and does not wait for e.done as well.
NetworkGoneIgnored(c) == FALSE /\ UNCHANGED vars

NetworkGone(c) ==
    /\ pc[c] = "call" /\ done
    /\ Goto(c, "false")
    /\ UNCHANGED <<netVars, req, handler, runs>>

-----------------------------------------------------------------------------
(* processReq *)

ReadEndnameInfo(c) ==
    LET e == req[c].end
        s == connections[e]
        o == IF s = Nil THEN Nil ELSE servers[s]
    IN  /\ pc[c] = "sent"
        /\ Goto(c, IF enabled[e] /\ o # Nil THEN "live" ELSE "unreachable")
        /\ req' = [req EXCEPT ![c] = [end |-> e, name |-> s, server |-> o,
                                      reliable |-> reliable, longReordering |-> longReordering]]
        /\ UNCHANGED <<netVars, handler, runs>>

\* Mutant: a call that reaches no server gets an empty reply.
TimeoutRepliesEmpty(c) ==
    /\ pc[c] = "unreachable"
    /\ Goto(c, "true")
    /\ UNCHANGED <<netVars, req, handler, runs>>

\* No server to reach: false, after a while.
Timeout(c) ==
    /\ pc[c] = "unreachable"
    /\ Goto(c, "false")
    /\ UNCHANGED <<netVars, req, handler, runs>>

DropRequest(c) ==
    /\ pc[c] = "live" /\ ~req[c].reliable
    /\ Goto(c, "false")
    /\ UNCHANGED <<netVars, req, handler, runs>>

\* Mutant: the request is dispatched again when the handler is slow.
DispatchAgain(c) ==
    /\ pc[c] \in {"live", "wait"}
    /\ Goto(c, "wait")
    /\ handler' = [handler EXCEPT ![c] = "running"]
    /\ UNCHANGED <<netVars, req, runs>>

\* Start the goroutine that runs server.dispatch.
Dispatch(c) ==
    /\ pc[c] = "live"
    /\ Goto(c, "wait")
    /\ handler' = [handler EXCEPT ![c] = "running"]
    /\ UNCHANGED <<netVars, req, runs>>

\* The handler runs and returns.  It does so on the Server object processReq has
\* copied, which may have been deleted.
Handle(c) ==
    /\ handler[c] = "running"
    /\ handler' = [handler EXCEPT ![c] = "returned"]
    /\ runs' = [runs EXCEPT ![c] = @ + 1]
    /\ UNCHANGED <<netVars, pc, req>>

\* isServerDead: the end is disabled, or another object, or none, has the name.
IsServerDead(c) == ~enabled[req[c].end] \/ servers[req[c].name] # req[c].server

ReceiveReply(c) ==
    /\ pc[c] = "wait" /\ handler[c] = "returned"
    /\ Goto(c, "got")
    /\ UNCHANGED <<netVars, req, handler, runs>>

\* Mutant: processReq waits for the handler alone.
PollDeadNever(c) == FALSE /\ UNCHANGED vars

\* Every 100ms while waiting.
PollDead(c) ==
    /\ pc[c] = "wait" /\ IsServerDead(c)
    /\ Goto(c, "dead")
    /\ UNCHANGED <<netVars, req, handler, runs>>

\* The wait has ended without a reply.
ReplyDead(c) ==
    /\ pc[c] = "dead"
    /\ Goto(c, "false")
    /\ UNCHANGED <<netVars, req, handler, runs>>

\* Mutant: the server is not checked again once there is a reply.
ReplyUnchecked(c) ==
    /\ pc[c] = "got"
    /\ Goto(c, "true")
    /\ UNCHANGED <<netVars, req, handler, runs>>

\* With a reply in hand: check the server again, then drop, delay or deliver.
Reply(c) ==
    /\ pc[c] = "got"
    /\ \/ IsServerDead(c) /\ Goto(c, "false")
       \/ ~IsServerDead(c) /\ ~req[c].reliable /\ Goto(c, "false")
       \/ ~IsServerDead(c) /\ req[c].longReordering /\ Goto(c, "delayed")
       \/ ~IsServerDead(c) /\ Goto(c, "true")
    /\ UNCHANGED <<netVars, req, handler, runs>>

\* The timer of a delayed reply fires; nothing is checked any more.
DelayedReply(c) ==
    /\ pc[c] = "delayed"
    /\ Goto(c, "true")
    /\ UNCHANGED <<netVars, req, handler, runs>>

-----------------------------------------------------------------------------
\* The tester's steps that are not about servers.
Configure ==
    \/ \E yes \in BOOLEAN : Reliable(yes) \/ LongReordering(yes)
    \/ \E e \in Ends : MakeEnd(e) \/ DeleteEnd(e)
    \/ \E e \in Ends, s \in Names : Connect(e, s)
    \/ \E e \in Ends, yes \in BOOLEAN : Enable(e, yes)
    \/ Cleanup

\* The steps of the goroutines of a call, but for its handler.
CallStep(c) ==
    \/ Send(c) \/ NetworkGone(c)
    \/ ReadEndnameInfo(c) \/ Timeout(c) \/ DropRequest(c) \/ Dispatch(c)
    \/ ReceiveReply(c) \/ PollDead(c) \/ ReplyDead(c) \/ Reply(c) \/ DelayedReply(c)

Next ==
    \/ Configure
    \/ \E s \in Names : AddServer(s) \/ DeleteServer(s)
    \/ LoopExits
    \/ \E c \in Calls : (\E e \in Ends : Call(c, e)) \/ CallStep(c) \/ Handle(c)

Spec == Init /\ [][Next]_vars

\* Goroutines are scheduled and timers fire; a handler need not return.
LiveSpec == Spec /\ WF_vars(LoopExits) /\ \A c \in Calls : WF_vars(CallStep(c))

-----------------------------------------------------------------------------
(* Properties *)

\* Every variable keeps its type, and a call that is past readEndnameInfo has the
\* server it was sent to.
TypeOK ==
    /\ reliable \in BOOLEAN /\ longReordering \in BOOLEAN
    /\ ends \in [Ends -> {"none", "in", "deleted"}]
    /\ enabled \in [Ends -> BOOLEAN]
    /\ connections \in [Ends -> Names \cup {Nil}]
    /\ servers \in [Names -> Objects \cup {Nil}]
    /\ made \in 0..MaxServers
    /\ done \in BOOLEAN /\ loop \in BOOLEAN
    /\ pc \in [Calls -> Places]
    /\ req \in [Calls -> Reqs]
    /\ handler \in [Calls -> {"none", "running", "returned"}]
    /\ runs \in [Calls -> 0..1]
    /\ \A c \in Calls : pc[c] \in {"live", "wait", "got", "dead", "delayed"} =>
          req[c].end \in Ends /\ req[c].name \in Names /\ req[c].server \in Objects

\* What Call() has returned.
Outcome == [c \in Calls |-> IF pc[c] \in {"true", "false"} THEN pc[c] ELSE "none"]

Abstract == INSTANCE AtMostOnceRpc WITH outcome <- Outcome

\* However the network is reconfigured under it, processReq implements the
\* at-most-once call: true means the handler ran, once, before Call() returned.
ImplementsAtMostOnce == Abstract!Spec

\* raft.go and labrpc.go promise that Call() "is guaranteed to return (perhaps after
\* a delay) except if the handler function on the server side does not return": a
\* call that never returns has a handler that does not, on a server that is alive
\* whenever processReq may look.
CallReturns ==
    \A c \in Calls :
        \/ []<>(pc[c] = "wait" /\ handler[c] = "running" /\ ~IsServerDead(c))
        \/ pc[c] # "idle" ~> pc[c] \in {"true", "false"}
=============================================================================
