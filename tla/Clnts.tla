------------------------------- MODULE Clnts -------------------------------
(***************************************************************************)
(* The end points of clerks: src/src/tester1/clnts.go, and the order in    *)
(* which Config.Cleanup of src/src/tester1/config.go takes a test down.    *)
(*                                                                         *)
(* A clerk's goroutine makes an end to a server with its first call, while *)
(* the test connects, disconnects and deletes the clerk; clnt.mu makes     *)
(* each of these one action.  The end of clerk c to server s is named      *)
(* <<c, s>>: a clerk makes at most one, and Randstring does not repeat.    *)
(***************************************************************************)
EXTENDS Naturals, FiniteSets

CONSTANTS
    Clerks,     \* the Clnt objects that a test may make
    Servers     \* all servers that a test starts

VARIABLES
    ends,           \* clnt.ends: the servers for which a clerk has made an end
    srvs,           \* clnt.srvs; nil, which allows every server, is the set of all
    made,           \* the clerks that MakeClientTo has returned
    clerks,         \* clnts.clerks
    stage,          \* how far Config.Cleanup is
    toRemove,       \* the clerks that the loop of clnts.cleanup has not come to
    rnEnds,         \* rn.ends
    enabled,        \* rn.enabled
    connections,    \* rn.connections: the ends that have a server name
    fatal,          \* MakeEnd or DeleteEnd of the network has stopped the program
    blocked,        \* history: the servers that the test has cut the clerk off from
    reopened        \* history: the clerks that ConnectAll or MakeClient has opened to all

clntVars == <<ends, srvs, made, clerks, stage, toRemove>>
netVars  == <<rnEnds, enabled, connections, fatal>>
hist     == <<blocked, reopened>>
vars     == <<clntVars, netVars, hist>>

Ends == Clerks \X Servers
Of(c) == {c} \X ends[c]

-----------------------------------------------------------------------------
(* The network's tables *)

\* Enable, for a set of ends: it does not ask whether they exist.
Enable(es)  == enabled' = enabled \cup es
Disable(es) == enabled' = enabled \ es

\* Mutant: the server name of a deleted end stays in the table.
DeleteEndsKeepName(es) ==
    /\ fatal' = (fatal \/ ~(es \subseteq rnEnds))
    /\ rnEnds' = rnEnds \ es
    /\ enabled' = enabled \ es
    /\ UNCHANGED connections

\* DeleteEnd for each of es: log.Fatalf when one is not there.
DeleteEnds(es) ==
    /\ fatal' = (fatal \/ ~(es \subseteq rnEnds))
    /\ rnEnds' = rnEnds \ es
    /\ enabled' = enabled \ es
    /\ connections' = connections \ es

\* The ends that readEndnameInfo finds enabled and connected: a request would go through.
Deliverable == enabled \cap connections

-----------------------------------------------------------------------------
(* Clnt *)

allowedL(c, s) == s \in srvs[c]

\* Mutant: a new end is enabled whatever the clerk is allowed.
makeEndOpen(c, s) ==
    /\ s \notin ends[c]
    /\ ends' = [ends EXCEPT ![c] = @ \cup {s}]
    /\ fatal' = (fatal \/ <<c, s>> \in rnEnds)
    /\ rnEnds' = rnEnds \cup {<<c, s>>}
    /\ connections' = connections \cup {<<c, s>>}
    /\ Enable({<<c, s>>})

\* makeEnd of an end that the clerk does not have yet.
makeEnd(c, s) ==
    /\ s \notin ends[c]
    /\ ends' = [ends EXCEPT ![c] = @ \cup {s}]
    /\ fatal' = (fatal \/ <<c, s>> \in rnEnds)
    /\ rnEnds' = rnEnds \cup {<<c, s>>}
    /\ connections' = connections \cup {<<c, s>>}
    /\ IF allowedL(c, s) THEN Enable({<<c, s>>}) ELSE Disable({<<c, s>>})

\* Call, in a goroutine of the clerk, which may go on after the clerk was deleted.  With
\* an end that exists it changes nothing; whether the request goes through is decided
\* when the network looks at Deliverable, at any later moment.
Call(c, s) ==
    /\ c \in made
    /\ makeEnd(c, s)
    /\ UNCHANGED <<srvs, made, clerks, stage, toRemove, hist>>

\* What the test does to a clerk it has made, deleted or not.
Reconfigure(c) ==
    /\ c \in made
    /\ UNCHANGED <<ends, made, clerks, stage, toRemove, rnEnds, connections, fatal>>

\* Mutant: the ends that exist are enabled, the ones to come are forgotten.
ConnectAllExisting(c) ==
    /\ Reconfigure(c)
    /\ Enable(Of(c))
    /\ blocked' = [blocked EXCEPT ![c] = {}]
    /\ reopened' = reopened \cup {c}
    /\ UNCHANGED srvs

ConnectAll(c) ==
    /\ Reconfigure(c)
    /\ Enable(Of(c))
    /\ srvs' = [srvs EXCEPT ![c] = Servers]
    /\ blocked' = [blocked EXCEPT ![c] = {}]
    /\ reopened' = reopened \cup {c}

\* ConnectTo enables ends and disables none.
ConnectTo(c, to) ==
    /\ Reconfigure(c)
    /\ srvs' = [srvs EXCEPT ![c] = to]
    /\ Enable(Of(c) \cap ({c} \X to))
    /\ blocked' = [blocked EXCEPT ![c] = @ \ to]
    /\ reopened' = reopened \ {c}

\* Disconnect has no effect on an end that is made later.
Disconnect(c, s) ==
    /\ Reconfigure(c)
    /\ Disable(Of(c) \cap {<<c, s>>})
    /\ reopened' = reopened \ {c}
    /\ UNCHANGED <<srvs, blocked>>

DisconnectAll(c) ==
    /\ Reconfigure(c)
    /\ Disable(Of(c))
    /\ srvs' = [srvs EXCEPT ![c] = {}]
    /\ blocked' = [blocked EXCEPT ![c] = Servers]
    /\ reopened' = reopened \ {c}

\* remove deletes the ends from the network and keeps them in clnt.ends.
remove(c) == DeleteEnds(Of(c)) /\ UNCHANGED ends

-----------------------------------------------------------------------------
(* Clnts and Config.Cleanup *)

\* clnts.mu is free.
Unlocked == stage # "clerks"

\* MakeClientTo; MakeClient is MakeClientTo(nil).  No test makes a clerk after Cleanup.
MakeClientTo(c, to) ==
    /\ c \notin made /\ stage = "test"
    /\ made' = made \cup {c}
    /\ clerks' = clerks \cup {c}
    /\ srvs' = [srvs EXCEPT ![c] = to]
    /\ blocked' = [blocked EXCEPT ![c] = Servers \ to]
    /\ reopened' = IF to = Servers THEN reopened \cup {c} ELSE reopened
    /\ UNCHANGED <<ends, stage, toRemove, netVars>>

\* Mutant: the clerk stays in the map.
DeleteClientKeeps(c) ==
    /\ c \in made /\ Unlocked
    /\ \/ c \in clerks /\ remove(c)
       \/ c \notin clerks /\ UNCHANGED <<ends, netVars>>
    /\ UNCHANGED <<clerks, srvs, made, stage, toRemove, hist>>

\* DeleteClient, by the test or by a clerk's goroutine after its last call; a second
\* one, or one after Cleanup, does nothing.
DeleteClient(c) ==
    /\ c \in made /\ Unlocked
    /\ \/ c \in clerks /\ remove(c) /\ clerks' = clerks \ {c}
       \/ c \notin clerks /\ UNCHANGED <<ends, netVars, clerks>>
    /\ UNCHANGED <<srvs, made, stage, toRemove, hist>>

\* clnts.cleanup: lock, remove the clerks one by one, forget them.
CleanupClerks ==
    /\ stage = "test"
    /\ stage' = "clerks"
    /\ toRemove' = clerks
    /\ UNCHANGED <<ends, srvs, made, clerks, netVars, hist>>

CleanupRemoves(c) ==
    /\ stage = "clerks" /\ c \in toRemove
    /\ remove(c)
    /\ toRemove' = toRemove \ {c}
    /\ UNCHANGED <<srvs, made, clerks, stage, hist>>

\* Groups.cleanup and net.Cleanup follow.
CleanupEnds ==
    /\ stage = "clerks" /\ toRemove = {}
    /\ stage' = "over"
    /\ clerks' = {}
    /\ UNCHANGED <<ends, srvs, made, toRemove, netVars, hist>>

Init ==
    /\ ends = [c \in Clerks |-> {}]
    /\ srvs = [c \in Clerks |-> {}]
    /\ made = {} /\ clerks = {}
    /\ stage = "test" /\ toRemove = {}
    /\ rnEnds = {} /\ enabled = {} /\ connections = {}
    /\ fatal = FALSE
    /\ blocked = [c \in Clerks |-> {}]
    /\ reopened = {}

Next ==
    /\ ~fatal
    /\ \/ \E c \in Clerks :
             \/ ConnectAll(c) \/ DisconnectAll(c)
             \/ DeleteClient(c) \/ CleanupRemoves(c)
             \/ \E s \in Servers : Call(c, s) \/ Disconnect(c, s)
             \/ \E to \in SUBSET Servers : MakeClientTo(c, to) \/ ConnectTo(c, to)
       \/ CleanupClerks \/ CleanupEnds

Spec == Init /\ [][Next]_vars

-----------------------------------------------------------------------------
(* Properties *)

TypeOK ==
    /\ ends \in [Clerks -> SUBSET Servers]
    /\ srvs \in [Clerks -> SUBSET Servers]
    /\ made \subseteq Clerks /\ clerks \subseteq Clerks /\ toRemove \subseteq Clerks
    /\ stage \in {"test", "clerks", "over"}
    /\ rnEnds \subseteq Ends /\ enabled \subseteq Ends /\ connections \subseteq Ends
    /\ fatal \in BOOLEAN
    /\ blocked \in [Clerks -> SUBSET Servers]
    /\ reopened \subseteq Clerks

\* A clerk that was made for some servers only, or disconnected from all, cannot reach
\* the others before the test connects it again: not over an end it had, and not over
\* one that its goroutine makes later.
CutOff == \A c \in Clerks : \A s \in blocked[c] : <<c, s>> \notin Deliverable

\* A clerk that was opened to all servers reaches every one that it calls, whether it
\* made the end before or after ConnectAll, until it is disconnected or deleted.
Reopened == stage = "test" => \A c \in reopened \cap clerks : Of(c) \subseteq Deliverable

\* remove runs once for every end, in whatever order DeleteClient of the clerks'
\* goroutines and of the test, Cleanup and late calls come: no end is made or deleted
\* twice, for which the network stops the program.
DeletedOnce == ~fatal

\* An end that was deleted stays dead, although the clerk still has it, may call it and
\* may be connected again.
NoGhosts == Deliverable \subseteq rnEnds
=============================================================================
