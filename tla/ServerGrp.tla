----------------------------- MODULE ServerGrp -----------------------------
(***************************************************************************)
(* Who can talk to whom in a server group: connect, disconnect, Partition, *)
(* MakePartition, StartServer and ShutdownServer of                        *)
(* src/src/tester1/group.go and srv.go.                                    *)
(*                                                                         *)
(* One tester goroutine at a time changes the connections of a group, so   *)
(* an operation is one action; in its loops over a list of servers,        *)
(* after[k] is what k iterations have made of the net.  The servers are    *)
(* 0..N-1, as in the code, whose MakePartition relies on it.               *)
(***************************************************************************)
EXTENDS Integers, FiniteSets, Sequences, Functions

CONSTANT N      \* the number of servers of the group

ASSUME NAssumption == N \in Nat \ {0}

VARIABLES
    connected,  \* sg.connected
    links,      \* the enabled ends: <<i, j>> is the end of sg.srvs[i] to server j
    up,         \* the servers that are started and registered
    sides,      \* history: the two sides of the last Partition, while it lasts
    cutOff      \* history: the server that Partition was to put in the minority

vars == <<connected, links, up, sides, cutOff>>

Servers == 0..(N - 1)
All     == [k \in 1..N |-> k - 1]
Whole   == <<{}, {}>>
Nobody  == -1

\* What the operations below work on.
Net == [connected |-> connected, links |-> links]

-----------------------------------------------------------------------------
\* Mutant: connect does not ask whether the other server is on the net.
ConnectUnasked(net, i, to) ==
    [connected |-> [net.connected EXCEPT ![i] = TRUE],
     links |-> net.links \cup {<<i, to[k]>> : k \in DOMAIN to} \cup {<<to[k], i>> : k \in DOMAIN to}]

\* connect: enable the ends both ways between i and those of to that are connected;
\* i is by then.
Connect(net, i, to) ==
    LET on   == [net.connected EXCEPT ![i] = TRUE]
        live == {j \in Range(to) : on[j]}
    IN  [connected |-> on,
         links |-> net.links \cup ({i} \X live) \cup (live \X {i})]

\* disconnect: disable the ends both ways between i and those of from.
Disconnect(net, i, from) ==
    [connected |-> [net.connected EXCEPT ![i] = FALSE],
     links |-> net.links \ (({i} \X Range(from)) \cup (Range(from) \X {i}))]

\* Mutant: a side is connected before it is cut off from the other one.
SplitReversed(net, side, other) ==
    LET after[k \in 0..Len(side)] ==
            IF k = 0 THEN net
            ELSE Disconnect(Connect(after[k - 1], side[k], side), side[k], other)
    IN  after[Len(side)]

\* One of the two loops of Partition.
Split(net, side, other) ==
    LET after[k \in 0..Len(side)] ==
            IF k = 0 THEN net
            ELSE Connect(Disconnect(after[k - 1], side[k], other), side[k], side)
    IN  after[Len(side)]

\* The servers other than l, in order.
Others(l) == [k \in 1..(N - 1) |-> IF k <= l THEN k - 1 ELSE k]

\* Mutant: the larger side gets the leader.
MakePartitionMajority(l) ==
    LET n1 == N \div 2
    IN  << <<l>> \o SubSeq(Others(l), 1, n1), SubSeq(Others(l), n1 + 1, N - 1) >>

\* MakePartition: the servers other than l, in order, fill p1 and then p2, whose last
\* place is l's.  A place that stays empty is the zero of the Go slice.
MakePartition(l) ==
    LET n1    == N \div 2 + 1
        n2    == N \div 2
        at(k) == IF k < N THEN Others(l)[k] ELSE 0
    IN  << [k \in 1..n1 |-> at(k)],
           [k \in 1..n2 |-> IF k = n2 THEN l ELSE at(n1 + k)] >>

-----------------------------------------------------------------------------
Becomes(net) == connected' = net.connected /\ links' = net.links

NoPartition == sides' = Whole /\ cutOff' = Nobody

ConnectedAll(net) ==
    LET after[k \in 0..N] == IF k = 0 THEN net ELSE Connect(after[k - 1], All[k], All)
    IN  after[N]

\* startServer of the servers in srvs: a new Server object has fresh ends, which are
\* disabled.
Started(net, srvs) == [net EXCEPT !.links = @ \ (srvs \X Servers)]

\* makeSrvGrp: nobody is connected.
Made == [connected |-> [i \in Servers |-> FALSE], links |-> {}]

\* MakeGroupStart makes a group and starts its servers.
Init ==
    LET net == ConnectedAll(Started(Made, Servers))
    IN  /\ connected = net.connected
        /\ links = net.links
        /\ up = Servers
        /\ sides = Whole
        /\ cutOff = Nobody

StartServer(i) ==
    /\ i \notin up
    /\ up' = up \cup {i}
    /\ Becomes(Started(Net, {i}))
    /\ NoPartition

\* StartServers, after Shutdown of the whole group.
StartServers ==
    /\ up = {}
    /\ up' = Servers
    /\ Becomes(ConnectedAll(Started(Net, Servers)))
    /\ NoPartition

\* restart in raft1/test.go: it connects all servers, those that are down too.
Restart(i) ==
    /\ i \notin up
    /\ up' = up \cup {i}
    /\ Becomes(ConnectedAll(Started(Net, {i})))
    /\ NoPartition

\* ShutdownServer: disconnect, then DeleteServer.
ShutdownServer(i) ==
    /\ i \in up
    /\ up' = up \ {i}
    /\ Becomes(Disconnect(Net, i, All))
    /\ NoPartition

ConnectOne(i) ==
    /\ i \in up
    /\ Becomes(Connect(Net, i, All))
    /\ NoPartition
    /\ UNCHANGED up

ConnectAll ==
    /\ up = Servers
    /\ Becomes(ConnectedAll(Net))
    /\ NoPartition
    /\ UNCHANGED up

DisconnectAll(i) ==
    /\ i \in up
    /\ Becomes(Disconnect(Net, i, All))
    /\ NoPartition
    /\ UNCHANGED up

\* The tests partition a group all of whose servers are up.
Partition(p1, p2) ==
    /\ up = Servers
    /\ Becomes(Split(Split(Net, p1, p2), p2, p1))
    /\ sides' = <<Range(p1), Range(p2)>>
    /\ UNCHANGED up

\* The list of the servers in S, in increasing order.
InOrder(S) ==
    CHOOSE p \in [1..Cardinality(S) -> S] :
        Range(p) = S /\ \A j, k \in DOMAIN p : j < k => p[j] < p[k]

\* The Partitioner's random split, each side in the order of the servers.
RandomPartition ==
    /\ \E one \in SUBSET Servers : Partition(InOrder(one), InOrder(Servers \ one))
    /\ cutOff' = Nobody

\* A test cuts the leader l off from the majority.
PartitionLeader(l) ==
    /\ Partition(MakePartition(l)[1], MakePartition(l)[2])
    /\ cutOff' = l

Next ==
    \/ \E i \in Servers : \/ StartServer(i) \/ Restart(i) \/ ShutdownServer(i)
                          \/ ConnectOne(i) \/ DisconnectAll(i)
                          \/ PartitionLeader(i)
    \/ StartServers
    \/ ConnectAll
    \/ RandomPartition

Spec == Init /\ [][Next]_vars

-----------------------------------------------------------------------------
(* Properties *)

\* A server that is not connected has no enabled end to or from any server, whatever
\* the other servers connect to.
Isolated ==
    \A i \in Servers : ~connected[i] =>
        \A j \in Servers : <<i, j>> \notin links /\ <<j, i>> \notin links

\* After Partition, from any connections before, the enabled ends are exactly those
\* within a side, both ways.
PartitionHolds ==
    sides # Whole =>
        \A i, j \in Servers : <<i, j>> \in links <=> \E k \in 1..2 : {i, j} \subseteq sides[k]

\* "Partition servers into 2 groups and put current leader in minority" (group.go):
\* the leader that is cut off reaches fewer than half of the servers, and the servers
\* it does not reach can all talk to each other.
LeaderInMinority ==
    cutOff # Nobody =>
        LET reached == {j \in Servers : <<cutOff, j>> \in links}
            rest    == Servers \ reached
        IN  2 * Cardinality(reached) < N /\ rest \X rest \subseteq links
=============================================================================
