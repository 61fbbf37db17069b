# A TLA+ verification project for the sharded key/value store

The repository is a Go code base for a sharded, fault-tolerant key/value store
built in the 6.5840 style: a Raft group, a key/value service on top of it, sharding
across groups, MapReduce, and the harness that runs all of it on a simulated
network. At this commit the parts that carry logic are the Raft election, the
simulated network, the harness that starts, cuts off, kills and restarts servers and
judges what they do, and the shard configurations. The replicated log, the key/value services, the shard
controller and MapReduce's coordinator and worker are still stubs. The modules
follow the code, not what the code is meant to become.

## Inventory

Paths are relative to `src/src/`.

| Component | State | Operations | Interacts with | What is hard | What makes it correct |
|---|---|---|---|---|---|
| Raft election and heartbeats (`raft1/raft.go`) | term, vote, role, ticker position, vote counter, RPCs in flight | `Make`, `ticker`, `RequestVote`, vote goroutines, `broadcastHeartbeats`, `AppendEntries` | labrpc, Persister | goroutines that act on state read in an earlier critical section; late replies; crash | one vote per peer and term, one leader per term, votes counted once, a majority leads |
| Network (`labrpc/labrpc.go`) | ends, connections, servers, flags, one goroutine per call and one per handler | `Call`, `processReq`, `dispatch`, and the tester's `Connect`, `Enable`, `DeleteServer`, `Cleanup`... | everything | a request works on copies while the maps change; hung handlers; delayed replies | at most one run per call, `true` only after a run, calls return |
| Server life cycle (`tester1/group.go`, `srv.go`, `persister.go`) | Persister per server instance | `StartServer`, `ShutdownServer`, `Save`, `Copy` | labrpc, services | a dead instance keeps running and saving | acknowledged updates survive restarts |
| Group connectivity (same files) | `connected`, enabled ends, servers that are up | `connect`, `disconnect`, `Partition`, `MakePartition`, `restart` | labrpc | long sequences of operations | links are what the test asked for |
| Shard configurations (`shardkv1/shardcfg`) | number, assignment, groups | `JoinBalance`, `LeaveBalance`, `Rebalance`, `CheckConfig` | shard controller | an unbounded loop; calls that fail half-way | balanced, allocated, few moves, termination |
| Clerk ends (`tester1/clnts.go`) | allowed servers, lazily made ends | `Call`, `ConnectTo`, `DisconnectAll`, `DeleteClient`, `cleanup` | labrpc | ends made while the clerk is being cut off or deleted | a clerk that is cut off reaches nobody; ends are deleted once and stay dead |
| Annotations (`tester1/annotation.go`) | list of annotations, on-going ones, faults, finalized flag | `Annotate...`, `finalize`, `cleanup` | the tests, checkPorcupine | combinations of faults; a cleanup that gives up the lock half-way | the faults shown are those that were present; a history is not overwritten |
| KV harness (`kvtest1`, `models1`) | operation log, counts, versions | `OnePut`, `OneClientAppend`, `PutAtLeastOnce`, `SpawnClientsAndWait`, `CheckAppends`, `KvModel.Step` | services | Puts whose outcome is unknown; clients and tester waiting for each other | a correct service passes, a wrong one does not, the test ends |
| Raft test server (`raft1/server.go`, `test.go`) | log copies, last applied, snapshot | `applier`, `applierSnap`, `ingestSnap`, `checkLogs`, `mksrv`, `Kill` | Raft | a new server published after it started; a killed one that goes on | disagreement is reported, and only disagreement |
| labgob (`labgob/labgob.go`) | registry of checked types | `Encode`, `Decode` | labrpc | decoding into a used value | - |
| Stubs | - | `kvsrv1`, `kvraft1`, `kvraft1/rsm`, `shardkv1` services, `mr` | - | nothing to model yet | - |

The hazards these raise, each at its line, are in `PROJECT.json`.

## Modules

### RaftElection

One action per critical section of `rf.mu`. A ticker iteration is `TickerRead`
(copy `rf.state`, branch on the copy) and then `StartElection` or `TickerIdle`,
which re-reads it. `RequestVote` is the handler and `VoteReply` the vote goroutine
after its RPC. `TickerRead` of a leader spawns heartbeat goroutines (`beats`),
`SendHeartbeat` is such a goroutine when it gets the lock, `AppendEntries` the
handler and `HeartbeatReply` the goroutine after the RPC. `AppendEntries` compares
`reply.Term`, which is zero in the reply that labrpc allocates, so it rejects every
heartbeat on a server past term 0 and indexes the empty `Entries` on the others:
`panicked` is the end of the Go process, and no action is taken after it.

Votes in flight are two sets (`voteReqs`, `voteReps`) from which anything can be
delivered in any order; `Lossy` lets the network lose them. A leader repeats its
heartbeats for as long as it leads, so a heartbeat in `beatReqs` or a reply in
`beatReps` stands for any number of copies and is not removed. `ballots` is a
history of the votes cast, and appears only in properties and in the count of
elections. Time is abstracted: an election timeout may fire whenever the code looks.

### RaftRestart

Extends RaftElection by `Restart`, the tester's `ShutdownServer` and `StartServer`
of one peer. `persist` and `readPersist` do nothing, so the new object has `Make`'s
values. Requests of the old object that are in flight are still handled by others
(`orphans`), but a reply to them reaches nobody, because a reply belongs to the
goroutine of the object that made the call. One abstraction: a ticker iteration of
the old object that has passed `killed()` sends nothing any more; its end points
have been disabled by then. `forgotten` is a history: the votes whose voter has been
restarted since. `SplitByForgotten` says that they are all that a restart can break: two
peers lead in one term only where a peer has voted for both and one of the votes is
forgotten.

### AtMostOnceRpc and Labrpc

`AtMostOnceRpc` is the promise: a handler runs at most once per call, `Call` returns
`true` only after the run, and `false` at any time. `Labrpc` is the network. Each
`Call` is a goroutine that goes through the places of `processReq`; every critical
section of `rn.mu` is an action, and the end's server and flags are copied by
`ReadEndnameInfo` as the code does. The tester's operations are actions that
interleave with every call. An end that was deleted may still be called on, and
`Connect` and `Enable` do not look whether it exists. Delays have no effect in a
model where any step may be late, so `longDelays` is left out, and so are the
statistics. Payloads are abstracted to the call they belong to.

### ServerPersist

Extends Labrpc by servers that save what they acknowledge. `StartServer` copies the
Persister and starts the services, `RegisterServer` adds them to the network;
`UnregisterServer` is `DeleteServer`, `ShutdownServer` copies the Persister away from
the old instance, whose handlers go on. The services are stubs, so the
handler is the least one that uses its Persister: it saves its update and returns.

### ServerGrp

The tester changes the connections of a group in one goroutine, so an operation is
one action; in its loops over servers `after[k]` is what `k` iterations have made of the
net. `links` are the enabled ends of
the servers' current `Server` objects. `MakePartition` keeps the zero of a place in
the Go slice that no server fills. `sides` and `cutOff` remember the last partition
for the properties. The model starts with a group that has been made and started.

### ShardCfg

`JoinBalance` and `LeaveBalance` change the groups and enter `Rebalance`, each
iteration of whose two loops is an action. A call that meets a gid it cannot treat
returns at once (`Refuse`), keeping what it did before: `Join` ranges over a Go map,
so any subset of the new gids may have been added; `Leave` follows its list. The
members of a group are abstracted to its gid.

### Clnts

A clerk has a `Clnt`, whose mutex makes every operation of it one action, and the test
has the `Clnts`. `Call` makes an end when the clerk has none to that server; whether a
request goes through is what the network finds later, so `Deliverable` is a state
function and the properties are about it. A goroutine may call, and a test may
reconnect, a clerk that was deleted, since `remove` keeps the clerk's table.
`clnts.cleanup` removes one clerk after the other while calls go on. A nil `srvs` is
the set of all servers. `fatal` is the `log.Fatalf` of `MakeEnd` and `DeleteEnd`. The
histories `blocked` and `reopened` are what the test has asked for. Two things that the
code does on purpose or by omission are as in the code: `ConnectTo` disables nothing,
and `Disconnect` of one server has no effect on an end that is made later; neither
counts as cutting a clerk off.

### Annotation

Every operation holds the locks of `annotation` and `finfo` and is an action with a
timestamp of its own (`clock`). A description is reduced to what it says: which blocks
of servers are apart, and who is crashed. `test` and `told` are histories of what
the test has reported. `cleanup` is two actions, `CleanupDecides` and `CleanupClears` or
`CleanupWrites`, because it gives up the lock in between, and may run in the test's
goroutine and in one that ends the process; there the exit is a later step (`Exit`), and
the test may run on before it. `checkPorcupine` finalizes (`CheckIllegal`,
`CheckLegal`) and then writes its file (`WriteHistory`). A test uses `Partition` and its
annotation without other faults, as all tests of the repository do. Points, intervals
and user annotations are there because they share the list and the map. `ShownAt` is all
that is drawn over a moment, `Described` the part of it that has a text: an interval
which `annotateContinuousEnd` adds without a fault says nothing. `VIS_FILE` is
taken to be set; without it every visualization has a file of its own.

### RfSrv

An instance (`rfsrv`) is a server and a number; `inst` is the newest one, `srvs` the one
the test knows of, and the two differ between `NewRfsrv` and `MkSrv`. `inbox` is the
message an applier has taken from its channel and not yet processed: it is processed
even when the instance has been killed meanwhile, and `checkLogs` then records it in
its successor. `Kill` leaves `rs.raft` nil, so that making a snapshot in a killed
instance fails. The Raft behind `raftapi.Raft` is external: an `honest` one applies a
single committed log in order, any other sends any command and any server's snapshot,
however old, at any index. A new Raft object has
nothing to apply before its server is in the network (`Reachable`), since only the
others can tell it what is committed. Index 0, nil on all servers, is left out. `rewound` is
a history: a snapshot older than the server's own has been put into it.

### KvTest

The clients, the tester and the operation log, for one key. `Calls` and `Returns` are
the two ends of `Get` and `Put` of porcupine.go; between them the service serves the
request, any number of times if replies are lost (`Serve`, `Lose`). The service and the
Clerk are external, as the comments in `kvsrv1` define them: version numbers decide, and
`ErrVersion` for a resent Put is `ErrMaybe`. One run of the harness is one of three: clients
that append, clients that put (in rounds, as GenericTest does), or the tester alone
with `PutAtLeastOnce` and `CheckGet`. A service that is not honest (`forgot`) answers OK to
one Put and does not execute it. `CheckAppends` is stated by what its loops compute;
`Step` is `KvModel.Step`; porcupine itself is the search for an order of the calls that
`Step` accepts: `reached[k]` has what the first k calls of such an order can leave
(`Linearizable`), or it gives up (`unknown`). `Fatalf` in a client ends that
client's goroutine only, as in Go.

## Runs

| Run | Instance | Properties |
|---|---|---|
| `raft_races` | 3 peers, 2 elections, fair delivery; 60 thousand states | `TypeOK`, `OneVotePerTerm`, `ElectionSafety`, `VotesBacked`, `HeartbeatsFromElected`, `DeposedByNewerTerm`, `PromisesKept`, `QuorumElects` |
| `raft_panic` | 3 peers, 1 election | violated: `NoPanic` |
| `restart_split` | 3 peers, 2 elections, 2 restarts, lossy, symmetric; 1.7M states | `SplitByForgotten` |
| `restart_two_leaders` | 3 peers, 2 elections, 1 restart | violated: `ElectionSafety` |
| `labrpc` | 1 call, 1 end, 2 names, 2 server objects; 189 thousand states | `TypeOK`, `ImplementsAtMostOnce`, `CallReturns` |
| `persist` | 1 call, 1 name, 3 server objects; 140 thousand states | `AcknowledgedSurvives`, `FrozenWhileDown` |
| `shardcfg` | 6 shards, 4 gids, 4 configurations; 96 thousand states | `TypeOK`, `ConfigChecked`, `FewestMoves`, `RebalanceEnds` |
| `group` | 5 servers; 9 thousand states | `Isolated`, `PartitionHolds`, `LeaderInMinority` |
| `clnts` | 2 clerks, 2 servers, symmetric; 73 thousand states | `CutOff`, `Reopened`, `DeletedOnce`, `NoGhosts` |
| `annotation` | 2 servers, 6 operations, symmetric; 2.0M states | `TimelineFaithful`, `HistoryKept` |
| `rfsrv` | 2 servers, 2 commands, 2 indices, a snapshot at each, 1 restart, symmetric; 2.6M states | `DisagreementReported`, `GapsReported`, `LiveNeverBlamed`, `SnapshotsComplete` |
| `kvtest` | 2 clients, 3 iterations, 2 rounds, 1 `ErrMaybe`; 1.2M states | `NoFalseAlarm`, `LostPutsReported`, `WaitReturns` |

What each run shows is said in `PROJECT.json`, what each property says above its
definition. Every property has a mutant there, a plausible mistake in one definition that
violates it.

Bounds.

- Two elections are enough for two candidates in one term, for a candidate
  overtaken by a newer term, and for a leader that steps down while its heartbeat
  goroutines wait. Without loss a message may still stay in flight for ever, so
  the safety properties cover loss as well; `restart_split` takes the losing steps
  themselves. Two restarts are two of one peer, or one of each of two peers, of which one
  may be the candidate and the other its voter.
- One call meets every reconfiguration of the network at every place of `processReq`; calls
  share nothing but the maps that the tester changes. Two names and two objects let an end
  be reconnected and a server be replaced under the call.
- Three server objects are two restarts of a server, so that a handler of a dead
  instance can be as late as the start of the one after the next.
- Six shards and four gids have assignments that are uneven by more than one, and
  numbers of groups that do not divide the shards; four configurations reach groups and an
  assignment that refused calls have left at odds.
- Five servers is the size of the tests, with a majority and a minority of two.
- Clnts has no bound but the two sets: a clerk makes one end per server. Two clerks
  show that the operations on one leave the other alone, two servers that permissions
  differ by server.
- Six operations (`MaxTime` = 7) are the start of a test, a fault, another fault on top of
  it, its end, a check and a cleanup, in any order, and a second test after a short first
  one.
- Two indices with a snapshot at each (`SnapShotInterval` = 1 for the code's 10) are the
  least in which a server can be taken back behind its own snapshot. A server can have an
  entry beyond its own snapshot because a snapshot it is sent is not saved. Three
  instances of two servers (`MaxStarts`) are one restart, with the old applier and the new
  one alive. Larger intervals are left to the theorems.
- Three iterations of two clients (`MaxIter`) let one client overtake the other twice, one
  lost reply (`MaxMaybe`) let a Put happen or not, and a second round (`MaxRounds`) start with
  a stale version. Loss and a forgetful service are checked separately: with both, an
  unknown Put can hide a lost one, and no harness could tell.
- Deadlock is checked in `labrpc`, `persist` and `group`. In the Raft runs a panic
  ends the process, in `shardcfg` the number of configurations is bounded, and the tests
  that Clnts, Annotation, RfSrv and KvTest follow come to an end.

The theorems below cover every other size.

Fairness. `raft_races` assumes that a vote request reaches its handler and a reply its
goroutine, as labrpc delivers both after a bounded delay; nothing is assumed of tickers.
`labrpc` assumes that the goroutines of a call and of the network are scheduled and that
timers fire, and nothing of handlers: `CallReturns` excepts a call whose handler has not
returned on a server that is alive. `kvtest` assumes that some goroutine of the test runs
whenever one can, and that some request is served; the first is strong fairness because
a request that is lost again disables its goroutine for a while. It also takes the
tester's sleep, a second or more, to be long enough for one iteration of some client:
with less, the tester finds no key and fails. `shardcfg` assumes that `Rebalance`, which is
sequential code, runs on.

What the violated properties show.

- A heartbeat that reaches a peer in term 0, one that was not asked or has not yet
  handled the vote request, indexes an empty slice and panics (`raft.go:367`).
- A peer that restarts forgets its vote (`raft.go:78`), and two peers lead in one
  term.

What else the modelling has shown. The modules follow the code in each of these, and no
run asks for more.

- `RequestVote` refuses without its term (`raft.go:149`; "currentTerm, for candidate to
  update itself"), so a candidate that is behind does not learn it from refusals.
- `MakePartition` of an even group lists server 0 on both sides (`group.go:285`): with
  `N = 4`, `LeaderInMinority` fails. The tests use odd groups.
- `restart` of the Raft tests connects servers that are down (`group.go:134`), whose
  `connected` flag and ends then say otherwise. `TestPersist33C` gets there.
- An applier that holds a message when its server is killed calls `Snapshot` on a nil
  `rs.raft` (`server.go:155`), if the message's index is the one before a multiple of the
  interval; `rs.raft` is read without `rs.mu`. In the model this is a failure that is
  attributed to a stale server.
- `ingestSnap` accepts any snapshot whose index fits its message (`server.go:199`), also
  one that takes the server back or that disagrees with the other servers; the latter is
  noticed only when another server applies the same index later. After a server has been
  taken back behind its own snapshot the others can go on with other values, and when it
  restarts from that snapshot the servers disagree and nothing is reported, although the
  comment at `test.go:212` counts on the threads that read from applyCh.
  `DisagreementReported` is therefore about executions without it (`~rewound`); without
  that condition TLC finds the disagreement in 13 states. A correct Raft never does this.
- `annotateContinuousEnd` warns about a tag with nothing on-going and goes on
  (`annotation.go:482`), which adds an interval that starts at time 0;
  `AnnotateClearFailure` without a failure gets there. The interval has no text, and
  `TimelineFaithful` is about those that have one. `AnnotateCheckerEnd` resets a local
  copy of `ckbegin` (`annotation.go:173`), so that a second end without a begin draws an
  interval from the first begin.
- "won't be overridden by that without client operations" (`porcupine.go:183`) is not
  kept once a goroutine that ends the process (SIGINT, a failed check) has begun its
  cleanup, in two ways. It may have decided to write before `checkPorcupine` finalizes, and
  then replaces the file with the history (`annotation.go:503`). Or it clears, which unsets
  `finalized` (`annotation.go:504`), and before its exit (`annotation.go:583`) the test
  annotates again and its own cleanup writes. `HistoryKept` is about the time before;
  in the model both happen after it.
- `OnePut` tests `e.Id != me && e.V != ver` (`kvtest.go:217`), so that a wrong id with the
  right number, or the reverse, passes.
- A client that ends with `Fatalf` never takes its signal, and `SpawnClientsAndWait` stays
  blocked (`kvtest.go:162`).
- `CheckAppends` alone does not notice that the last appends of a client are missing when
  the version agrees; the linearizability check does, unless it gives up.
- `PutAtLeastOnceJson` puts with version 0 whatever `ver` is (`kvtest.go:193`).

## Proofs

The theorems hold for every value of the constants that the named assumptions of the
modules allow. `MaxElections`, `MaxServers`, `MaxStarts`, `MaxIndex`, `MaxTime`, `MaxNum`,
`MaxIter`, `MaxRounds` and `MaxMaybe` are any natural numbers, up to the zeros that the
assumptions exclude, so what the runs bound the theorems do not.

| Module | Theorem | States | For every |
|---|---|---|---|
| `RaftProofs` | `TypeCorrect` | `TypeOK` | finite set of peers, number of elections, lossy or reliable network |
| | `VotesUnique`, `CountsBacked`, `AtMostOneLeader`, `HeartbeatsElected` | `OneVotePerTerm`, `VotesBacked`, `ElectionSafety`, `HeartbeatsFromElected` | |
| | `PromisesAreKept`, `LeadersDeposedByTerm` | the action properties `PromisesKept`, `DeposedByNewerTerm` | |
| | `SplitsAreForgottenVotes` | `SplitByForgotten` of RaftRestart | number of restarts too |
| `NetworkProofs` | `TypeCorrect`, `Refinement` | `TypeOK`, `ImplementsAtMostOnce` | numbers of calls, ends, names, server objects |
| | `AckedSurvives`, `DownIsFrozen` | `AcknowledgedSurvives`, the action property `FrozenWhileDown` | the same |
| `ServerGrpProofs` | `DisconnectedIsIsolated` | `Isolated` | size of the group |
| | `PartitionIsExact`, `LeaderIsInMinority` | `PartitionHolds`, `LeaderInMinority` | odd size above one |
| `ShardCfgProofs` | `TypeCorrect`, `BalancedAfterRebalance`, `MovesAreFewest` | `TypeOK`, `ConfigChecked`, `FewestMoves` | number of shards, finite set of gids |
| `ClntsProofs` | `StaysCutOff`, `StaysReopened`, `EndsDeletedOnce`, `NoGhostEnds` | `CutOff`, `Reopened`, `DeletedOnce`, `NoGhosts` | sets of clerks and servers |
| `AnnotationProofs` | `FaultsShownAsTold`, `HistoryIsKept` | `TimelineFaithful`, the action property `HistoryKept` | finite set of servers, length of a test |
| `RfSrvProofs` | `DisagreementIsReported`, `GapsAreReported`, `LiveIsNeverBlamed`, `SnapshotsAreComplete` | `DisagreementReported`, `GapsReported`, `LiveNeverBlamed`, `SnapshotsComplete` | finite set of servers, commands, indices, restarts, snapshot interval |
| `KvTestProofs` | `NoFalseAlarms`, `LostPutsAreReported` | `NoFalseAlarm`, `LostPutsReported` | finite set of clients, numbers of iterations, rounds and lost messages |

Hardly any of the invariants is inductive as it stands. What each argument needs:

Raft election. One vote per term needs that the voter
still remembers the vote while it is in the ballot's term (`BallotsRemembered`), since
`RequestVote` consults only `votedFor` and `currentTerm`. That a counted vote is a
distinct real one needs that a call is in flight once, to another peer, for an
election that was started, and that a granting reply has its ballot (`CallsTracked`).
That a leader has a majority of voters needs that it counted one in its term
(`LeadersCounted`). With the counter backed by voters, two leaders of a term have
majorities that intersect, and the voter in both contradicts `OneVotePerTerm`. A
step-down needs a further part: the term of a heartbeat reply was reached by another
peer (`ReplyTermsReached`). The accepting path of `AppendEntries` resets `votedFor`
without looking at the term and would break all of this; lemma `AppendEntriesNeverAccepts`
shows that no heartbeat the code sends can take it.

Restarts. `OneVotePerTerm` does not survive a restart, as `restart_two_leaders` shows. Of
the votes that are not forgotten it does, because their voter still has them or is past
their term (`Memory`), also when it votes on the request of an object that is gone. The
counts stay backed: a restarted peer is back at term 0 and has no call in flight, so no
reply to its predecessor meets the new object's election (`CallsTracked`, `VotesBacked`,
`LeadersCounted`; together `InvR`). Two leaders of a term then have majorities that meet
in a peer with a vote for each (`MajoritiesMeet`), and the two votes cannot both be
remembered.

Network. The mapping to AtMostOnceRpc is that of the run. Every step maps to a step or a
stutter because a call has its handler run once, after it was dispatched, and has no reply
before the handler has returned (`HandledOnce`).

Server life cycle. The invariant `InvP` says where Persisters are shared: the tester keeps
one per name (`Kept`); the server that is registered writes to it (`Started`); between
`ShutdownServer` and the next registration no server does (`Parted`), which is what makes
late handlers harmless; a call is handled by a server that was made (`Sent`) and has saved
when it returns (`Written`).

Group connectivity. `GroupInv` says `Isolated` of the net and, for odd groups, the other
two. The work is in the operations: an invariant of a loop over servers is carried from one
iteration to the next, by an induction principle about sets of numbers (`Iterated`) that
follows from the well-foundedness of the naturals. `SplitCuts` is the loop of `Partition`:
after `k` iterations the servers listed so far are connected with each other, cut off from
the other side, and the other side's own ends are as before. `MakePartitionSides` shows
that the two sides of an odd group share no server, leave none out, and that the leader's
is the smaller; `OddGroup` is exactly this condition. For even groups `LeaderInMinority` is
false (see above), for a group of one the code indexes an empty slice.

Shard configurations. `ConfigChecked` is about the end of `Rebalance`, so the invariant
follows its loops: groups exist while it runs (`Entered`), and the shards that the first
loop has passed belong to known groups (`Assigned`). That `analyze` finds a most and a
least loaded group, in the order of gids, is the existence of extrema in finite sets of
numbers; the second loop's exit test then gives the balance. `FewestMoves` compares the
result with every other assignment. It rests on `Frugal`: a group that has gained a shard
is within one of the least load, one that has lost a shard within one of the greatest, no
group does both, and none has gained beyond one that has lost. Given another balanced
assignment, either it leaves no more than `Rebalance` to any group that has lost, or it
gives no less to any group that has gained, since otherwise two of its loads would differ
by two; either way it moves at least as many shards. The sum over the groups is an
induction along a numbering of the gids (`Gathered`).

Clerk ends. That an end is deleted once needs that a clerk in the map, and
during `cleanup` one that is still to be removed, has all the ends of its table in the
network (`LiveHeld`), and that a clerk which was not made has none (`Fresh`). That deleted
ends stay dead needs that an end has a server name exactly while it exists, since
`Enable` does not ask, and that every end in the tables is in its clerk's (`Tables`). That a clerk stays cut off needs that its permissions,
which decide about ends to come, are as closed as its ends (`Shut`), and the converse
for one that was opened (`Open`).

Annotations. `TimelineInv`: what `finfo` holds is what the test has reported (`Informed`);
an on-going annotation of faults is there exactly when a fault is present, and describes
it (`Present`); ended annotations end in the past (`Ended`); and together with the on-going
one they cover every moment with a fault exactly once (`Tiled`). It is claimed only while a
test runs and no goroutine is about to exit: a clean-up clears the list. `HistoryInv` says
that until such a goroutine has done its cleanup the annotations are final while the history
is written and afterwards.

Raft test server. The invariant `Inv` holds until the first report, for any Raft: the test
lags behind `newRfsrv` only until `mksrv` (`Staged`), snapshots are complete (`Snapshots`),
logs have no gaps (`Prefix`) and hold what is counted as applied (`Applied`). Until a server
has been taken back, its log also agrees with its snapshot and goes beyond it (`Ahead`), a
snapshot on its way is kept in full by some server (`InFlight`), and the logs agree
(`Agree`). For a correct Raft all that is recorded or on its way is committed
(`HonestLogs`), and an instance has applied all that was sent but the message its applier
holds (`HonestNext`): that is why a running server is never blamed. `StartAssumption`
says that the bound on starts allows every server to be started once.

KV harness. Nothing is assumed of the clients but that they are finitely many and the
tester is none of them (`ClientsAssumption`, `TesterAssumption`). The invariant `Inv` has a
part for all tests and one for each kind of test.

- All tests. Who is where and in which call (`Phases`); the times in the log count the
  calls that have returned (`Times`); what the tester has read is still there
  (`TesterReads`); acknowledged Puts have different versions, below the key's, until one is
  forgotten (`Acked`). For `NoFalseAlarm` porcupine must find an order, so the invariant
  carries one (`Linearized`): for a service that keeps its promises there are a sequence of
  the executed calls and the states between them (`Runs`) in which every logged call has
  one place that agrees with the times (`Logged`) and a call under way has a place if it
  was executed (`Waiting`). A Put that was sent again is the difficult case: its place is
  the one of its first execution, and its record becomes OK or `ErrMaybe` only when it
  returns. `OrderedLinearizable` then follows that order through porcupine's search.
- Clients that append. The list is as long as the version says, reads are prefixes of it
  (`AppendList`), a Put extends what was read (`AppendCalls`), the entries of a client are
  in order and the one of its current iteration is there only while a Put that will leave
  the loop is under way (`EntriesInOrder`), and no acknowledged one is missing
  (`AppendCount`). So `CheckAppends` accepts (`AppendsAccepted`). With a service that forgets,
  the log alone must show it: every Put in it extends the result of an earlier Get
  (`AppendLog`), and any order that porcupine accepts then has the tester's last Get at the
  end of a list with all acknowledged entries (`LinearizableShows`).
- Clients that put. What a client knows is a version the key has had, and the version after
  its own Put has its value (`PutCalls`, `PutReads`), which is why the test in `OnePut` does
  not fail. `PutCount` relates the version to what was executed: the counts of all clients
  and rounds, with one more for a Put that is executed or unknown and not yet counted, are
  no less than the executed Puts, and equal on a reliable network. A forgotten Put is
  counted and not executed, so `CheckPutConcurrent` fails. Sums over the clients are numbers
  of pairs (`Sum`), and lemmas say what one step does to them (`SumOneMore`, `SumMono`).
- The tester alone. A Put under way is pending, executed or forgotten (`AloneInv`); after
  `ErrMaybe` the version it tries next is the key's.

Each inductive invariant was model-checked on the instance of its run before it was
proved; of KvTest's all but `Linearized`, which quantifies over sequences of calls.

Only model-checked: liveness (`QuorumElects`, `CallReturns`, `RebalanceEnds`,
`WaitReturns`), which the prover does not treat.

## Plan

In order of importance:

1. Raft with a clock for `lastHeartbeat`: what rejected heartbeats do to a leader's
   stability.
2. labgob's decode into a used value, and mrsequential's grouping loop against a
   reference definition.
3. The services, once they are written: `KvTest` already states the contract that they
   are tested against.

## Not modelled

- The stubs: `Start` and `Snapshot` of Raft, `rsm.Submit`, the `kvsrv1`, `kvraft1` and
  `shardkv1` servers and clerks, the lock, MapReduce's coordinator and worker.
- Of the harness: several keys, `SpreadPuts` and `PutAtLeastOnceJson`; the checks of the
  Raft tests that only read and retry (`checkOneLeader`, `checkTerms`, `one`, `wait`).
- Byte formats (gob, JSON), log text, statistics, wall-clock limits of the tests.
- Command-line programs and MapReduce plug-ins.
