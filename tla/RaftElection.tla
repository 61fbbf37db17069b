---------------------------- MODULE RaftElection ----------------------------
(***************************************************************************)
(* Leader election and heartbeats of one Raft group: src/src/raft1/raft.go *)
(*                                                                         *)
(* Every critical section of rf.mu is one action.  A ticker iteration is   *)
(* two of them, with the branch on an unlocked copy of rf.state between; a *)
(* heartbeat goroutine has one before and one after its RPC, a vote        *)
(* goroutine one after its RPC.  A vote call is in voteReqs until its      *)
(* handler has run and then in voteReps until its goroutine has seen the   *)
(* reply; labrpc may lose either and reorder both, but runs a handler at   *)
(* most once per call.                                                     *)
(*                                                                         *)
(* Time is abstracted: time.Since(rf.lastHeartbeat) > timeoutDuration may  *)
(* hold at any moment, so lastHeartbeat is not part of the state.          *)
(***************************************************************************)
EXTENDS Integers, FiniteSets, Sequences

CONSTANTS
    Peers,          \* the indices of rf.peers[]
    None,           \* the -1 of votedFor
    MaxElections,   \* bound on the number of elections started
    Lossy           \* whether the network may lose vote requests and replies

ASSUME PeersAssumption == IsFiniteSet(Peers) /\ None \notin Peers
ASSUME MaxElectionsAssumption == MaxElections \in Nat
ASSUME LossyAssumption == Lossy \in BOOLEAN

VARIABLES
    currentTerm,    \* rf.currentTerm
    votedFor,       \* rf.votedFor
    state,          \* rf.state
    ticker,         \* where the ticker goroutine is: at the "top" of its loop, or
                    \* about to "check" the timeout because its copy of rf.state
                    \* was not Leader
    votesReceived,  \* the counter captured by the goroutines of rf's last election
    voteReqs,       \* RequestVote calls whose handler has not run
    voteReps,       \* RequestVote calls whose reply has not been processed
    beats,          \* peers with heartbeat goroutines waiting for rf.mu
    beatReqs,       \* AppendEntries calls that have been sent
    beatReps,       \* AppendEntries replies that have been produced
    panicked,       \* a handler panicked: the Go process is gone
    ballots         \* history: every vote ever cast

raftVars == <<currentTerm, votedFor, state, ticker, votesReceived>>
voteVars == <<voteReqs, voteReps>>
beatVars == <<beats, beatReqs, beatReps>>
vars     == <<raftVars, voteVars, beatVars, panicked, ballots>>

States == {"Follower", "Candidate", "Leader"}
Terms  == Nat

VoteReq == [cand: Peers, server: Peers, term: Terms]
VoteRep == [cand: Peers, server: Peers, term: Terms, granted: BOOLEAN, replyTerm: Terms]
BeatReq == [leader: Peers, term: Terms, entries: {<<>>}]
BeatRep == [leader: Peers, success: BOOLEAN, replyTerm: Terms]
Ballot  == [voter: Peers, term: Terms, cand: Peers]

\* n > len(rf.peers)/2, an integer division.
Majority(n) == n > Cardinality(Peers) \div 2

\* What GetState returns: the term and whether rf believes it leads.
GetState(p) == <<currentTerm[p], state[p] = "Leader">>

-----------------------------------------------------------------------------
\* Mutant: Make leaves votedFor at its zero value.
ZeroVote == 0

\* rf.votedFor = -1
NoVote == None

\* Make on every peer: the zero value of each field but votedFor.
Init ==
    /\ currentTerm = [p \in Peers |-> 0]
    /\ votedFor = [p \in Peers |-> NoVote]
    /\ state = [p \in Peers |-> "Follower"]
    /\ ticker = [p \in Peers |-> "top"]
    /\ votesReceived = [p \in Peers |-> 0]
    /\ voteReqs = {} /\ voteReps = {}
    /\ beats = {} /\ beatReqs = {} /\ beatReps = {}
    /\ panicked = FALSE
    /\ ballots = {}

-----------------------------------------------------------------------------
(* ticker *)

\* First critical section: copy rf.state and branch on the copy.  A leader runs
\* broadcastHeartbeats, which spawns a goroutine per other peer and touches no
\* shared state, and sleeps.  The ticker repeats this for as long as rf leads, so
\* p in beats stands for any number of goroutines that have not yet taken rf.mu.
TickerRead(p) ==
    /\ ticker[p] = "top"
    /\ IF state[p] = "Leader"
       THEN beats' = beats \cup {p} /\ UNCHANGED ticker
       ELSE ticker' = [ticker EXCEPT ![p] = "check"] /\ UNCHANGED beats
    /\ UNCHANGED <<currentTerm, votedFor, state, votesReceived, voteVars,
                   beatReqs, beatReps, panicked, ballots>>

\* Second critical section with nothing to do: rf leads by now, or no timeout.
TickerIdle(p) ==
    /\ ticker[p] = "check"
    /\ ticker' = [ticker EXCEPT ![p] = "top"]
    /\ UNCHANGED <<currentTerm, votedFor, state, votesReceived, voteVars, beatVars,
                   panicked, ballots>>

\* Mutant: the second critical section trusts the copy of rf.state.
MayStartElectionUnchecked(p) == TRUE

\* Whether the second critical section may start an election, up to time.
MayStartElection(p) == state[p] # "Leader"

\* Elections started so far: each one casts the candidate's vote for itself.
Elections == Cardinality({b \in ballots : b.voter = b.cand})

\* Mutant: the loop over rf.peers does not skip rf.me.
VoteCallsToAll(p, t) == [cand: {p}, server: Peers, term: {t}]

\* The vote calls an election of p in term t makes.
VoteCalls(p, t) == [cand: {p}, server: Peers \ {p}, term: {t}]

\* Second critical section: start an election, with a vote goroutine per peer.
StartElection(p) ==
    /\ ticker[p] = "check"
    /\ MayStartElection(p)
    /\ Elections < MaxElections
    /\ ticker' = [ticker EXCEPT ![p] = "top"]
    /\ state' = [state EXCEPT ![p] = "Candidate"]
    /\ currentTerm' = [currentTerm EXCEPT ![p] = @ + 1]
    /\ votedFor' = [votedFor EXCEPT ![p] = p]
    /\ votesReceived' = [votesReceived EXCEPT ![p] = 1]
    /\ voteReqs' = voteReqs \cup VoteCalls(p, currentTerm[p] + 1)
    /\ ballots' = ballots \cup {[voter |-> p, term |-> currentTerm[p] + 1, cand |-> p]}
    /\ UNCHANGED <<voteReps, beatVars, panicked>>

-----------------------------------------------------------------------------
(* RequestVote *)

\* Mutant: the handler does not ask for whom rf has voted.
GrantsAgain(q, m) == currentTerm[q] <= m.term

\* The handler is past its two refusals: args.Term is not stale, and rf has not
\* voted for another candidate in it.
Grants(q, m) ==
    \/ currentTerm[q] < m.term
    \/ currentTerm[q] = m.term /\ votedFor[q] \in {None, m.cand}

\* What the handler does to the server's state.
RequestVoteHandler(m) ==
    LET q     == m.server
        newer == currentTerm[q] < m.term
    IN  /\ currentTerm' = [currentTerm EXCEPT ![q] = IF newer THEN m.term ELSE @]
        /\ state' = [state EXCEPT ![q] = IF newer THEN "Follower" ELSE @]
        /\ votedFor' = [votedFor EXCEPT ![q] = IF Grants(q, m) THEN m.cand ELSE @]
        /\ ballots' = ballots \cup
             IF Grants(q, m) THEN {[voter |-> q, term |-> m.term, cand |-> m.cand]} ELSE {}
        /\ UNCHANGED <<ticker, votesReceived, beatVars, panicked>>

\* Only the granting path assigns reply.Term: a refusal carries the zero value of
\* the reply struct.
RequestVoteReply(m) ==
    LET grant == Grants(m.server, m)
    IN  [cand |-> m.cand, server |-> m.server, term |-> m.term,
         granted |-> grant, replyTerm |-> IF grant THEN m.term ELSE 0]

RequestVote(m) ==
    /\ RequestVoteHandler(m)
    /\ voteReqs' = voteReqs \ {m}
    /\ voteReps' = voteReps \cup {RequestVoteReply(m)}

\* Mutant: the majority is tested before the vote is counted.
VoteReplyLateMajority(r) ==
    LET p     == r.cand
        count == currentTerm[p] = r.term /\ r.granted
        wins  == count /\ state[p] = "Candidate" /\ Majority(votesReceived[p])
    IN  /\ voteReps' = voteReps \ {r}
        /\ votesReceived' = [votesReceived EXCEPT ![p] = IF count THEN @ + 1 ELSE @]
        /\ state' = [state EXCEPT ![p] = IF wins THEN "Leader" ELSE @]
        /\ UNCHANGED <<currentTerm, votedFor, ticker, voteReqs, beatVars, panicked, ballots>>

\* The vote goroutine after its RPC returned true.
VoteReply(r) ==
    LET p      == r.cand
        stale  == currentTerm[p] # r.term
        behind == ~stale /\ currentTerm[p] < r.replyTerm
        count  == ~stale /\ ~behind /\ r.granted
        wins   == count /\ state[p] = "Candidate" /\ Majority(votesReceived[p] + 1)
    IN  /\ voteReps' = voteReps \ {r}
        /\ currentTerm' = [currentTerm EXCEPT ![p] = IF behind THEN r.replyTerm ELSE @]
        /\ votedFor' = [votedFor EXCEPT ![p] = IF behind THEN None ELSE @]
        /\ votesReceived' = [votesReceived EXCEPT ![p] = IF count THEN @ + 1 ELSE @]
        /\ state' = [state EXCEPT ![p] = IF behind THEN "Follower"
                                         ELSE IF wins THEN "Leader" ELSE @]
        /\ UNCHANGED <<ticker, voteReqs, beatVars, panicked, ballots>>

\* The network loses the request or the reply: Call() returns false.
LoseVoteCall ==
    /\ Lossy
    /\ \/ \E m \in voteReqs : voteReqs' = voteReqs \ {m} /\ UNCHANGED voteReps
       \/ \E r \in voteReps : voteReps' = voteReps \ {r} /\ UNCHANGED voteReqs
    /\ UNCHANGED <<raftVars, beatVars, panicked, ballots>>

-----------------------------------------------------------------------------
(* Heartbeats.  A leader repeats them to every other peer, so a member of      *)
(* beatReqs or beatReps stands for any number of calls or replies in flight:   *)
(* neither a delivery nor a loss removes it.                                   *)

\* Mutant: the heartbeat goroutine does not look at rf.state again.
SendHeartbeatUnchecked(p) ==
    /\ p \in beats
    /\ beatReqs' = beatReqs \cup {[leader |-> p, term |-> currentTerm[p], entries |-> <<>>]}
    /\ UNCHANGED <<raftVars, voteVars, beats, beatReps, panicked, ballots>>

\* A heartbeat goroutine takes rf.mu: it gives up unless rf is (still, or
\* again) the leader, and sends rf's term of this moment.
SendHeartbeat(p) ==
    /\ p \in beats
    /\ state[p] = "Leader"
    /\ beatReqs' = beatReqs \cup {[leader |-> p, term |-> currentTerm[p], entries |-> <<>>]}
    /\ UNCHANGED <<raftVars, voteVars, beats, beatReps, panicked, ballots>>

\* Mutant: the handler compares args.Term, does not index args.Entries, and keeps
\* the assignments of the accepting path.
AppendEntriesHandlerAccepting(m, q) ==
    /\ m.term >= currentTerm[q]
    /\ currentTerm' = [currentTerm EXCEPT ![q] = m.term]
    /\ state' = [state EXCEPT ![q] = "Follower"]
    /\ votedFor' = [votedFor EXCEPT ![q] = None]
    /\ UNCHANGED <<ticker, votesReceived, voteVars, panicked, ballots>>

\* The handler's test, which rejects the heartbeat: it compares reply.Term, the zero
\* value, where the request's term is meant.
Rejects(q) == 0 < currentTerm[q]

\* What the handler on server q does to the server's state.  When it does not reject
\* at once it indexes args.Entries at PrevLogIndex = 0.
AppendEntriesHandler(m, q) ==
    LET panic  == ~Rejects(q) /\ Len(m.entries) = 0
        accept == ~Rejects(q) /\ ~panic
    IN  /\ panicked' = panic
        /\ currentTerm' = [currentTerm EXCEPT ![q] = IF accept THEN m.term ELSE @]
        /\ state' = [state EXCEPT ![q] = IF accept THEN "Follower" ELSE @]
        /\ votedFor' = [votedFor EXCEPT ![q] = IF accept THEN None ELSE @]
        /\ UNCHANGED <<ticker, votesReceived, voteVars, ballots>>

\* A panic produces no reply.
AppendEntries(m, q) ==
    /\ q # m.leader
    /\ AppendEntriesHandler(m, q)
    /\ beatReps' = beatReps \cup
         IF panicked' THEN {}
         ELSE {[leader |-> m.leader, success |-> ~Rejects(q), replyTerm |-> currentTerm'[q]]}
    /\ UNCHANGED <<beats, beatReqs>>

\* Mutant: any term but its own makes the sender step down.
HeartbeatReplyAnyTerm(r) ==
    LET p == r.leader
    IN  /\ currentTerm[p] # r.replyTerm
        /\ currentTerm' = [currentTerm EXCEPT ![p] = r.replyTerm]
        /\ state' = [state EXCEPT ![p] = "Follower"]
        /\ votedFor' = [votedFor EXCEPT ![p] = None]
        /\ UNCHANGED <<ticker, votesReceived, voteVars, beatVars, panicked, ballots>>

\* The heartbeat goroutine after its RPC returned true.  It looks at nothing but
\* reply.Term, whatever rf has become since it sent the heartbeat.
HeartbeatReply(r) ==
    LET p == r.leader
    IN  /\ currentTerm[p] < r.replyTerm
        /\ currentTerm' = [currentTerm EXCEPT ![p] = r.replyTerm]
        /\ state' = [state EXCEPT ![p] = "Follower"]
        /\ votedFor' = [votedFor EXCEPT ![p] = None]
        /\ UNCHANGED <<ticker, votesReceived, voteVars, beatVars, panicked, ballots>>

-----------------------------------------------------------------------------
Ticker ==
    \E p \in Peers : TickerRead(p) \/ TickerIdle(p) \/ StartElection(p)

Voting ==
    \/ \E m \in voteReqs : RequestVote(m)
    \/ \E r \in voteReps : VoteReply(r)
    \/ LoseVoteCall

Heartbeats ==
    \/ \E p \in Peers : SendHeartbeat(p)
    \/ \E m \in beatReqs, q \in Peers : AppendEntries(m, q)
    \/ \E r \in beatReps : HeartbeatReply(r)

\* Nothing runs any more in a process that has panicked.
Next == ~panicked /\ (Ticker \/ Voting \/ Heartbeats)

Spec == Init /\ [][Next]_vars

\* On a reliable network every vote call reaches its handler and every reply its
\* goroutine: labrpc delivers each after a bounded delay.
DeliverVoteReq == ~panicked /\ \E m \in voteReqs : RequestVote(m)
DeliverVoteRep == ~panicked /\ \E r \in voteReps : VoteReply(r)

LiveSpec == Spec /\ WF_vars(DeliverVoteReq) /\ WF_vars(DeliverVoteRep)

-----------------------------------------------------------------------------
(* Properties *)

\* Every field keeps its type; in particular votedFor is a peer or the -1 that
\* Make stores, and the heartbeats that are sent carry no entries.
TypeOK ==
    /\ currentTerm \in [Peers -> Terms]
    /\ votedFor \in [Peers -> Peers \cup {None}]
    /\ state \in [Peers -> States]
    /\ ticker \in [Peers -> {"top", "check"}]
    /\ votesReceived \in [Peers -> Nat]
    /\ voteReqs \subseteq VoteReq
    /\ voteReps \subseteq VoteRep
    /\ beats \subseteq Peers
    /\ beatReqs \subseteq BeatReq
    /\ beatReps \subseteq BeatRep
    /\ panicked \in BOOLEAN
    /\ ballots \subseteq Ballot

\* The peers that have voted for p in term t.
Voters(p, t) == {q \in Peers : [voter |-> q, term |-> t, cand |-> p] \in ballots}

\* The peers that p's election in term t has called and not heard from.
Outstanding(p, t) ==
    {q \in Peers : \E m \in voteReqs \cup voteReps :
                       m.cand = p /\ m.server = q /\ m.term = t}

\* No peer ever votes for two candidates in one term, in whatever order requests,
\* elections, late replies and heartbeats change votedFor and currentTerm.
OneVotePerTerm ==
    \A b, c \in ballots : b.voter = c.voter /\ b.term = c.term => b.cand = c.cand

\* No two peers believe to lead in the same term: the tester reads GetState of every
\* peer and stops with "term %d has %d (>1) leaders" (raft1/test.go).
ElectionSafety ==
    \A p, q \in Peers :
        GetState(p) = GetState(q) /\ GetState(p)[2] => p = q

\* What a ballot promises: its voter is in the ballot's term or past it, and while
\* in it remembers the vote.
BallotsRemembered ==
    \A b \in ballots :
        /\ b.term <= currentTerm[b.voter]
        /\ b.term = currentTerm[b.voter] => votedFor[b.voter] = b.cand

\* A vote call is to another peer, from an election its candidate has started, and
\* is in flight once; a granting reply has its ballot, and no reply has a term
\* above its request's.
CallsTracked ==
    /\ \A m \in voteReqs \cup voteReps : m.server # m.cand /\ m.term <= currentTerm[m.cand]
    /\ \A m \in voteReqs, r \in voteReps :
          m.cand = r.cand /\ m.server = r.server => m.term # r.term
    /\ \A r1, r2 \in voteReps :
          r1.cand = r2.cand /\ r1.server = r2.server /\ r1.term = r2.term => r1 = r2
    /\ \A r \in voteReps :
          /\ r.replyTerm <= r.term
          /\ r.granted => [voter |-> r.server, term |-> r.term, cand |-> r.cand] \in ballots

\* A leader has counted a majority in the election of its term.
LeadersCounted == \A p \in Peers : state[p] = "Leader" => Majority(votesReceived[p])

\* The term in a heartbeat's reply is one that another peer has reached.
ReplyTermsReached ==
    \A r \in beatReps : \E q \in Peers \ {r.leader} : currentTerm[q] >= r.replyTerm

\* The counter shared by the vote goroutines never exceeds the number of distinct
\* peers that voted in this very election and whose reply has been processed.
VotesBacked ==
    \A p \in Peers : state[p] # "Follower" =>
        votesReceived[p] <= Cardinality(Voters(p, currentTerm[p])
                                          \ Outstanding(p, currentTerm[p]))

\* Whatever rf becomes between the ticker's look at rf.state and the moment its
\* goroutines take rf.mu, a heartbeat carries only a term its sender was elected in.
HeartbeatsFromElected ==
    \A m \in beatReqs : Majority(Cardinality(Voters(m.leader, m.term)))

\* A leader stops leading only because another peer has reached the newer term it
\* adopts: its own ticker, racing with the votes that elect it, never deposes it.
DeposedByNewerTerm ==
    [][\A p \in Peers : GetState(p)[2] /\ ~GetState(p)'[2] =>
          /\ currentTerm'[p] > currentTerm[p]
          /\ \E q \in Peers \ {p} : currentTerm[q] >= currentTerm'[p]]_vars

\* A term never goes back, and within a term a vote is never withdrawn or changed.
PromisesKept ==
    [][\A p \in Peers :
          /\ currentTerm[p] <= currentTerm'[p]
          /\ currentTerm[p] = currentTerm'[p] /\ votedFor[p] # None
               => votedFor'[p] = votedFor[p]]_vars

\* A candidate for which a majority has voted becomes leader, unless a newer term
\* or a panic overtakes it: no vote is lost between the goroutines.
QuorumElects ==
    \A p \in Peers, t \in 1..MaxElections :
        /\ currentTerm[p] = t /\ state[p] = "Candidate"
        /\ Majority(Cardinality(Voters(p, t)))
        ~> state[p] = "Leader" \/ currentTerm[p] > t \/ panicked

\* raft.go says of the heartbeat's Entries "Empty for heartbeat": a heartbeat is a
\* legal call, and no handler panics on it.
NoPanic == ~panicked
=============================================================================
