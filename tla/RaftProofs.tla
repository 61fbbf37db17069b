----------------------------- MODULE RaftProofs -----------------------------
(***************************************************************************)
(* Proofs about RaftElection and RaftRestart, for every set of peers, any  *)
(* number of elections and restarts, and a reliable or a lossy network.    *)
(* In the second part the lemmas about RaftElection's steps are used       *)
(* again: what is left to show there is a restart, and the handlers that   *)
(* run for the calls of a dead object.                                     *)
(***************************************************************************)
EXTENDS RaftRestart, FiniteSetTheorems, TLAPS

USE DEF Terms

-----------------------------------------------------------------------------
(* Type correctness *)

LEMMA TypeInit == Init => TypeOK
<1> SUFFICES ASSUME Init
             PROVE  TypeOK
  OBVIOUS
<1>1. panicked \in BOOLEAN
  BY Zenon DEF Init
<1>2. votedFor \in [Peers -> Peers \cup {None}]
  BY DEF Init, NoVote
<1> QED
  BY <1>1, <1>2 DEF Init, TypeOK, States

LEMMA TypeTicker == TypeOK /\ Ticker => TypeOK'
<1> SUFFICES ASSUME TypeOK, NEW p \in Peers,
                    TickerRead(p) \/ TickerIdle(p) \/ StartElection(p)
             PROVE  TypeOK'
  BY DEF Ticker
<1>1. CASE TickerRead(p)
  BY <1>1 DEF TickerRead, TypeOK, voteVars
<1>2. CASE TickerIdle(p)
  BY <1>2 DEF TickerIdle, TypeOK, voteVars, beatVars
<1>3. CASE StartElection(p)
  <2>1. VoteCalls(p, currentTerm[p] + 1) \subseteq VoteReq
    BY DEF VoteCalls, VoteReq, TypeOK
  <2>2. [voter |-> p, term |-> currentTerm[p] + 1, cand |-> p] \in Ballot
    BY DEF Ballot, TypeOK
  <2> QED
    BY <1>3, <2>1, <2>2 DEF StartElection, TypeOK, States, beatVars
<1> QED
  BY <1>1, <1>2, <1>3

LEMMA TypeVoting == TypeOK /\ Voting => TypeOK'
<1> SUFFICES ASSUME TypeOK, Voting
             PROVE  TypeOK'
  OBVIOUS
<1>1. ASSUME NEW m \in voteReqs, RequestVote(m)
      PROVE  TypeOK'
  <2>1. m \in VoteReq
    BY DEF TypeOK
  <2>2. Grants(m.server, m) \in BOOLEAN
    BY DEF Grants
  <2>3. RequestVoteReply(m) \in VoteRep
    BY <2>1, <2>2 DEF RequestVoteReply, VoteReq, VoteRep
  <2>4. [voter |-> m.server, term |-> m.term, cand |-> m.cand] \in Ballot
    BY <2>1 DEF VoteReq, Ballot
  <2> QED
    BY <1>1, <2>1, <2>3, <2>4
    DEF RequestVote, RequestVoteHandler, TypeOK, VoteReq, States, beatVars
<1>2. ASSUME NEW r \in voteReps, VoteReply(r)
      PROVE  TypeOK'
  <2>1. r \in VoteRep
    BY DEF TypeOK
  <2> QED
    BY <1>2, <2>1 DEF VoteReply, TypeOK, VoteRep, States, beatVars
<1>3. CASE LoseVoteCall
  BY <1>3 DEF LoseVoteCall, TypeOK, raftVars, beatVars
<1> QED
  BY <1>1, <1>2, <1>3 DEF Voting

LEMMA TypeHeartbeats == TypeOK /\ Heartbeats => TypeOK'
<1> SUFFICES ASSUME TypeOK, Heartbeats
             PROVE  TypeOK'
  OBVIOUS
<1>1. ASSUME NEW p \in Peers, SendHeartbeat(p)
      PROVE  TypeOK'
  <2>1. [leader |-> p, term |-> currentTerm[p], entries |-> <<>>] \in BeatReq
    BY DEF BeatReq, TypeOK
  <2> QED
    BY <1>1, <2>1 DEF SendHeartbeat, TypeOK, raftVars, voteVars
<1>2. ASSUME NEW m \in beatReqs, NEW q \in Peers, AppendEntries(m, q)
      PROVE  TypeOK'
  <2>1. m \in BeatReq
    BY DEF TypeOK
  <2>2. /\ currentTerm' \in [Peers -> Terms]
        /\ Rejects(q) \in BOOLEAN
    BY <1>2, <2>1 DEF AppendEntries, AppendEntriesHandler, Rejects, TypeOK, BeatReq
  <2>3. [leader |-> m.leader, success |-> ~Rejects(q), replyTerm |-> currentTerm'[q]] \in BeatRep
    BY <2>1, <2>2 DEF BeatReq, BeatRep
  <2> QED
    BY <1>2, <2>1, <2>2, <2>3
    DEF AppendEntries, AppendEntriesHandler, TypeOK, BeatReq, States, voteVars
<1>3. ASSUME NEW r \in beatReps, HeartbeatReply(r)
      PROVE  TypeOK'
  <2>1. r \in BeatRep
    BY DEF TypeOK
  <2> QED
    BY <1>3, <2>1 DEF HeartbeatReply, TypeOK, BeatRep, States, voteVars, beatVars
<1> QED
  BY <1>1, <1>2, <1>3 DEF Heartbeats

LEMMA TypeNext == TypeOK /\ [Next]_vars => TypeOK'
<1>1. TypeOK /\ UNCHANGED vars => TypeOK'
  BY DEF TypeOK, vars, raftVars, voteVars, beatVars
<1> QED
  BY <1>1, TypeTicker, TypeVoting, TypeHeartbeats DEF Next

\* Every field of every peer, and everything in flight, keeps its type.
THEOREM TypeCorrect == Spec => []TypeOK
  BY TypeInit, TypeNext, PTL DEF Spec

-----------------------------------------------------------------------------
(* Steps that leave a peer's promises alone *)

\* The heartbeat handler never reaches its accepting path: what it changes is
\* beatReps and panicked.
LEMMA AppendEntriesNeverAccepts ==
  ASSUME TypeOK, NEW m \in beatReqs, NEW q \in Peers, AppendEntries(m, q)
  PROVE  UNCHANGED <<raftVars, voteVars, ballots, beatReqs>>
<1>1. Len(m.entries) = 0
  BY DEF TypeOK, BeatReq
<1>2. /\ currentTerm' = [currentTerm EXCEPT ![q] = @]
      /\ state' = [state EXCEPT ![q] = @]
      /\ votedFor' = [votedFor EXCEPT ![q] = @]
  BY <1>1 DEF AppendEntries, AppendEntriesHandler
<1>3. currentTerm' = currentTerm /\ state' = state /\ votedFor' = votedFor
  BY <1>2 DEF TypeOK
<1> QED
  BY <1>3 DEF AppendEntries, AppendEntriesHandler, raftVars, voteVars

\* A vote reply never carries a term above its request's, so the vote goroutine
\* never takes the branch that adopts reply.Term.
LEMMA VoteReplyCounts ==
  ASSUME TypeOK, CallsTracked, NEW r \in voteReps, VoteReply(r)
  PROVE  /\ UNCHANGED <<currentTerm, votedFor, ticker, voteReqs, beatVars, panicked, ballots>>
         /\ voteReps' = voteReps \ {r}
         /\ \/ UNCHANGED <<state, votesReceived>>
            \/ /\ r.granted /\ currentTerm[r.cand] = r.term
               /\ votesReceived' = [votesReceived EXCEPT ![r.cand] = @ + 1]
               /\ \/ UNCHANGED state
                  \/ /\ state[r.cand] = "Candidate"
                     /\ Majority(votesReceived[r.cand] + 1)
                     /\ state' = [state EXCEPT ![r.cand] = "Leader"]
<1>1. r \in VoteRep /\ r.replyTerm <= r.term
  BY DEF TypeOK, CallsTracked
<1>2. ~(currentTerm[r.cand] = r.term /\ currentTerm[r.cand] < r.replyTerm)
  BY <1>1 DEF VoteRep, TypeOK
<1>3. /\ currentTerm' = [currentTerm EXCEPT ![r.cand] = @]
      /\ votedFor' = [votedFor EXCEPT ![r.cand] = @]
  BY <1>2 DEF VoteReply
<1>4. currentTerm' = currentTerm /\ votedFor' = votedFor
  BY <1>3 DEF TypeOK
<1>5. CASE r.granted /\ currentTerm[r.cand] = r.term
  <2>1. votesReceived' = [votesReceived EXCEPT ![r.cand] = @ + 1]
    BY <1>2, <1>5 DEF VoteReply
  <2>2. CASE state[r.cand] = "Candidate" /\ Majority(votesReceived[r.cand] + 1)
    BY <1>2, <1>4, <1>5, <2>1, <2>2 DEF VoteReply
  <2>3. CASE ~(state[r.cand] = "Candidate" /\ Majority(votesReceived[r.cand] + 1))
    <3>1. state' = [state EXCEPT ![r.cand] = @]
      BY <1>2, <1>5, <2>3 DEF VoteReply
    <3>2. UNCHANGED state
      BY <3>1 DEF TypeOK
    <3> QED
      BY <1>4, <1>5, <2>1, <3>2 DEF VoteReply
  <2> QED
    BY <2>2, <2>3
<1>6. CASE ~(r.granted /\ currentTerm[r.cand] = r.term)
  <2>1. /\ state' = [state EXCEPT ![r.cand] = @]
        /\ votesReceived' = [votesReceived EXCEPT ![r.cand] = @]
    BY <1>2, <1>6 DEF VoteReply
  <2>2. UNCHANGED <<state, votesReceived>>
    BY <2>1 DEF TypeOK
  <2> QED
    BY <1>4, <2>2 DEF VoteReply
<1> QED
  BY <1>5, <1>6

\* The steps that change no term, vote, role or count: the ticker's idle steps, a
\* heartbeat sent or handled, a lost vote call.
Quiet ==
    /\ UNCHANGED <<currentTerm, votedFor, state, votesReceived, ballots>>
    /\ voteReqs' \subseteq voteReqs
    /\ voteReps' \subseteq voteReps

LEMMA StepCases ==
  ASSUME TypeOK, [Next]_vars
  PROVE  \/ Quiet
         \/ \E p \in Peers : StartElection(p)
         \/ \E m \in voteReqs : RequestVote(m)
         \/ \E r \in voteReps : VoteReply(r)
         \/ \E r \in beatReps : HeartbeatReply(r)
<1>1. UNCHANGED vars => Quiet
  BY DEF vars, raftVars, voteVars, Quiet
<1>2. \A p \in Peers : TickerRead(p) \/ TickerIdle(p) => Quiet
  BY DEF TickerRead, TickerIdle, voteVars, Quiet
<1>3. LoseVoteCall => Quiet
  BY DEF LoseVoteCall, raftVars, Quiet
<1>4. \A p \in Peers : SendHeartbeat(p) => Quiet
  BY DEF SendHeartbeat, raftVars, voteVars, Quiet
<1>5. \A m \in beatReqs, q \in Peers : AppendEntries(m, q) => Quiet
  BY AppendEntriesNeverAccepts DEF raftVars, voteVars, Quiet
<1> QED
  BY <1>1, <1>2, <1>3, <1>4, <1>5 DEF Next, Ticker, Voting, Heartbeats

-----------------------------------------------------------------------------
(* One vote per term *)

LEMMA BallotsInductive ==
  ASSUME TypeOK, CallsTracked, BallotsRemembered, [Next]_vars
  PROVE  BallotsRemembered'
<1>1. CASE Quiet
  BY <1>1 DEF Quiet, BallotsRemembered
<1>2. ASSUME NEW p \in Peers, StartElection(p)
      PROVE  BallotsRemembered'
  BY <1>2 DEF StartElection, BallotsRemembered, TypeOK, Ballot
<1>3. ASSUME NEW m \in voteReqs, RequestVote(m)
      PROVE  BallotsRemembered'
  <2> DEFINE q == m.server
             b == [voter |-> q, term |-> m.term, cand |-> m.cand]
  <2>1. m \in VoteReq
    BY DEF TypeOK
  \* The server keeps a vote of its term, or enters a newer term than any ballot's.
  <2>2. /\ currentTerm[q] <= currentTerm'[q]
        /\ currentTerm[q] = currentTerm'[q] /\ votedFor[q] \in Peers => votedFor'[q] = votedFor[q]
        /\ Grants(q, m) => currentTerm'[q] = m.term /\ votedFor'[q] = m.cand
    BY <1>3, <2>1, PeersAssumption DEF RequestVote, RequestVoteHandler, Grants, TypeOK, VoteReq
  <2>3. \A p \in Peers \ {q} : currentTerm'[p] = currentTerm[p] /\ votedFor'[p] = votedFor[p]
    BY <1>3, <2>1 DEF RequestVote, RequestVoteHandler, TypeOK, VoteReq
  <2>4. \A c \in ballots' : c \in ballots \/ (c = b /\ Grants(q, m))
    BY <1>3 DEF RequestVote, RequestVoteHandler
  <2>5. \A c \in ballots : /\ c.term <= currentTerm'[c.voter]
                           /\ c.term = currentTerm'[c.voter] => votedFor'[c.voter] = c.cand
    <3>1. currentTerm' \in [Peers -> Nat]
      BY <1>3, <2>1 DEF RequestVote, RequestVoteHandler, TypeOK, VoteReq
    <3> QED
      BY <2>1, <2>2, <2>3, <3>1 DEF BallotsRemembered, TypeOK, Ballot, VoteReq
  <2> QED
    BY <2>1, <2>2, <2>4, <2>5 DEF BallotsRemembered, VoteReq
<1>4. ASSUME NEW r \in voteReps, VoteReply(r)
      PROVE  BallotsRemembered'
  BY <1>4, VoteReplyCounts DEF BallotsRemembered
<1>5. ASSUME NEW r \in beatReps, HeartbeatReply(r)
      PROVE  BallotsRemembered'
  BY <1>5 DEF HeartbeatReply, BallotsRemembered, TypeOK, Ballot, BeatRep
<1> QED
  BY <1>1, <1>2, <1>3, <1>4, <1>5, StepCases

LEMMA OneVoteInductive ==
  ASSUME TypeOK, CallsTracked, BallotsRemembered, OneVotePerTerm, [Next]_vars
  PROVE  OneVotePerTerm'
<1>1. CASE Quiet
  BY <1>1 DEF Quiet, OneVotePerTerm
<1>2. ASSUME NEW p \in Peers, StartElection(p)
      PROVE  OneVotePerTerm'
  \* No ballot of p is in the term that p enters.
  <2>1. \A b \in ballots : b.voter = p => b.term # currentTerm[p] + 1
    BY DEF BallotsRemembered, TypeOK, Ballot
  <2> QED
    BY <1>2, <2>1 DEF StartElection, OneVotePerTerm, TypeOK, Ballot
<1>3. ASSUME NEW m \in voteReqs, RequestVote(m)
      PROVE  OneVotePerTerm'
  \* Where the handler grants, the server has no ballot of that term for another.
  <2>1. \A b \in ballots : b.voter = m.server /\ b.term = m.term /\ Grants(m.server, m)
                             => b.cand = m.cand
    BY PeersAssumption DEF BallotsRemembered, Grants, TypeOK, Ballot, VoteReq
  <2>2. CASE Grants(m.server, m)
    <3>1. ballots' = ballots \cup {[voter |-> m.server, term |-> m.term, cand |-> m.cand]}
      BY <1>3, <2>2 DEF RequestVote, RequestVoteHandler
    <3> QED
      BY <2>1, <2>2, <3>1 DEF OneVotePerTerm
  <2>3. CASE ~Grants(m.server, m)
    BY <1>3, <2>3 DEF RequestVote, RequestVoteHandler, OneVotePerTerm
  <2> QED
    BY <2>2, <2>3
<1>4. ASSUME NEW r \in voteReps, VoteReply(r)
      PROVE  OneVotePerTerm'
  BY <1>4 DEF VoteReply, OneVotePerTerm
<1>5. ASSUME NEW r \in beatReps, HeartbeatReply(r)
      PROVE  OneVotePerTerm'
  BY <1>5 DEF HeartbeatReply, OneVotePerTerm
<1> QED
  BY <1>1, <1>2, <1>3, <1>4, <1>5, StepCases

-----------------------------------------------------------------------------
(* Vote calls *)

LEMMA CallsInductive ==
  ASSUME TypeOK, CallsTracked, [Next]_vars
  PROVE  CallsTracked'
<1>1. CASE Quiet
  BY <1>1 DEF Quiet, CallsTracked
<1>2. ASSUME NEW p \in Peers, StartElection(p)
      PROVE  CallsTracked'
  <2>1. \A m \in voteReqs' :
           \/ m \in voteReqs
           \/ m.cand = p /\ m.server # p /\ m.term = currentTerm[p] + 1
    BY <1>2 DEF StartElection, VoteCalls
  <2>2. \A q \in Peers : currentTerm'[q] = IF q = p THEN currentTerm[p] + 1 ELSE currentTerm[q]
    BY <1>2 DEF StartElection, TypeOK
  <2>3. voteReps' = voteReps /\ ballots \subseteq ballots'
    BY <1>2 DEF StartElection
  <2>4. \A m \in voteReqs' \cup voteReps' :
           m.server # m.cand /\ m.term <= currentTerm'[m.cand]
    BY <2>1, <2>2, <2>3 DEF CallsTracked, TypeOK, VoteReq, VoteRep
  <2>5. \A m \in voteReqs', r \in voteReps' :
          m.cand = r.cand /\ m.server = r.server => m.term # r.term
    BY <2>1, <2>3 DEF CallsTracked, TypeOK, VoteRep
  <2> QED
    BY <2>3, <2>4, <2>5 DEF CallsTracked
<1>3. ASSUME NEW m \in voteReqs, RequestVote(m)
      PROVE  CallsTracked'
  <2> DEFINE rep == RequestVoteReply(m)
  <2>1. /\ m \in VoteReq
        /\ rep \in VoteRep
        /\ rep.cand = m.cand /\ rep.server = m.server /\ rep.term = m.term
        /\ rep.replyTerm <= rep.term
        /\ rep.granted <=> Grants(m.server, m)
    BY DEF RequestVoteReply, TypeOK, VoteReq, VoteRep, Grants
  <2> HIDE DEF rep
  <2>2. voteReqs' = voteReqs \ {m} /\ voteReps' = voteReps \cup {rep} /\ ballots \subseteq ballots'
    BY <1>3 DEF RequestVote, RequestVoteHandler, rep
  <2>3. \A q \in Peers : currentTerm[q] <= currentTerm'[q]
    BY <1>3 DEF RequestVote, RequestVoteHandler, TypeOK, VoteReq
  <2>4. rep.granted => [voter |-> rep.server, term |-> rep.term, cand |-> rep.cand] \in ballots'
    BY <1>3, <2>1 DEF RequestVote, RequestVoteHandler
  <2>5. \A c \in voteReqs' \cup voteReps' : c.server # c.cand /\ c.term <= currentTerm'[c.cand]
    <3>1. currentTerm' \in [Peers -> Nat]
      BY <1>3 DEF RequestVote, RequestVoteHandler, TypeOK, VoteReq
    <3> QED
      BY <2>1, <2>2, <2>3, <3>1 DEF CallsTracked, TypeOK, VoteReq, VoteRep
  <2>6. \A c \in voteReqs', r \in voteReps' :
          c.cand = r.cand /\ c.server = r.server => c.term # r.term
    <3>1. \A c \in voteReqs' : c.cand = m.cand /\ c.server = m.server => c.term # m.term
      BY <2>2 DEF TypeOK, VoteReq
    <3> QED
      BY <2>1, <2>2, <3>1 DEF CallsTracked
  <2>7. \A r1, r2 \in voteReps' :
          r1.cand = r2.cand /\ r1.server = r2.server /\ r1.term = r2.term => r1 = r2
    BY <2>1, <2>2 DEF CallsTracked
  <2> QED
    BY <2>1, <2>2, <2>4, <2>5, <2>6, <2>7 DEF CallsTracked
<1>4. ASSUME NEW r \in voteReps, VoteReply(r)
      PROVE  CallsTracked'
  BY <1>4, VoteReplyCounts DEF CallsTracked
<1>5. ASSUME NEW r \in beatReps, HeartbeatReply(r)
      PROVE  CallsTracked'
  <2>1. /\ currentTerm' \in [Peers -> Nat]
        /\ \A q \in Peers : currentTerm[q] <= currentTerm'[q]
    BY <1>5 DEF HeartbeatReply, TypeOK, BeatRep
  <2>2. UNCHANGED <<voteReqs, voteReps, ballots>>
    BY <1>5 DEF HeartbeatReply, voteVars
  <2> QED
    BY <2>1, <2>2 DEF CallsTracked, TypeOK, VoteReq, VoteRep
<1> QED
  BY <1>1, <1>2, <1>3, <1>4, <1>5, StepCases

\* Each peer casts at most one vote in a term.
THEOREM VotesUnique == Spec => []OneVotePerTerm
<1>1. Init => CallsTracked /\ BallotsRemembered /\ OneVotePerTerm
  BY DEF Init, CallsTracked, BallotsRemembered, OneVotePerTerm
<1> QED
  BY <1>1, TypeInit, TypeNext, CallsInductive, BallotsInductive, OneVoteInductive, PTL DEF Spec

-----------------------------------------------------------------------------
(* Counted votes *)

\* The peers that have voted in p's current election and been heard.
Heard(p) == Voters(p, currentTerm[p]) \ Outstanding(p, currentTerm[p])

LEMMA SubsetCardinality ==
  ASSUME NEW T \in SUBSET Peers, NEW S \in SUBSET T
  PROVE  /\ IsFiniteSet(S) /\ IsFiniteSet(T)
         /\ Cardinality(S) \in Nat /\ Cardinality(T) \in Nat
         /\ Cardinality(S) <= Cardinality(T)
<1>1. IsFiniteSet(T)
  BY PeersAssumption, FS_Subset
<1>2. IsFiniteSet(S) /\ Cardinality(S) <= Cardinality(T)
  BY <1>1, FS_Subset
<1> QED
  BY <1>1, <1>2, FS_CardinalityType

\* A peer whose count and term do not change stays backed when nobody it has heard
\* is forgotten.
LEMMA BackedMonotone ==
  ASSUME TypeOK, VotesBacked, NEW p \in Peers, state[p] # "Follower",
         votesReceived'[p] = votesReceived[p], Heard(p) \subseteq Heard(p)'
  PROVE  votesReceived'[p] <= Cardinality(Heard(p))'
<1>1. Heard(p)' \subseteq Peers
  BY DEF Heard, Voters
<1>2. /\ Cardinality(Heard(p)) \in Nat /\ Cardinality(Heard(p)') \in Nat
      /\ Cardinality(Heard(p)) <= Cardinality(Heard(p)')
  BY <1>1, SubsetCardinality
<1>3. votesReceived[p] \in Nat /\ votesReceived[p] <= Cardinality(Heard(p))
  BY DEF VotesBacked, Heard, TypeOK
<1> QED
  BY <1>2, <1>3

LEMMA BackedInductive ==
  ASSUME TypeOK, CallsTracked, VotesBacked, [Next]_vars
  PROVE  VotesBacked'
<1> SUFFICES ASSUME NEW c \in Peers, state'[c] # "Follower"
             PROVE  votesReceived'[c] <= Cardinality(Heard(c))'
  BY DEF VotesBacked, Heard
<1>1. CASE Quiet
  <2>1. Heard(c) \subseteq Heard(c)'
    BY <1>1 DEF Quiet, Heard, Voters, Outstanding
  <2> QED
    BY <1>1, <2>1, BackedMonotone DEF Quiet
<1>2. ASSUME NEW p \in Peers, StartElection(p)
      PROVE  votesReceived'[c] <= Cardinality(Heard(c))'
  <2>1. CASE c = p
    <3>1. currentTerm'[p] = currentTerm[p] + 1 /\ votesReceived'[p] = 1
      BY <1>2 DEF StartElection, TypeOK
    <3>2. p \in Voters(p, currentTerm[p])'
      BY <1>2, <3>1 DEF StartElection, Voters
    <3>3. p \notin Outstanding(p, currentTerm[p])'
      BY CallsInductive DEF CallsTracked, Outstanding
    <3>4. {p} \subseteq Heard(p)' /\ Heard(p)' \subseteq Peers
      BY <3>2, <3>3 DEF Heard, Voters
    <3>5. Cardinality({p}) = 1
      BY FS_Singleton
    <3> QED
      BY <2>1, <3>1, <3>4, <3>5, SubsetCardinality
  <2>2. CASE c # p
    <3>1. /\ currentTerm'[c] = currentTerm[c] /\ votesReceived'[c] = votesReceived[c]
          /\ state'[c] = state[c]
      BY <1>2, <2>2 DEF StartElection, TypeOK
    <3>2. \A m \in voteReqs' \cup voteReps' : m.cand = c => m \in voteReqs \cup voteReps
      BY <1>2, <2>2 DEF StartElection, VoteCalls
    <3>3. Heard(c) \subseteq Heard(c)'
      BY <1>2, <3>1, <3>2 DEF StartElection, Heard, Voters, Outstanding
    <3> QED
      BY <3>1, <3>3, BackedMonotone
  <2> QED
    BY <2>1, <2>2
<1>3. ASSUME NEW m \in voteReqs, RequestVote(m)
      PROVE  votesReceived'[c] <= Cardinality(Heard(c))'
  <2>1. /\ currentTerm'[c] = currentTerm[c] /\ state'[c] = state[c]
        /\ votesReceived'[c] = votesReceived[c] /\ ballots \subseteq ballots'
    BY <1>3 DEF RequestVote, RequestVoteHandler, TypeOK, VoteReq
  \* The call moves from voteReqs to voteReps: it stays outstanding.
  <2>2. \A n \in voteReqs' \cup voteReps' : \E o \in voteReqs \cup voteReps :
           n.cand = o.cand /\ n.server = o.server /\ n.term = o.term
    BY <1>3 DEF RequestVote, RequestVoteReply
  <2>3. Heard(c) \subseteq Heard(c)'
    BY <2>1, <2>2 DEF Heard, Voters, Outstanding
  <2> QED
    BY <2>1, <2>3, BackedMonotone
<1>4. ASSUME NEW r \in voteReps, VoteReply(r)
      PROVE  votesReceived'[c] <= Cardinality(Heard(c))'
  <2>1. /\ currentTerm' = currentTerm /\ ballots' = ballots /\ voteReqs' = voteReqs
        /\ voteReps' = voteReps \ {r}
    BY <1>4, VoteReplyCounts
  <2>2. state[c] # "Follower"
    BY <1>4, VoteReplyCounts DEF TypeOK
  <2>3. Heard(c) \subseteq Heard(c)'
    BY <2>1 DEF Heard, Voters, Outstanding
  <2>4. CASE votesReceived'[c] = votesReceived[c]
    BY <2>2, <2>3, <2>4, BackedMonotone
  <2>5. CASE votesReceived'[c] # votesReceived[c]
    <3>1. /\ c = r.cand /\ r.granted /\ currentTerm[c] = r.term
          /\ votesReceived'[c] = votesReceived[c] + 1
      BY <1>4, <2>5, VoteReplyCounts DEF TypeOK
    <3>2. r \in VoteRep
      BY DEF TypeOK
    <3>3. r.server \in Outstanding(c, currentTerm[c])
      BY <3>1, <3>2 DEF Outstanding, VoteRep
    \* The call was in flight once, so it is outstanding no longer.
    <3>4. r.server \notin Outstanding(c, currentTerm[c])'
      BY <2>1, <3>1 DEF Outstanding, CallsTracked
    <3>5. r.server \in Voters(c, currentTerm[c])'
      BY <2>1, <3>1, <3>2 DEF Voters, CallsTracked, VoteRep
    <3>6. /\ Heard(c) \cup {r.server} \subseteq Heard(c)' /\ r.server \notin Heard(c)
          /\ Heard(c)' \subseteq Peers
      BY <2>3, <3>3, <3>4, <3>5 DEF Heard, Voters
    <3>7. IsFiniteSet(Heard(c))
      BY <3>6, SubsetCardinality
    <3>8. Cardinality(Heard(c) \cup {r.server}) = Cardinality(Heard(c)) + 1
      BY <3>6, <3>7, FS_AddElement
    <3>9. /\ Cardinality(Heard(c) \cup {r.server}) <= Cardinality(Heard(c)')
          /\ Cardinality(Heard(c)) \in Nat /\ Cardinality(Heard(c)') \in Nat
      BY <3>6, <2>3, SubsetCardinality
    <3>10. votesReceived[c] \in Nat /\ votesReceived[c] <= Cardinality(Heard(c))
      BY <2>2 DEF VotesBacked, Heard, TypeOK
    <3> QED
      BY <3>1, <3>8, <3>9, <3>10
  <2> QED
    BY <2>4, <2>5
<1>5. ASSUME NEW r \in beatReps, HeartbeatReply(r)
      PROVE  votesReceived'[c] <= Cardinality(Heard(c))'
  <2>1. /\ currentTerm'[c] = currentTerm[c] /\ state'[c] = state[c]
        /\ UNCHANGED <<votesReceived, voteReqs, voteReps, ballots>>
    BY <1>5 DEF HeartbeatReply, voteVars, TypeOK, BeatRep
  <2>2. Heard(c) \subseteq Heard(c)'
    BY <2>1 DEF Heard, Voters, Outstanding
  <2> QED
    BY <2>1, <2>2, BackedMonotone
<1> QED
  BY <1>1, <1>2, <1>3, <1>4, <1>5, StepCases

\* A candidate counts only votes that were cast for it, in its term, by distinct
\* peers.
THEOREM CountsBacked == Spec => []VotesBacked
<1>1. Init => CallsTracked /\ VotesBacked
  BY DEF Init, CallsTracked, VotesBacked
<1> QED
  BY <1>1, TypeInit, TypeNext, CallsInductive, BackedInductive, PTL DEF Spec

-----------------------------------------------------------------------------
(* At most one leader per term *)

LEMMA PeersCardinality == Cardinality(Peers) \in Nat
  BY PeersAssumption, FS_CardinalityType

LEMMA LeadersInductive ==
  ASSUME TypeOK, CallsTracked, LeadersCounted, [Next]_vars
  PROVE  LeadersCounted'
<1> SUFFICES ASSUME NEW p \in Peers, state'[p] = "Leader"
             PROVE  Majority(votesReceived'[p])
  BY DEF LeadersCounted, Majority
<1>1. CASE Quiet
  BY <1>1 DEF Quiet, LeadersCounted
<1>2. ASSUME NEW c \in Peers, StartElection(c)
      PROVE  Majority(votesReceived'[p])
  <2>1. p # c /\ state[p] = "Leader" /\ votesReceived'[p] = votesReceived[p]
    BY <1>2 DEF StartElection, TypeOK
  <2> QED
    BY <2>1 DEF LeadersCounted
<1>3. ASSUME NEW m \in voteReqs, RequestVote(m)
      PROVE  Majority(votesReceived'[p])
  <2>1. state[p] = "Leader" /\ votesReceived' = votesReceived
    BY <1>3 DEF RequestVote, RequestVoteHandler, TypeOK, VoteReq
  <2> QED
    BY <2>1 DEF LeadersCounted
<1>4. ASSUME NEW r \in voteReps, VoteReply(r)
      PROVE  Majority(votesReceived'[p])
  <2>1. CASE state[p] = "Leader"
    <3>1. votesReceived'[p] \in {votesReceived[p], votesReceived[p] + 1}
      BY <1>4, VoteReplyCounts DEF TypeOK
    <3> QED
      BY <2>1, <3>1, PeersCardinality DEF LeadersCounted, Majority, TypeOK
  <2>2. CASE state[p] # "Leader"
    <3>1. Majority(votesReceived[p] + 1) /\ votesReceived'[p] = votesReceived[p] + 1
      BY <1>4, <2>2, VoteReplyCounts DEF TypeOK
    <3> QED
      BY <3>1
  <2> QED
    BY <2>1, <2>2
<1>5. ASSUME NEW r \in beatReps, HeartbeatReply(r)
      PROVE  Majority(votesReceived'[p])
  <2>1. state[p] = "Leader" /\ votesReceived' = votesReceived
    BY <1>5 DEF HeartbeatReply, TypeOK, BeatRep
  <2> QED
    BY <2>1 DEF LeadersCounted
<1> QED
  BY <1>1, <1>2, <1>3, <1>4, <1>5, StepCases

\* A leader has the votes of a majority in its term.
LEMMA LeadersElected ==
  ASSUME TypeOK, VotesBacked, LeadersCounted, NEW p \in Peers, state[p] = "Leader"
  PROVE  Majority(Cardinality(Voters(p, currentTerm[p])))
<1>1. Heard(p) \subseteq Voters(p, currentTerm[p]) /\ Voters(p, currentTerm[p]) \subseteq Peers
  BY DEF Heard, Voters
<1>2. /\ Cardinality(Heard(p)) <= Cardinality(Voters(p, currentTerm[p]))
      /\ Cardinality(Heard(p)) \in Nat /\ Cardinality(Voters(p, currentTerm[p])) \in Nat
  BY <1>1, SubsetCardinality
<1>3. votesReceived[p] <= Cardinality(Heard(p)) /\ votesReceived[p] \in Nat
  BY DEF VotesBacked, Heard, TypeOK
<1>4. votesReceived[p] > Cardinality(Peers) \div 2
  BY DEF LeadersCounted, Majority
<1> QED
  BY <1>2, <1>3, <1>4, PeersCardinality DEF Majority

LEMMA MajoritiesMeet ==
  ASSUME NEW p \in Peers, NEW q \in Peers, NEW t,
         Majority(Cardinality(Voters(p, t))), Majority(Cardinality(Voters(q, t)))
  PROVE  \E v \in Peers : v \in Voters(p, t) /\ v \in Voters(q, t)
<1>1. Voters(p, t) \subseteq Peers /\ Voters(q, t) \subseteq Peers
  BY DEF Voters
<1>2. Cardinality(Voters(p, t)) \in Nat /\ Cardinality(Voters(q, t)) \in Nat
  BY <1>1, SubsetCardinality
<1>3. Cardinality(Voters(p, t)) + Cardinality(Voters(q, t)) > Cardinality(Peers)
  BY <1>2, PeersCardinality DEF Majority
<1> QED
  BY <1>1, <1>3, PeersAssumption, FS_MajoritiesIntersect

\* Two majorities of one term share a voter, who has one vote.
LEMMA OneLeader ==
  ASSUME TypeOK, OneVotePerTerm, VotesBacked, LeadersCounted
  PROVE  ElectionSafety
<1> SUFFICES ASSUME NEW p \in Peers, NEW q \in Peers, state[p] = "Leader", state[q] = "Leader",
                    currentTerm[p] = currentTerm[q]
             PROVE  p = q
  BY DEF ElectionSafety, GetState
<1> DEFINE t == currentTerm[p]
<1>1. Majority(Cardinality(Voters(p, t))) /\ Majority(Cardinality(Voters(q, t)))
  BY LeadersElected
<1>2. PICK v \in Peers : v \in Voters(p, t) /\ v \in Voters(q, t)
  BY <1>1, MajoritiesMeet
<1>3. /\ [voter |-> v, term |-> t, cand |-> p] \in ballots
      /\ [voter |-> v, term |-> t, cand |-> q] \in ballots
  BY <1>2 DEF Voters
<1> QED
  BY <1>3 DEF OneVotePerTerm

\* Everything the safety of elections rests on.
ElectionInv ==
    TypeOK /\ CallsTracked /\ BallotsRemembered /\ OneVotePerTerm /\ VotesBacked /\ LeadersCounted

LEMMA ElectionInvHolds == Spec => []ElectionInv
<1>1. Init => ElectionInv
  BY TypeInit DEF Init, ElectionInv, CallsTracked, BallotsRemembered, OneVotePerTerm,
                  VotesBacked, LeadersCounted
<1>2. ElectionInv /\ [Next]_vars => ElectionInv'
  BY TypeNext, CallsInductive, BallotsInductive, OneVoteInductive, BackedInductive,
     LeadersInductive DEF ElectionInv
<1> QED
  BY <1>1, <1>2, PTL DEF Spec

\* No two peers ever believe to lead in the same term.
THEOREM AtMostOneLeader == Spec => []ElectionSafety
<1>1. ElectionInv => ElectionSafety
  BY OneLeader DEF ElectionInv
<1> QED
  BY <1>1, ElectionInvHolds, PTL

-----------------------------------------------------------------------------
(* What a step may never do *)

\* Terms do not go back, and a vote stands for as long as its term lasts.
VotesStand ==
    \A p \in Peers :
        /\ currentTerm[p] <= currentTerm'[p]
        /\ currentTerm[p] = currentTerm'[p] /\ votedFor[p] # None => votedFor'[p] = votedFor[p]

LEMMA VotesStandNext ==
  ASSUME TypeOK, CallsTracked, [Next]_vars
  PROVE  VotesStand
<1>1. CASE Quiet
  BY <1>1 DEF Quiet, TypeOK, VotesStand
<1>2. ASSUME NEW p \in Peers, StartElection(p)
      PROVE  VotesStand
  BY <1>2 DEF StartElection, TypeOK, VotesStand
<1>3. ASSUME NEW m \in voteReqs, RequestVote(m)
      PROVE  VotesStand
  BY <1>3 DEF RequestVote, RequestVoteHandler, Grants, TypeOK, VoteReq, VotesStand
<1>4. ASSUME NEW r \in voteReps, VoteReply(r)
      PROVE  VotesStand
  BY <1>4, VoteReplyCounts DEF TypeOK, VotesStand
<1>5. ASSUME NEW r \in beatReps, HeartbeatReply(r)
      PROVE  VotesStand
  BY <1>5 DEF HeartbeatReply, TypeOK, BeatRep, VotesStand
<1> QED
  BY <1>1, <1>2, <1>3, <1>4, <1>5, StepCases

\* No step takes a term back, or withdraws or changes a vote within its term.
THEOREM PromisesAreKept == Spec => PromisesKept
<1>1. ElectionInv /\ [Next]_vars => [VotesStand]_vars
  BY VotesStandNext DEF ElectionInv
<1> QED
  BY <1>1, ElectionInvHolds, PTL DEF Spec, PromisesKept, VotesStand

LEMMA ReplyTermsInductive ==
  ASSUME TypeOK, CallsTracked, ReplyTermsReached, [Next]_vars
  PROVE  ReplyTermsReached'
<1>1. TypeOK'
  BY TypeNext
<1>2. \A r \in beatReps : \E q \in Peers \ {r.leader} : currentTerm'[q] >= r.replyTerm
  <2> SUFFICES ASSUME NEW r \in beatReps
               PROVE  \E q \in Peers \ {r.leader} : currentTerm'[q] >= r.replyTerm
    OBVIOUS
  <2>1. PICK q \in Peers \ {r.leader} : currentTerm[q] >= r.replyTerm
    BY DEF ReplyTermsReached
  <2>2. currentTerm[q] <= currentTerm'[q]
    BY VotesStandNext DEF VotesStand
  <2>3. currentTerm[q] \in Nat /\ currentTerm'[q] \in Nat /\ r.replyTerm \in Nat
    BY <1>1 DEF TypeOK, BeatRep
  <2> QED
    BY <2>1, <2>2, <2>3
<1>3. CASE beatReps' \subseteq beatReps
  BY <1>2, <1>3 DEF ReplyTermsReached
<1>4. ASSUME NEW m \in beatReqs, NEW q \in Peers, AppendEntries(m, q)
      PROVE  ReplyTermsReached'
  <2>1. \A r \in beatReps' : r \in beatReps \/ (r.leader = m.leader /\ r.replyTerm = currentTerm'[q])
    BY <1>4 DEF AppendEntries
  <2>2. q # m.leader /\ currentTerm'[q] >= currentTerm'[q]
    BY <1>1, <1>4 DEF AppendEntries, TypeOK
  <2> QED
    BY <1>2, <2>1, <2>2 DEF ReplyTermsReached
<1>5. beatReps' \subseteq beatReps \/ \E m \in beatReqs, q \in Peers : AppendEntries(m, q)
  <2>1. Ticker => beatReps' = beatReps
    BY DEF Ticker, TickerRead, TickerIdle, StartElection, beatVars
  <2>2. Voting => beatReps' = beatReps
    BY DEF Voting, RequestVote, RequestVoteHandler, VoteReply, LoseVoteCall, beatVars
  <2>3. Heartbeats => beatReps' = beatReps \/ \E m \in beatReqs, q \in Peers : AppendEntries(m, q)
    BY DEF Heartbeats, SendHeartbeat, HeartbeatReply, beatVars
  <2> QED
    BY <2>1, <2>2, <2>3 DEF Next, vars, beatVars
<1> QED
  BY <1>3, <1>4, <1>5

\* A leader is deposed only by a newer term that another peer has reached.
THEOREM LeadersDeposedByTerm == Spec => DeposedByNewerTerm
<1> DEFINE Deposed == \A p \in Peers : GetState(p)[2] /\ ~GetState(p)'[2] =>
              /\ currentTerm'[p] > currentTerm[p]
              /\ \E q \in Peers \ {p} : currentTerm[q] >= currentTerm'[p]
<1>1. ASSUME ElectionInv, ReplyTermsReached, [Next]_vars
      PROVE  Deposed
  <2> USE <1>1 DEF ElectionInv
  <2> SUFFICES ASSUME NEW p \in Peers, state[p] = "Leader", state'[p] # "Leader"
               PROVE  /\ currentTerm'[p] > currentTerm[p]
                      /\ \E q \in Peers \ {p} : currentTerm[q] >= currentTerm'[p]
    BY DEF GetState
  <2>1. CASE Quiet
    BY <2>1 DEF Quiet
  <2>2. ASSUME NEW c \in Peers, StartElection(c)
        PROVE  FALSE
    BY <2>2 DEF StartElection, MayStartElection, TypeOK
  <2>3. ASSUME NEW m \in voteReqs, RequestVote(m)
        PROVE  /\ currentTerm'[p] > currentTerm[p]
               /\ \E q \in Peers \ {p} : currentTerm[q] >= currentTerm'[p]
    <3>1. m \in VoteReq /\ m.cand # m.server /\ m.term <= currentTerm[m.cand]
      BY DEF CallsTracked, TypeOK
    <3>2. p = m.server /\ currentTerm[p] < m.term /\ currentTerm'[p] = m.term
      BY <2>3, <3>1 DEF RequestVote, RequestVoteHandler, TypeOK, VoteReq
    <3> QED
      BY <3>1, <3>2 DEF VoteReq, TypeOK
  <2>4. ASSUME NEW r \in voteReps, VoteReply(r)
        PROVE  FALSE
    BY <2>4, VoteReplyCounts DEF TypeOK
  <2>5. ASSUME NEW r \in beatReps, HeartbeatReply(r)
        PROVE  /\ currentTerm'[p] > currentTerm[p]
               /\ \E q \in Peers \ {p} : currentTerm[q] >= currentTerm'[p]
    <3>1. p = r.leader /\ currentTerm[p] < r.replyTerm /\ currentTerm'[p] = r.replyTerm
      BY <2>5 DEF HeartbeatReply, TypeOK, BeatRep
    <3> QED
      BY <3>1 DEF ReplyTermsReached, TypeOK, BeatRep
  <2> QED
    BY <2>1, <2>2, <2>3, <2>4, <2>5, StepCases
<1>2. Init => ReplyTermsReached
  BY DEF Init, ReplyTermsReached
<1>3. ElectionInv /\ ReplyTermsReached /\ [Next]_vars => ReplyTermsReached'
  BY ReplyTermsInductive DEF ElectionInv
<1> QED
  BY <1>1, <1>2, <1>3, ElectionInvHolds, PTL DEF Spec, DeposedByNewerTerm

\* Only elected peers' terms are ever sent in a heartbeat.
THEOREM HeartbeatsElected == Spec => []HeartbeatsFromElected
<1>1. ASSUME ElectionInv, HeartbeatsFromElected, [Next]_vars
      PROVE  HeartbeatsFromElected'
  <2> USE <1>1 DEF ElectionInv
  <2>1. ballots \subseteq ballots'
    BY StepCases DEF Quiet, StartElection, RequestVote, RequestVoteHandler, VoteReply, HeartbeatReply
  <2>2. ASSUME NEW p \in Peers, NEW t \in Nat, Majority(Cardinality(Voters(p, t)))
        PROVE  Majority(Cardinality(Voters(p, t)'))
    <3>1. Voters(p, t) \subseteq Voters(p, t)' /\ Voters(p, t)' \subseteq Peers
      BY <2>1 DEF Voters
    <3>2. /\ Cardinality(Voters(p, t)) <= Cardinality(Voters(p, t)')
          /\ Cardinality(Voters(p, t)) \in Nat /\ Cardinality(Voters(p, t)') \in Nat
      BY <3>1, SubsetCardinality
    <3> QED
      BY <2>2, <3>2, PeersCardinality DEF Majority
  <2>3. \A m \in beatReqs' \ beatReqs :
           m.leader \in Peers /\ state[m.leader] = "Leader" /\ m.term = currentTerm[m.leader]
    <3>1. Ticker => beatReqs' = beatReqs
      BY DEF Ticker, TickerRead, TickerIdle, StartElection, beatVars
    <3>2. Voting => beatReqs' = beatReqs
      BY DEF Voting, RequestVote, RequestVoteHandler, VoteReply, LoseVoteCall, beatVars
    <3>3. Heartbeats => beatReqs' = beatReqs \/ \E p \in Peers : SendHeartbeat(p)
      BY DEF Heartbeats, AppendEntries, HeartbeatReply, beatVars
    <3>4. \A p \in Peers : SendHeartbeat(p) => \A m \in beatReqs' \ beatReqs :
             m.leader = p /\ state[p] = "Leader" /\ m.term = currentTerm[p]
      BY DEF SendHeartbeat
    <3> QED
      BY <3>1, <3>2, <3>3, <3>4 DEF Next, vars, beatVars
  <2>4. \A m \in beatReqs' : /\ m.leader \in Peers /\ m.term \in Nat
                             /\ Majority(Cardinality(Voters(m.leader, m.term)))
    BY <2>3, LeadersElected DEF HeartbeatsFromElected, TypeOK, BeatReq
  <2>5. \A m \in beatReqs' : Majority(Cardinality(Voters(m.leader, m.term)'))
    BY <2>2, <2>4
  <2> QED
    BY <2>5 DEF HeartbeatsFromElected, Majority, Voters
<1>2. Init => HeartbeatsFromElected
  BY DEF Init, HeartbeatsFromElected
<1> QED
  BY <1>1, <1>2, ElectionInvHolds, PTL DEF Spec

-----------------------------------------------------------------------------
(* With restarts *)

\* The calls of dead objects are calls that a peer made.
OrphansTyped == orphans \subseteq VoteReq /\ orphanBeats \subseteq BeatReq

\* The votes that no restart has made their voter forget.
Remembered == ballots \ forgotten

\* BallotsRemembered and OneVotePerTerm, of those votes only.
VotesRecalled ==
    \A b \in Remembered :
        /\ b.term <= currentTerm[b.voter]
        /\ b.term = currentTerm[b.voter] => votedFor[b.voter] = b.cand

OneRecalled ==
    \A b, c \in Remembered : b.voter = c.voter /\ b.term = c.term => b.cand = c.cand

Memory == VotesRecalled /\ OneRecalled

InvR == /\ TypeOK /\ OrphansTyped /\ CallsTracked /\ VotesBacked /\ LeadersCounted
        /\ Memory

LEMMA InvRInit == InitR => InvR
<1> SUFFICES ASSUME InitR
             PROVE  InvR
  OBVIOUS
<1>1. TypeOK
  BY TypeInit DEF InitR
<1> QED
  BY <1>1 DEF InitR, Init, InvR, OrphansTyped, CallsTracked, VotesBacked, LeadersCounted,
              Memory, VotesRecalled, OneRecalled, Remembered

\* A ballot that a step adds is the vote that its voter holds after the step.
BallotsFresh ==
    \A b \in ballots' \ ballots :
        b.term = currentTerm'[b.voter] /\ votedFor'[b.voter] = b.cand

\* What a step without a restart does to the remembered votes.
LEMMA MemoryStep ==
  ASSUME TypeOK, TypeOK', Memory, VotesStand, BallotsFresh, forgotten' = forgotten
  PROVE  Memory'
<1>1. Remembered' \subseteq Ballot /\ Remembered \subseteq Ballot
  BY DEF Remembered, TypeOK
<1>2. \A b \in Remembered' : b \in Remembered \/ b \in ballots' \ ballots
  BY DEF Remembered
<1>3. ASSUME NEW b \in Remembered'
      PROVE  /\ b.term <= currentTerm'[b.voter]
             /\ b.term = currentTerm'[b.voter] => votedFor'[b.voter] = b.cand
  <2>1. b.voter \in Peers /\ b.term \in Nat /\ b.cand \in Peers /\ b.cand # None
    BY <1>1, PeersAssumption DEF Ballot, Terms
  <2>2. currentTerm[b.voter] \in Nat /\ currentTerm'[b.voter] \in Nat
    BY <2>1 DEF TypeOK, Terms
  <2>3. CASE b \in ballots' \ ballots
    BY <2>2, <2>3 DEF BallotsFresh
  <2>4. CASE b \in Remembered
    <3>1. /\ b.term <= currentTerm[b.voter]
          /\ b.term = currentTerm[b.voter] => votedFor[b.voter] = b.cand
      BY <2>4 DEF Memory, VotesRecalled
    <3>2. /\ currentTerm[b.voter] <= currentTerm'[b.voter]
          /\ currentTerm[b.voter] = currentTerm'[b.voter] /\ votedFor[b.voter] # None
               => votedFor'[b.voter] = votedFor[b.voter]
      BY <2>1 DEF VotesStand
    <3> QED
      BY <2>1, <2>2, <3>1, <3>2
  <2> QED
    BY <1>2, <2>3, <2>4
<1>4. VotesRecalled'
  BY <1>3 DEF VotesRecalled
<1>5. ASSUME NEW b \in Remembered', NEW c \in Remembered', b.voter = c.voter, b.term = c.term
      PROVE  b.cand = c.cand
  <2>1. CASE b \in ballots' \ ballots \/ c \in ballots' \ ballots
    BY <1>3, <1>5, <2>1 DEF BallotsFresh
  <2>2. CASE b \in Remembered /\ c \in Remembered
    BY <1>5, <2>2 DEF Memory, OneRecalled
  <2> QED
    BY <1>2, <2>1, <2>2
<1>6. OneRecalled'
  BY <1>5 DEF OneRecalled
<1> QED
  BY <1>4, <1>6 DEF Memory

LEMMA FreshNext ==
  ASSUME TypeOK, CallsTracked, [Next]_vars
  PROVE  BallotsFresh
<1>1. CASE Quiet
  BY <1>1 DEF Quiet, BallotsFresh
<1>2. ASSUME NEW p \in Peers, StartElection(p)
      PROVE  BallotsFresh
  BY <1>2 DEF StartElection, TypeOK, BallotsFresh
<1>3. ASSUME NEW m \in voteReqs, RequestVote(m)
      PROVE  BallotsFresh
  BY <1>3 DEF RequestVote, RequestVoteHandler, Grants, TypeOK, VoteReq, BallotsFresh
<1>4. ASSUME NEW r \in voteReps, VoteReply(r)
      PROVE  BallotsFresh
  BY <1>4 DEF VoteReply, BallotsFresh
<1>5. ASSUME NEW r \in beatReps, HeartbeatReply(r)
      PROVE  BallotsFresh
  BY <1>5 DEF HeartbeatReply, BallotsFresh
<1> QED
  BY <1>1, <1>2, <1>3, <1>4, <1>5, StepCases

-----------------------------------------------------------------------------
(* Restart *)

LEMMA RestartInv ==
  ASSUME InvR, NEW p \in Peers, Restart(p)
  PROVE  InvR'
<1>1. TypeOK'
  BY DEF InvR, Restart, DropCalls, VotesOf, BeatsOf, TypeOK, States
<1>2. OrphansTyped'
  BY DEF InvR, Restart, DropCalls, VotesOf, BeatsOf, TypeOK, OrphansTyped
\* The calls left are the other peers', whose terms have not changed.
<1>3. /\ voteReqs' \subseteq voteReqs /\ voteReps' \subseteq voteReps
      /\ \A m \in voteReqs' \cup voteReps' : m.cand # p
      /\ \A m \in voteReqs \cup voteReps : m.cand # p => m \in voteReqs' \cup voteReps'
      /\ ballots' = ballots
  BY DEF Restart, DropCalls, VotesOf
<1>4. \A q \in Peers \ {p} : /\ currentTerm'[q] = currentTerm[q] /\ state'[q] = state[q]
                             /\ votesReceived'[q] = votesReceived[q]
  BY DEF Restart, InvR, TypeOK
<1>5. CallsTracked'
  <2>1. \A m \in voteReqs' \cup voteReps' : m.cand \in Peers \ {p}
    BY <1>3 DEF InvR, TypeOK, VoteReq, VoteRep
  <2>2. \A m \in voteReqs' \cup voteReps' :
           m.server # m.cand /\ m.term <= currentTerm'[m.cand]
    BY <1>3, <1>4, <2>1 DEF InvR, CallsTracked
  <2> QED
    BY <1>3, <2>2 DEF InvR, CallsTracked
<1>6. VotesBacked'
  <2> SUFFICES ASSUME NEW c \in Peers, state'[c] # "Follower"
               PROVE  votesReceived'[c] <= Cardinality(Heard(c))'
    BY DEF VotesBacked, Heard
  <2>1. c # p
    BY DEF Restart, InvR, TypeOK
  <2>2. /\ currentTerm'[c] = currentTerm[c] /\ state[c] # "Follower"
        /\ votesReceived'[c] = votesReceived[c]
    BY <1>4, <2>1
  <2>3. Heard(c) \subseteq Heard(c)'
    BY <1>3, <2>2 DEF Heard, Voters, Outstanding
  <2> QED
    BY <2>2, <2>3, BackedMonotone DEF InvR
<1>7. LeadersCounted'
  <2> SUFFICES ASSUME NEW c \in Peers, state'[c] = "Leader"
               PROVE  Majority(votesReceived'[c])
    BY DEF LeadersCounted, Majority
  <2>1. c # p
    BY DEF Restart, InvR, TypeOK
  <2> QED
    BY <1>4, <2>1 DEF InvR, LeadersCounted
\* The votes that are remembered are the other peers'.
<1>8. Memory'
  <2>1. Remembered' \subseteq Remembered /\ \A b \in Remembered' : b.voter \in Peers \ {p}
    BY <1>3 DEF Restart, Remembered, InvR, TypeOK, Ballot
  <2>2. \A q \in Peers \ {p} : votedFor'[q] = votedFor[q]
    BY DEF Restart, InvR, TypeOK
  <2>3. VotesRecalled'
    BY <1>4, <2>1, <2>2 DEF InvR, Memory, VotesRecalled
  <2>4. OneRecalled'
    BY <2>1 DEF InvR, Memory, OneRecalled
  <2> QED
    BY <2>3, <2>4 DEF Memory
<1> QED
  BY <1>1, <1>2, <1>5, <1>6, <1>7, <1>8 DEF InvR

-----------------------------------------------------------------------------
(* Calls of dead objects *)

LEMMA OrphanVoteInv ==
  ASSUME InvR, NEW m \in orphans, OrphanRequestVote(m)
  PROVE  InvR'
<1>1. m \in VoteReq
  BY DEF InvR, OrphansTyped
<1>2. [voter |-> m.server, term |-> m.term, cand |-> m.cand] \in Ballot
  BY <1>1 DEF VoteReq, Ballot
<1>3. TypeOK'
  BY <1>1, <1>2 DEF InvR, OrphanRequestVote, RequestVoteHandler, TypeOK, VoteReq, States,
                    voteVars, beatVars
<1>4. OrphansTyped'
  BY DEF InvR, OrphanRequestVote, OrphansTyped
<1>5. voteReqs' = voteReqs /\ voteReps' = voteReps /\ ballots \subseteq ballots'
  BY DEF OrphanRequestVote, RequestVoteHandler, voteVars
\* The handler never lowers a term, and makes a follower of a peer whose term it
\* raises.
<1>6. \A c \in Peers : /\ currentTerm[c] <= currentTerm'[c]
                       /\ votesReceived'[c] = votesReceived[c]
                       /\ state'[c] # "Follower" => /\ currentTerm'[c] = currentTerm[c]
                                                    /\ state[c] # "Follower"
  BY <1>1 DEF InvR, OrphanRequestVote, RequestVoteHandler, TypeOK, VoteReq
<1>7. CallsTracked'
  <2>1. \A n \in voteReqs \cup voteReps : n.cand \in Peers /\ n.term \in Nat
    BY DEF InvR, TypeOK, VoteReq, VoteRep
  <2>2. currentTerm \in [Peers -> Nat] /\ currentTerm' \in [Peers -> Nat]
    BY <1>3 DEF InvR, TypeOK
  <2>3. \A n \in voteReqs' \cup voteReps' :
           n.server # n.cand /\ n.term <= currentTerm'[n.cand]
    BY <1>5, <1>6, <2>1, <2>2 DEF InvR, CallsTracked
  <2> QED
    BY <1>5, <2>3 DEF InvR, CallsTracked
<1>8. VotesBacked'
  <2> SUFFICES ASSUME NEW c \in Peers, state'[c] # "Follower"
               PROVE  votesReceived'[c] <= Cardinality(Heard(c))'
    BY DEF VotesBacked, Heard
  <2>1. Heard(c) \subseteq Heard(c)'
    BY <1>5, <1>6 DEF Heard, Voters, Outstanding
  <2> QED
    BY <1>6, <2>1, BackedMonotone DEF InvR
<1>9. LeadersCounted'
  <2> SUFFICES ASSUME NEW c \in Peers, state'[c] = "Leader"
               PROVE  Majority(votesReceived'[c])
    BY DEF LeadersCounted, Majority
  <2>1. state[c] = "Leader" /\ votesReceived'[c] = votesReceived[c]
    BY <1>1 DEF InvR, OrphanRequestVote, RequestVoteHandler, TypeOK, VoteReq
  <2> QED
    BY <2>1 DEF InvR, LeadersCounted
<1>10. VotesStand
  BY <1>1 DEF InvR, OrphanRequestVote, RequestVoteHandler, Grants, TypeOK, VoteReq, VotesStand
<1>11. BallotsFresh
  BY <1>1 DEF InvR, OrphanRequestVote, RequestVoteHandler, Grants, TypeOK, VoteReq,
              BallotsFresh
<1>12. Memory'
  BY <1>3, <1>10, <1>11, MemoryStep DEF InvR, OrphanRequestVote
<1> QED
  BY <1>3, <1>4, <1>7, <1>8, <1>9, <1>12 DEF InvR

LEMMA OrphanBeatInv ==
  ASSUME InvR, NEW m \in orphanBeats, NEW q \in Peers, OrphanAppendEntries(m, q)
  PROVE  InvR'
<1>1. Len(m.entries) = 0
  BY DEF InvR, OrphansTyped, BeatReq
<1>2. /\ currentTerm' = [currentTerm EXCEPT ![q] = @]
      /\ state' = [state EXCEPT ![q] = @]
      /\ votedFor' = [votedFor EXCEPT ![q] = @]
  BY <1>1 DEF OrphanAppendEntries, AppendEntriesHandler
<1>3. currentTerm' = currentTerm /\ state' = state /\ votedFor' = votedFor
  BY <1>2 DEF InvR, TypeOK
<1>4. panicked' \in BOOLEAN
  BY DEF OrphanAppendEntries, AppendEntriesHandler
<1>5. UNCHANGED <<ticker, votesReceived, voteVars, beatVars, ballots, restartVars>>
  BY DEF OrphanAppendEntries, AppendEntriesHandler
<1> QED
  BY <1>3, <1>4, <1>5
  DEF InvR, TypeOK, OrphansTyped, CallsTracked, VotesBacked, Voters, Outstanding,
      LeadersCounted, Memory, VotesRecalled, OneRecalled, Remembered,
      voteVars, beatVars, restartVars

-----------------------------------------------------------------------------
LEMMA InvRNext == InvR /\ [NextR]_<<vars, restartVars>> => InvR'
<1> SUFFICES ASSUME InvR, [NextR]_<<vars, restartVars>>
             PROVE  InvR'
  OBVIOUS
<1>1. CASE [Next]_vars /\ UNCHANGED restartVars
  <2>1. TypeOK' /\ CallsTracked' /\ VotesBacked' /\ LeadersCounted'
    BY <1>1, TypeNext, CallsInductive, BackedInductive, LeadersInductive DEF InvR
  <2>2. Memory'
    BY <1>1, <2>1, VotesStandNext, FreshNext, MemoryStep DEF InvR, restartVars
  <2> QED
    BY <1>1, <2>1, <2>2 DEF InvR, OrphansTyped, restartVars
<1>2. ASSUME NEW p \in Peers, Restart(p)
      PROVE  InvR'
  BY <1>2, RestartInv
<1>3. ASSUME NEW m \in orphans, OrphanRequestVote(m)
      PROVE  InvR'
  BY <1>3, OrphanVoteInv
<1>4. ASSUME NEW m \in orphanBeats, NEW q \in Peers, OrphanAppendEntries(m, q)
      PROVE  InvR'
  BY <1>4, OrphanBeatInv
<1> QED
  BY <1>1, <1>2, <1>3, <1>4 DEF NextR

\* Two majorities of one term share a voter; had it been restarted after neither of its
\* two votes, it would have cast only one of them.
LEMMA SplitForgotten == InvR => SplitByForgotten
<1> SUFFICES ASSUME InvR, NEW p \in Peers, NEW q \in Peers, p # q,
                    state[p] = "Leader", state[q] = "Leader", currentTerm[p] = currentTerm[q]
             PROVE  \E b \in forgotten :
                       /\ b.term = currentTerm[p]
                       /\ b.cand \in {p, q}
                       /\ b.voter \in Voters(p, b.term) \cap Voters(q, b.term)
  BY DEF SplitByForgotten, GetState
<1> DEFINE t == currentTerm[p]
<1>1. PICK v \in Peers : v \in Voters(p, t) /\ v \in Voters(q, t)
  <2>1. Majority(Cardinality(Voters(p, t))) /\ Majority(Cardinality(Voters(q, t)))
    BY LeadersElected DEF InvR
  <2> QED
    BY <2>1, MajoritiesMeet
<1> DEFINE bp == [voter |-> v, term |-> t, cand |-> p]
           bq == [voter |-> v, term |-> t, cand |-> q]
<1>2. bp \in ballots /\ bq \in ballots
  BY <1>1 DEF Voters
<1>3. bp \in forgotten \/ bq \in forgotten
  <2>1. bp.voter = bq.voter /\ bp.term = bq.term /\ bp.cand # bq.cand
    OBVIOUS
  <2> QED
    BY <1>2, <2>1 DEF InvR, Memory, OneRecalled, Remembered
<1>4. CASE bp \in forgotten
  BY <1>1, <1>4
<1>5. CASE bq \in forgotten
  BY <1>1, <1>5
<1> QED
  BY <1>3, <1>4, <1>5

\* Over any restarts, two peers lead in one term only if a peer that has voted for both
\* has been restarted after one of the two votes.
THEOREM SplitsAreForgottenVotes == SpecR => []SplitByForgotten
<1> QED
  BY InvRInit, InvRNext, SplitForgotten, PTL DEF SpecR
=============================================================================
