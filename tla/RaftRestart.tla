----------------------------- MODULE RaftRestart -----------------------------
(***************************************************************************)
(* RaftElection with crashes: the tester's ShutdownServer followed by its  *)
(* StartServer (src/src/tester1/group.go) replaces one peer's Raft object  *)
(* by a new one made by Make.                                              *)
(*                                                                         *)
(* rf.persist() saves nothing and rf.readPersist() restores nothing, so    *)
(* the new object starts from Make's values.  Goroutines of the old object *)
(* hold that object, in rf, for ever: what they had sent may still be      *)
(* handled by other peers, but what they learn changes the old object      *)
(* only, which nobody asks any more.                                       *)
(***************************************************************************)
EXTENDS RaftElection

CONSTANT MaxRestarts    \* bound on the number of restarts

ASSUME MaxRestartsAssumption == MaxRestarts \in Nat

VARIABLES
    orphans,        \* vote requests in flight whose sender has been shut down
    orphanBeats,    \* heartbeats in flight whose sender has been shut down
    restarts,       \* how many restarts there have been
    forgotten       \* history: the votes whose voter has been restarted since

restartVars == <<orphans, orphanBeats, restarts, forgotten>>

InitR == Init /\ orphans = {} /\ orphanBeats = {} /\ restarts = 0 /\ forgotten = {}

\* The calls of the object that is shut down.
VotesOf(p, calls) == {m \in calls : m.cand = p}
BeatsOf(p, calls) == {m \in calls : m.leader = p}

\* The old object's goroutines count its votes and set its term, not the new one's:
\* replies that are on their way to it are of no consequence, its requests become
\* orphans.
DropCalls(p) ==
    /\ voteReqs' = voteReqs \ VotesOf(p, voteReqs)
    /\ voteReps' = voteReps \ VotesOf(p, voteReps)
    /\ orphans' = orphans \cup VotesOf(p, voteReqs)
    /\ beats' = beats \ {p}
    /\ beatReqs' = beatReqs \ BeatsOf(p, beatReqs)
    /\ beatReps' = beatReps \ BeatsOf(p, beatReps)
    /\ orphanBeats' = orphanBeats \cup BeatsOf(p, beatReqs)

\* ShutdownServer and StartServer.  Requests in flight to p are handled by the new
\* object.
Restart(p) ==
    /\ restarts < MaxRestarts
    /\ restarts' = restarts + 1
    /\ currentTerm' = [currentTerm EXCEPT ![p] = 0]
    /\ votedFor' = [votedFor EXCEPT ![p] = None]
    /\ state' = [state EXCEPT ![p] = "Follower"]
    /\ ticker' = [ticker EXCEPT ![p] = "top"]
    /\ votesReceived' = [votesReceived EXCEPT ![p] = 0]
    /\ DropCalls(p)
    /\ forgotten' = forgotten \cup {b \in ballots : b.voter = p}
    /\ UNCHANGED <<panicked, ballots>>

\* A handler runs for a request of a dead object; nobody waits for the reply.
OrphanRequestVote(m) ==
    /\ RequestVoteHandler(m)
    /\ orphans' = orphans \ {m}
    /\ UNCHANGED <<voteVars, orphanBeats, restarts, forgotten>>

OrphanAppendEntries(m, q) ==
    /\ q # m.leader
    /\ AppendEntriesHandler(m, q)
    /\ UNCHANGED <<beatVars, restartVars>>

NextR ==
    \/ Next /\ UNCHANGED restartVars
    \/ ~panicked /\ \E p \in Peers : Restart(p)
    \/ ~panicked /\ \E m \in orphans : OrphanRequestVote(m)
    \/ ~panicked /\ \E m \in orphanBeats, q \in Peers : OrphanAppendEntries(m, q)

SpecR == InitR /\ [][NextR]_<<vars, restartVars>>

-----------------------------------------------------------------------------
(* Properties.  ElectionSafety of RaftElection does not survive restarts, since  *)
(* nothing is persisted.                                                         *)

\* What a restart can break is confined to the votes that it makes a peer forget: two
\* peers lead in one term only if some peer has voted for both and has been restarted
\* after one of the two votes.  Nothing else that crosses a restart elects a second
\* leader: not the calls of dead objects, a second election in a term that the
\* predecessor had reached, or heartbeats of a dead leader.
SplitByForgotten ==
    \A p, q \in Peers :
        p # q /\ GetState(p) = GetState(q) /\ GetState(p)[2] =>
            \E b \in forgotten :
                /\ b.term = currentTerm[p]
                /\ b.cand \in {p, q}
                /\ b.voter \in Voters(p, b.term) \cap Voters(q, b.term)
=============================================================================
