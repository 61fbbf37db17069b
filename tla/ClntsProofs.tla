---------------------------- MODULE ClntsProofs ----------------------------
(***************************************************************************)
(* What Clnts guarantees for every set of clerks and servers.              *)
(***************************************************************************)
EXTENDS Clnts, TLAPS

\* The tables of the network hold ends that some clerk has made, and an end has a server
\* name exactly while it exists.
Tables ==
    /\ connections = rnEnds
    /\ \A c \in Clerks, s \in Servers :
          <<c, s>> \in rnEnds \cup enabled => s \in ends[c]

\* The clerks whose ends are still to be deleted.
Live == IF stage = "clerks" THEN toRemove ELSE clerks

\* Every end of such a clerk is in the network.
LiveHeld == \A c \in Live : \A s \in ends[c] : <<c, s>> \in rnEnds

\* Nothing is known of a clerk before it is made.
Fresh ==
    /\ clerks \subseteq made /\ toRemove \subseteq made /\ reopened \subseteq made
    /\ \A c \in Clerks \ made : ends[c] = {}

\* A server that a clerk is cut off from is neither allowed nor enabled.
Shut == \A c \in Clerks : \A s \in blocked[c] : s \notin srvs[c] /\ <<c, s>> \notin enabled

\* A clerk that is open to all is allowed all, and its ends are enabled.
Open ==
    stage = "test" =>
        \A c \in reopened \cap clerks :
            srvs[c] = Servers /\ \A s \in ends[c] : <<c, s>> \in enabled

\* The inductive invariant.
Inv == TypeOK /\ ~fatal /\ Tables /\ LiveHeld /\ Fresh /\ Shut /\ Open

USE DEF clntVars, netVars, hist, Ends, Of, Live

\* The state before any clerk is made.
LEMMA InitInv == Init => Inv
  BY DEF Init, Inv, TypeOK, Tables, LiveHeld, Fresh, Shut, Open

\* A clerk's goroutine makes an end.
LEMMA CallInv ==
  ASSUME Inv, NEW c \in Clerks, NEW s \in Servers, Call(c, s)
  PROVE  Inv'
<1> USE DEF Inv, Call, makeEnd, allowedL, Enable, Disable
<1>1. TypeOK' BY DEF TypeOK
<1>2. ~fatal' BY DEF TypeOK, Tables
<1>3. Tables' BY DEF TypeOK, Tables
<1>4. LiveHeld' BY DEF TypeOK, LiveHeld
<1>5. Fresh' BY DEF TypeOK, Fresh
<1>6. Shut'
  <2> SUFFICES ASSUME NEW d \in Clerks, NEW t \in blocked[d]
               PROVE  t \notin srvs[d] /\ <<d, t>> \notin enabled'
    BY DEF Shut
  <2>1. t \notin srvs[d] /\ <<d, t>> \notin enabled
    BY DEF Shut
  <2>2. CASE <<d, t>> = <<c, s>>
    BY <2>1, <2>2
  <2>3. CASE <<d, t>> # <<c, s>>
    BY <2>1, <2>3
  <2> QED BY <2>2, <2>3
<1>7. Open' BY DEF TypeOK, Open
<1> QED BY <1>1, <1>2, <1>3, <1>4, <1>5, <1>6, <1>7

\* The test connects a clerk, disconnects it, or does so for some servers.
LEMMA ReconfigureInv ==
  ASSUME Inv, NEW c \in Clerks,
         \/ ConnectAll(c) \/ DisconnectAll(c)
         \/ \E s \in Servers : Disconnect(c, s)
         \/ \E to \in SUBSET Servers : ConnectTo(c, to)
  PROVE  Inv'
<1> USE DEF Inv, Reconfigure, Enable, Disable
<1>1. CASE ConnectAll(c)
  <2> USE <1>1 DEF ConnectAll
  <2>1. TypeOK' BY DEF TypeOK
  <2>2. ~fatal' /\ Tables' /\ LiveHeld' /\ Fresh' BY DEF TypeOK, Tables, LiveHeld, Fresh
  <2>3. Shut' BY DEF TypeOK, Shut
  <2>4. Open' BY DEF TypeOK, Open
  <2> QED BY <2>1, <2>2, <2>3, <2>4
<1>2. CASE DisconnectAll(c)
  <2> USE <1>2 DEF DisconnectAll
  <2>1. TypeOK' BY DEF TypeOK
  <2>2. ~fatal' /\ Tables' /\ LiveHeld' /\ Fresh' BY DEF TypeOK, Tables, LiveHeld, Fresh
  <2>3. Shut' BY DEF TypeOK, Shut, Tables
  <2>4. Open' BY DEF TypeOK, Open
  <2> QED BY <2>1, <2>2, <2>3, <2>4
<1>3. ASSUME NEW s \in Servers, Disconnect(c, s) PROVE Inv'
  <2> USE <1>3 DEF Disconnect
  <2>1. TypeOK' BY DEF TypeOK
  <2>2. ~fatal' /\ Tables' /\ LiveHeld' /\ Fresh' BY DEF TypeOK, Tables, LiveHeld, Fresh
  <2>3. Shut' BY DEF TypeOK, Shut
  <2>4. Open' BY DEF TypeOK, Open
  <2> QED BY <2>1, <2>2, <2>3, <2>4
<1>4. ASSUME NEW to \in SUBSET Servers, ConnectTo(c, to) PROVE Inv'
  <2> USE <1>4 DEF ConnectTo
  <2>1. TypeOK' BY DEF TypeOK
  <2>2. ~fatal' /\ Tables' /\ LiveHeld' /\ Fresh' BY DEF TypeOK, Tables, LiveHeld, Fresh
  <2>3. Shut' BY DEF TypeOK, Shut
  <2>4. Open' BY DEF TypeOK, Open
  <2> QED BY <2>1, <2>2, <2>3, <2>4
<1> QED BY <1>1, <1>2, <1>3, <1>4

\* A clerk is made.
LEMMA MakeClientInv ==
  ASSUME Inv, NEW c \in Clerks, NEW to \in SUBSET Servers, MakeClientTo(c, to)
  PROVE  Inv'
<1> USE DEF Inv, MakeClientTo
<1>1. TypeOK' BY DEF TypeOK
<1>2. ~fatal' /\ Tables' BY DEF TypeOK, Tables
<1>3. LiveHeld' BY DEF TypeOK, LiveHeld, Fresh
<1>4. Fresh' BY DEF TypeOK, Fresh
<1>5. Shut' BY DEF TypeOK, Shut, Tables, Fresh
<1>6. Open' BY DEF TypeOK, Open, Fresh
<1> QED BY <1>1, <1>2, <1>3, <1>4, <1>5, <1>6

\* The ends of a clerk are deleted, by DeleteClient or by cleanup.
LEMMA RemoveInv ==
  ASSUME Inv, NEW c \in Clerks, DeleteClient(c) \/ CleanupRemoves(c)
  PROVE  Inv'
<1> USE DEF Inv, remove, DeleteEnds
<1>1. CASE DeleteClient(c) /\ c \in clerks
  <2> USE <1>1 DEF DeleteClient, Unlocked
  <2>1. TypeOK' BY DEF TypeOK
  <2>2. ~fatal' BY DEF TypeOK, LiveHeld
  <2>3. Tables' /\ Fresh' /\ Shut' BY DEF TypeOK, Tables, Fresh, Shut
  <2>4. LiveHeld' BY DEF TypeOK, LiveHeld
  <2>5. Open' BY DEF TypeOK, Open
  <2> QED BY <2>1, <2>2, <2>3, <2>4, <2>5
<1>2. CASE DeleteClient(c) /\ c \notin clerks
  BY <1>2 DEF DeleteClient, TypeOK, Tables, LiveHeld, Fresh, Shut, Open
<1>3. CASE CleanupRemoves(c)
  <2> USE <1>3 DEF CleanupRemoves
  <2>1. TypeOK' BY DEF TypeOK
  <2>2. ~fatal' BY DEF TypeOK, LiveHeld
  <2>3. Tables' /\ Fresh' /\ Shut' BY DEF TypeOK, Tables, Fresh, Shut
  <2>4. LiveHeld' BY DEF TypeOK, LiveHeld
  <2>5. Open' BY DEF TypeOK, Open
  <2> QED BY <2>1, <2>2, <2>3, <2>4, <2>5
<1> QED BY <1>1, <1>2, <1>3

\* cleanup begins and ends.
LEMMA CleanupInv ==
  ASSUME Inv, CleanupClerks \/ CleanupEnds
  PROVE  Inv'
  BY DEF Inv, CleanupClerks, CleanupEnds, TypeOK, Tables, LiveHeld, Fresh, Shut, Open

\* Every step keeps the invariant.
LEMMA NextInv == Inv /\ [Next]_vars => Inv'
<1> SUFFICES ASSUME Inv, [Next]_vars PROVE Inv'
  OBVIOUS
<1>1. CASE UNCHANGED vars
  BY <1>1 DEF vars, Inv, TypeOK, Tables, LiveHeld, Fresh, Shut, Open
<1>2. CASE Next
  BY <1>2, CallInv, ReconfigureInv, MakeClientInv, RemoveInv, CleanupInv DEF Next
<1> QED BY <1>1, <1>2

\* The invariant holds in every reachable state.
LEMMA InvHolds == Spec => []Inv
  BY InitInv, NextInv, PTL DEF Spec

\* A clerk that was cut off from a server reaches it over no end, old or new.
THEOREM StaysCutOff == Spec => []CutOff
<1>1. Inv => CutOff
  BY DEF Inv, Shut, CutOff, Deliverable
<1> QED BY <1>1, InvHolds, PTL

\* A clerk that was opened to all servers reaches every one that it has an end to.
THEOREM StaysReopened == Spec => []Reopened
<1>1. Inv => Reopened
  BY DEF Inv, TypeOK, Tables, LiveHeld, Open, Reopened, Deliverable
<1> QED BY <1>1, InvHolds, PTL

\* No end is made or deleted twice.
THEOREM EndsDeletedOnce == Spec => []DeletedOnce
<1>1. Inv => DeletedOnce
  BY DEF Inv, DeletedOnce
<1> QED BY <1>1, InvHolds, PTL

\* Requests go through existing ends only.
THEOREM NoGhostEnds == Spec => []NoGhosts
<1>1. Inv => NoGhosts
  BY DEF Inv, Tables, NoGhosts, Deliverable
<1> QED BY <1>1, InvHolds, PTL
=============================================================================
