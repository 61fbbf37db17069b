-------------------------- MODULE ServerGrpProofs --------------------------
(***************************************************************************)
(* Proofs about ServerGrp, for groups of every size: a server that is not  *)
(* connected has no enabled end, a partition is exactly what was asked     *)
(* for, and the leader that is cut off is in the minority.                 *)
(*                                                                         *)
(* The loops over servers are treated by induction on the number of        *)
(* iterations.  The induction principle is stated about a set of numbers,  *)
(* Iterated below, and follows from the well-foundedness of the naturals.  *)
(***************************************************************************)
EXTENDS ServerGrp, FiniteSetTheorems, WellFoundedInduction, TLAPS

-----------------------------------------------------------------------------
(* Induction over the iterations of a loop *)

LEMMA Iterated ==
    ASSUME NEW n \in Nat, NEW P, 0 \in P,
           \A k \in 1..n : k - 1 \in P => k \in P
    PROVE  \A k \in 0..n : k \in P
<1> DEFINE bad == {k \in 0..n : k \notin P}
<1> SUFFICES ASSUME bad # {}
             PROVE  FALSE
  OBVIOUS
<1>1. bad \subseteq Nat
  OBVIOUS
<1>2. PICK x \in bad : \A y \in bad : ~ (<<y, x>> \in OpToRel(<, Nat))
  BY <1>1, WFMin, NatLessThanWellFounded, Zenon
<1>3. \A y \in bad : ~ (y < x)
  BY <1>1, <1>2 DEF OpToRel
<1>4. x \in 1..n
  OBVIOUS
<1>5. x - 1 \in 0..n /\ x - 1 < x
  BY <1>4
<1>6. x - 1 \in P
  BY <1>3, <1>5
<1> QED
  BY <1>4, <1>6

\* F is the body of a loop of n iterations over the states S, and f what the iterations
\* make of base.
Body(F, n, S) == F \in [(1..n) \X S -> S]

Loop(f, base, F, n, S) ==
    f \in [0..n -> S] /\ f[0] = base /\ \A k \in 1..n : f[k] = F[<<k, f[k - 1]>>]

LEMMA LoopExists ==
    ASSUME NEW S, NEW base \in S, NEW n \in Nat, NEW F, Body(F, n, S)
    PROVE  \E f : Loop(f, base, F, n, S)
<1> DEFINE Good(f, m) == f[0] = base /\ \A k \in 1..m : f[k] = F[<<k, f[k - 1]>>]
           P == {m \in 0..n : \E f \in [0..m -> S] : Good(f, m)}
<1>1. 0 \in P
  <2> DEFINE f == [k \in 0..0 |-> base]
  <2>1. f \in [0..0 -> S] /\ f[0] = base /\ 1..0 = {}
    OBVIOUS
  <2>2. Good(f, 0)
    BY <2>1
  <2> HIDE DEF f
  <2>3. \E h \in [0..0 -> S] : Good(h, 0)
    BY <2>1, <2>2, Zenon
  <2>4. 0 \in 0..n
    OBVIOUS
  <2> HIDE DEF Good
  <2> QED
    BY <2>3, <2>4, Zenon
<1>2. ASSUME NEW m \in 1..n, m - 1 \in P
      PROVE  m \in P
  <2>1. PICK f \in [0..(m - 1) -> S] : Good(f, m - 1)
    BY <1>2
  <2> DEFINE g == [k \in 0..m |-> IF k = m THEN F[<<m, f[m - 1]>>] ELSE f[k]]
  <2>2. m \in Nat /\ m - 1 \in 0..(m - 1) /\ \A k \in 0..m : k # m => k \in 0..(m - 1)
    OBVIOUS
  <2>3. F[<<m, f[m - 1]>>] \in S
    BY <2>2 DEF Body
  <2>4. g \in [0..m -> S]
    BY <2>2, <2>3
  <2>5. g[0] = base
    BY <2>1, <2>2
  <2>6. ASSUME NEW k \in 1..m
        PROVE  g[k] = F[<<k, g[k - 1]>>]
    <3>1. k - 1 \in 0..m /\ k - 1 # m /\ k \in 0..m
      BY <2>2
    <3>2. g[k - 1] = f[k - 1]
      BY <3>1
    <3>3. CASE k = m
      BY <3>1, <3>2, <3>3
    <3>4. CASE k # m
      <4>1. k \in 1..(m - 1)
        BY <2>2, <3>4
      <4> QED
        BY <2>1, <3>1, <3>2, <3>4, <4>1
    <3> QED
      BY <3>3, <3>4
  <2>7. Good(g, m)
    BY <2>5, <2>6
  <2>8. m \in 0..n
    OBVIOUS
  <2> HIDE DEF g, Good
  <2> QED
    BY <2>4, <2>7, <2>8, Zenon
<1> HIDE DEF P
<1>3. \A m \in 0..n : m \in P
  BY <1>1, <1>2, Iterated
<1>4. n \in P
  BY <1>3
<1> QED
  BY <1>4 DEF P, Loop

-----------------------------------------------------------------------------
(* connect, disconnect and their loops *)

Nets == [connected: [Servers -> BOOLEAN], links: SUBSET (Servers \X Servers)]

\* A list of servers.
List(p) == p \in [1..Len(p) -> Servers] /\ Len(p) \in Nat

LEMMA ConnectTyped ==
    ASSUME NEW net \in Nets, NEW i \in Servers, NEW to, Range(to) \subseteq Servers
    PROVE  Connect(net, i, to) \in Nets
<1> DEFINE on   == [net.connected EXCEPT ![i] = TRUE]
           live == {j \in Range(to) : on[j]}
<1>1. on \in [Servers -> BOOLEAN] /\ live \subseteq Servers
  BY DEF Nets
<1>2. net.links \cup ({i} \X live) \cup (live \X {i}) \in SUBSET (Servers \X Servers)
  BY <1>1 DEF Nets
<1> QED
  BY <1>1, <1>2 DEF Connect, Nets

LEMMA DisconnectTyped ==
    ASSUME NEW net \in Nets, NEW i \in Servers, NEW from
    PROVE  Disconnect(net, i, from) \in Nets
<1>1. [net.connected EXCEPT ![i] = FALSE] \in [Servers -> BOOLEAN]
  BY DEF Nets
<1>2. net.links \ (({i} \X Range(from)) \cup (Range(from) \X {i})) \in SUBSET (Servers \X Servers)
  BY DEF Nets
<1> QED
  BY <1>1, <1>2 DEF Disconnect, Nets

\* One iteration of a loop of Partition.
Turn(net, i, side, other) == Connect(Disconnect(net, i, other), i, side)

LEMMA TurnTyped ==
    ASSUME NEW net \in Nets, NEW i \in Servers, NEW side, Range(side) \subseteq Servers, NEW other
    PROVE  Turn(net, i, side, other) \in Nets
BY ConnectTyped, DisconnectTyped DEF Turn

LEMMA ListRange ==
    ASSUME NEW p, List(p)
    PROVE  /\ Range(p) \subseteq Servers /\ DOMAIN p = 1..Len(p)
           /\ \A k \in 1..Len(p) : p[k] \in Servers /\ p[k] \in Range(p)
BY DEF List, Range

\* Split is the last of a sequence of nets, each one turn after the one before.
LEMMA SplitLoop ==
    ASSUME NEW net \in Nets, NEW side, List(side), NEW other
    PROVE  \E f \in [0..Len(side) -> Nets] :
              /\ f[0] = net
              /\ \A k \in 1..Len(side) : f[k] = Turn(f[k - 1], side[k], side, other)
              /\ Split(net, side, other) = f[Len(side)]
<1> DEFINE n == Len(side)
           F == [x \in (1..n) \X Nets |-> Turn(x[2], side[x[1]], side, other)]
           Is(f) == f = [k \in 0..n |-> IF k = 0 THEN net
                                        ELSE Turn(f[k - 1], side[k], side, other)]
<1>1. n \in Nat /\ Range(side) \subseteq Servers /\ \A k \in 1..n : side[k] \in Servers
  BY ListRange DEF List
<1> HIDE DEF n
<1>2. Body(F, n, Nets)
  <2>1. \A x \in (1..n) \X Nets : x[1] \in 1..n /\ x[2] \in Nets
    OBVIOUS
  <2>2. \A x \in (1..n) \X Nets : Turn(x[2], side[x[1]], side, other) \in Nets
    BY <1>1, <2>1, TurnTyped
  <2> QED
    BY <2>2, Zenon DEF Body
<1> HIDE DEF F
<1>3. PICK f : Loop(f, net, F, n, Nets)
  BY <1>1, <1>2, LoopExists
<1>4. \A k \in 1..n : f[k] = Turn(f[k - 1], side[k], side, other)
  <2> SUFFICES ASSUME NEW k \in 1..n
               PROVE  f[k] = Turn(f[k - 1], side[k], side, other)
    OBVIOUS
  <2>1. k - 1 \in 0..n
    BY <1>1
  <2>2. <<k, f[k - 1]>> \in (1..n) \X Nets
    BY <1>3, <2>1 DEF Loop
  <2> QED
    BY <1>3, <2>2 DEF F, Loop
<1>5. Is(f)
  <2>1. \A k \in 0..n : k # 0 => k \in 1..n
    BY <1>1
  <2> QED
    BY <1>3, <1>4, <2>1 DEF Loop
<1> DEFINE g == CHOOSE g : Is(g)
<1>6. Is(g)
  BY <1>5
<1> HIDE DEF g
<1>7. /\ g[0] = net
      /\ \A k \in 1..n : g[k] = Turn(g[k - 1], side[k], side, other)
  <2>1. 0 \in 0..n /\ \A k \in 1..n : k \in 0..n /\ k # 0
    BY <1>1
  <2> QED
    BY <1>6, <2>1
<1>8. \A k \in 0..n : g[k] \in Nets
  <2> DEFINE P == {k \in 0..n : g[k] \in Nets}
  <2>1. 0 \in P
    BY <1>1, <1>7
  <2>2. \A k \in 1..n : k - 1 \in P => k \in P
    BY <1>1, <1>7, TurnTyped
  <2> HIDE DEF P
  <2>3. \A k \in 0..n : k \in P
    BY <1>1, <2>1, <2>2, Iterated
  <2> QED
    BY <2>3 DEF P
<1>9. g \in [0..n -> Nets]
  BY <1>6, <1>8
<1>10. Split(net, side, other) = g[n]
  BY DEF Split, Turn, g, n
<1> QED
  BY <1>7, <1>9, <1>10 DEF n

LEMMA AllList == List(All) /\ Range(All) = Servers /\ Len(All) = N
<1>1. All \in [1..N -> Servers] /\ N \in Nat
  BY NAssumption DEF All, Servers
<1>2. Len(All) = N
  BY <1>1
<1>3. Range(All) = Servers
  <2>1. \A i \in Servers : i + 1 \in 1..N /\ All[i + 1] = i
    BY NAssumption DEF Servers, All
  <2> QED
    BY <1>1, <2>1 DEF Range
<1> QED
  BY <1>1, <1>2, <1>3 DEF List

\* ConnectedAll is the last of a sequence of nets as well.
LEMMA ConnectedAllLoop ==
    ASSUME NEW net \in Nets
    PROVE  \E f \in [0..N -> Nets] :
              /\ f[0] = net
              /\ \A k \in 1..N : f[k] = Connect(f[k - 1], All[k], All)
              /\ ConnectedAll(net) = f[N]
<1> DEFINE F == [x \in (1..N) \X Nets |-> Connect(x[2], All[x[1]], All)]
           Is(f) == f = [k \in 0..N |-> IF k = 0 THEN net ELSE Connect(f[k - 1], All[k], All)]
<1>1. N \in Nat /\ Range(All) \subseteq Servers /\ \A k \in 1..N : All[k] \in Servers
  BY AllList, ListRange, NAssumption
<1>2. Body(F, N, Nets)
  <2>1. \A x \in (1..N) \X Nets : x[1] \in 1..N /\ x[2] \in Nets
    OBVIOUS
  <2>2. \A x \in (1..N) \X Nets : Connect(x[2], All[x[1]], All) \in Nets
    BY <1>1, <2>1, ConnectTyped
  <2> QED
    BY <2>2, Zenon DEF Body
<1> HIDE DEF F
<1>3. PICK f : Loop(f, net, F, N, Nets)
  BY <1>1, <1>2, LoopExists
<1>4. \A k \in 1..N : f[k] = Connect(f[k - 1], All[k], All)
  <2> SUFFICES ASSUME NEW k \in 1..N
               PROVE  f[k] = Connect(f[k - 1], All[k], All)
    OBVIOUS
  <2>1. k - 1 \in 0..N
    BY <1>1
  <2>2. <<k, f[k - 1]>> \in (1..N) \X Nets
    BY <1>3, <2>1 DEF Loop
  <2> QED
    BY <1>3, <2>2 DEF F, Loop
<1>5. Is(f)
  <2>1. \A k \in 0..N : k # 0 => k \in 1..N
    BY <1>1
  <2> QED
    BY <1>3, <1>4, <2>1 DEF Loop
<1> DEFINE g == CHOOSE g : Is(g)
<1>6. Is(g)
  BY <1>5
<1> HIDE DEF g
<1>7. /\ g[0] = net
      /\ \A k \in 1..N : g[k] = Connect(g[k - 1], All[k], All)
  <2>1. 0 \in 0..N /\ \A k \in 1..N : k \in 0..N /\ k # 0
    BY <1>1
  <2> QED
    BY <1>6, <2>1
<1>8. \A k \in 0..N : g[k] \in Nets
  <2> DEFINE P == {k \in 0..N : g[k] \in Nets}
  <2>1. 0 \in P
    BY <1>1, <1>7
  <2>2. \A k \in 1..N : k - 1 \in P => k \in P
    BY <1>1, <1>7, ConnectTyped
  <2> HIDE DEF P
  <2>3. \A k \in 0..N : k \in P
    BY <1>1, <2>1, <2>2, Iterated
  <2> QED
    BY <2>3 DEF P
<1>9. g \in [0..N -> Nets]
  BY <1>6, <1>8
<1>10. ConnectedAll(net) = g[N]
  BY DEF ConnectedAll, g
<1> QED
  BY <1>7, <1>9, <1>10

-----------------------------------------------------------------------------
(* A server that is not connected is isolated *)

Iso(net) ==
    \A i \in Servers : ~net.connected[i] =>
        \A j \in Servers : <<i, j>> \notin net.links /\ <<j, i>> \notin net.links

\* What connect does, pair by pair.
LEMMA ConnectEffect ==
    ASSUME NEW net \in Nets, NEW i \in Servers, NEW to, Range(to) \subseteq Servers,
           NEW new, new = Connect(net, i, to)
    PROVE  /\ new.connected[i]
           /\ \A j \in Servers : j # i => new.connected[j] = net.connected[j]
           /\ \A a, b \in Servers :
                 <<a, b>> \in new.links <=>
                    \/ <<a, b>> \in net.links
                    \/ a = i /\ b \in Range(to) /\ new.connected[b]
                    \/ b = i /\ a \in Range(to) /\ new.connected[a]
<1> DEFINE on   == [net.connected EXCEPT ![i] = TRUE]
           live == {j \in Range(to) : on[j]}
<1>1. new.connected = on /\ new.links = net.links \cup ({i} \X live) \cup (live \X {i})
  BY DEF Connect
<1>2. on[i] /\ \A j \in Servers : j # i => on[j] = net.connected[j]
  BY DEF Nets
<1> HIDE DEF on
<1>3. \A a, b : /\ <<a, b>> \in {i} \X live <=> a = i /\ b \in live
                /\ <<a, b>> \in live \X {i} <=> b = i /\ a \in live
  OBVIOUS
<1>4. \A a, b : <<a, b>> \in new.links <=>
         \/ <<a, b>> \in net.links \/ (a = i /\ b \in live) \/ (b = i /\ a \in live)
  BY <1>1, <1>3, Zenon
<1> QED
  BY <1>1, <1>2, <1>4, Zenon

\* What disconnect does, pair by pair.
LEMMA DisconnectEffect ==
    ASSUME NEW net \in Nets, NEW i \in Servers, NEW from,
           NEW new, new = Disconnect(net, i, from)
    PROVE  /\ ~new.connected[i]
           /\ \A j \in Servers : j # i => new.connected[j] = net.connected[j]
           /\ \A a, b \in Servers :
                 <<a, b>> \in new.links <=>
                    /\ <<a, b>> \in net.links
                    /\ ~(a = i /\ b \in Range(from))
                    /\ ~(b = i /\ a \in Range(from))
<1> DEFINE off == [net.connected EXCEPT ![i] = FALSE]
<1>1. /\ new.connected = off
      /\ new.links = net.links \ (({i} \X Range(from)) \cup (Range(from) \X {i}))
  BY DEF Disconnect
<1>2. ~off[i] /\ \A j \in Servers : j # i => off[j] = net.connected[j]
  BY DEF Nets
<1>3. \A a, b : /\ <<a, b>> \in {i} \X Range(from) <=> a = i /\ b \in Range(from)
                /\ <<a, b>> \in Range(from) \X {i} <=> b = i /\ a \in Range(from)
  OBVIOUS
<1> HIDE DEF off
<1>4. \A a, b : <<a, b>> \in new.links <=>
         /\ <<a, b>> \in net.links
         /\ ~(a = i /\ b \in Range(from)) /\ ~(b = i /\ a \in Range(from))
  BY <1>1, <1>3, Zenon
<1> QED
  BY <1>1, <1>2, <1>4, Zenon

\* What one turn of Partition does, pair by pair.
LEMMA TurnEffect ==
    ASSUME NEW net \in Nets, NEW i \in Servers, NEW side, Range(side) \subseteq Servers,
           NEW other, NEW new, new = Turn(net, i, side, other)
    PROVE  /\ new.connected[i]
           /\ \A j \in Servers : j # i => new.connected[j] = net.connected[j]
           /\ \A a, b \in Servers :
                 <<a, b>> \in new.links <=>
                    \/ /\ <<a, b>> \in net.links
                       /\ ~(a = i /\ b \in Range(other))
                       /\ ~(b = i /\ a \in Range(other))
                    \/ a = i /\ b \in Range(side) /\ new.connected[b]
                    \/ b = i /\ a \in Range(side) /\ new.connected[a]
<1> DEFINE mid == Disconnect(net, i, other)
<1>1. mid \in Nets
  BY DisconnectTyped
<1>2. new = Connect(mid, i, side)
  BY DEF Turn
<1>3. /\ \A j \in Servers : j # i => mid.connected[j] = net.connected[j]
      /\ \A a, b \in Servers :
            <<a, b>> \in mid.links <=>
               /\ <<a, b>> \in net.links
               /\ ~(a = i /\ b \in Range(other))
               /\ ~(b = i /\ a \in Range(other))
  BY DisconnectEffect
<1> HIDE DEF mid
<1>4. /\ new.connected[i]
      /\ \A j \in Servers : j # i => new.connected[j] = mid.connected[j]
      /\ \A a, b \in Servers :
            <<a, b>> \in new.links <=>
               \/ <<a, b>> \in mid.links
               \/ a = i /\ b \in Range(side) /\ new.connected[b]
               \/ b = i /\ a \in Range(side) /\ new.connected[a]
  BY <1>1, <1>2, ConnectEffect
<1> QED
  BY <1>3, <1>4

LEMMA ConnectIso ==
    ASSUME NEW net \in Nets, Iso(net), NEW i \in Servers, NEW to, Range(to) \subseteq Servers
    PROVE  Iso(Connect(net, i, to))
<1> DEFINE new == Connect(net, i, to)
<1>1. /\ new.connected[i]
      /\ \A j \in Servers : j # i => new.connected[j] = net.connected[j]
      /\ \A a, b \in Servers :
            <<a, b>> \in new.links <=>
               \/ <<a, b>> \in net.links
               \/ a = i /\ b \in Range(to) /\ new.connected[b]
               \/ b = i /\ a \in Range(to) /\ new.connected[a]
  BY ConnectEffect
<1> HIDE DEF new
<1>2. Iso(new)
  BY <1>1 DEF Iso
<1> QED
  BY <1>2 DEF new

LEMMA TurnIso ==
    ASSUME NEW net \in Nets, Iso(net), NEW i \in Servers, NEW side, Range(side) \subseteq Servers,
           NEW other
    PROVE  Iso(Turn(net, i, side, other))
<1> DEFINE new == Turn(net, i, side, other)
<1>1. /\ new.connected[i]
      /\ \A j \in Servers : j # i => new.connected[j] = net.connected[j]
      /\ \A a, b \in Servers :
            <<a, b>> \in new.links =>
               \/ <<a, b>> \in net.links
               \/ a = i /\ b \in Range(side) /\ new.connected[b]
               \/ b = i /\ a \in Range(side) /\ new.connected[a]
  BY TurnEffect
<1> HIDE DEF new
<1>2. Iso(new)
  BY <1>1 DEF Iso
<1> QED
  BY <1>2 DEF new

LEMMA DisconnectIso ==
    ASSUME NEW net \in Nets, Iso(net), NEW i \in Servers
    PROVE  Iso(Disconnect(net, i, All))
<1> DEFINE new == Disconnect(net, i, All)
<1>1. /\ \A j \in Servers : j # i => new.connected[j] = net.connected[j]
      /\ \A a, b \in Servers :
            <<a, b>> \in new.links <=>
               /\ <<a, b>> \in net.links
               /\ ~(a = i /\ b \in Servers)
               /\ ~(b = i /\ a \in Servers)
  BY DisconnectEffect, AllList
<1> HIDE DEF new
<1>2. Iso(new)
  BY <1>1 DEF Iso
<1> QED
  BY <1>2 DEF new

LEMMA StartedIso ==
    ASSUME NEW net \in Nets, NEW srvs
    PROVE  Started(net, srvs) \in Nets /\ (Iso(net) => Iso(Started(net, srvs)))
<1>1. /\ Started(net, srvs).connected = net.connected
      /\ Started(net, srvs).links = net.links \ (srvs \X Servers)
      /\ Started(net, srvs) = [connected |-> net.connected, links |-> net.links \ (srvs \X Servers)]
  BY DEF Started, Nets
<1>2. Started(net, srvs) \in Nets
  BY <1>1 DEF Nets
<1> QED
  BY <1>1, <1>2 DEF Iso

LEMMA ConnectedAllIso ==
    ASSUME NEW net \in Nets, Iso(net)
    PROVE  ConnectedAll(net) \in Nets /\ Iso(ConnectedAll(net))
<1>1. PICK f \in [0..N -> Nets] :
        /\ f[0] = net
        /\ \A k \in 1..N : f[k] = Connect(f[k - 1], All[k], All)
        /\ ConnectedAll(net) = f[N]
  BY ConnectedAllLoop
<1> DEFINE P == {k \in 0..N : Iso(f[k])}
<1>2. N \in Nat /\ Range(All) \subseteq Servers /\ \A k \in 1..N : All[k] \in Servers
  BY AllList, ListRange, NAssumption
<1>3. 0 \in P
  BY <1>1, <1>2
<1>4. ASSUME NEW k \in 1..N, k - 1 \in P
      PROVE  k \in P
  <2>1. k - 1 \in 0..N /\ k \in 0..N
    BY <1>2
  <2>2. f[k - 1] \in Nets /\ Iso(f[k - 1])
    BY <1>4, <2>1
  <2> QED
    BY <1>1, <1>2, <2>1, <2>2, ConnectIso
<1> HIDE DEF P
<1>5. \A k \in 0..N : k \in P
  BY <1>2, <1>3, <1>4, Iterated
<1>6. N \in 0..N
  BY <1>2
<1> QED
  BY <1>1, <1>5, <1>6 DEF P

LEMMA SplitIso ==
    ASSUME NEW net \in Nets, Iso(net), NEW side, List(side), NEW other
    PROVE  Split(net, side, other) \in Nets /\ Iso(Split(net, side, other))
<1>1. PICK f \in [0..Len(side) -> Nets] :
        /\ f[0] = net
        /\ \A k \in 1..Len(side) : f[k] = Turn(f[k - 1], side[k], side, other)
        /\ Split(net, side, other) = f[Len(side)]
  BY SplitLoop
<1> DEFINE n == Len(side)
           P == {k \in 0..n : Iso(f[k])}
<1>2. n \in Nat /\ Range(side) \subseteq Servers /\ \A k \in 1..n : side[k] \in Servers
  BY ListRange DEF List
<1>3. 0 \in P
  BY <1>1, <1>2
<1>4. ASSUME NEW k \in 1..n, k - 1 \in P
      PROVE  k \in P
  <2>1. k - 1 \in 0..n /\ k \in 0..n
    BY <1>2
  <2>2. f[k - 1] \in Nets /\ Iso(f[k - 1])
    BY <1>4, <2>1
  <2> QED
    BY <1>1, <1>2, <2>1, <2>2, TurnIso
<1> HIDE DEF P
<1>5. \A k \in 0..n : k \in P
  BY <1>2, <1>3, <1>4, Iterated
<1>6. n \in 0..n
  BY <1>2
<1> QED
  BY <1>1, <1>5, <1>6 DEF P

-----------------------------------------------------------------------------
(* What a partition leaves enabled *)

\* The servers in done are connected with each other and cut off from apart, whose ends
\* among themselves are still those of net.
Cut(new, net, done, apart) ==
    /\ \A a \in done : new.connected[a]
    /\ \A a, b \in done : <<a, b>> \in new.links
    /\ \A a \in done, b \in apart : <<a, b>> \notin new.links /\ <<b, a>> \notin new.links
    /\ \A a, b \in apart : <<a, b>> \in net.links => <<a, b>> \in new.links

LEMMA TurnCuts ==
    ASSUME NEW net, NEW old \in Nets, NEW side, Range(side) \subseteq Servers,
           NEW other, Range(other) \subseteq Servers,
           \A a \in Range(side) : a \notin Range(other),
           NEW done, done \subseteq Range(side), NEW i \in Range(side),
           Cut(old, net, done, Range(other))
    PROVE  Cut(Turn(old, i, side, other), net, done \cup {i}, Range(other))
<1> DEFINE new == Turn(old, i, side, other)
<1>1. i \in Servers
  OBVIOUS
<1>2. /\ new.connected[i]
      /\ \A j \in Servers : j # i => new.connected[j] = old.connected[j]
      /\ \A a, b \in Servers :
            <<a, b>> \in new.links <=>
               \/ /\ <<a, b>> \in old.links
                  /\ ~(a = i /\ b \in Range(other))
                  /\ ~(b = i /\ a \in Range(other))
               \/ a = i /\ b \in Range(side) /\ new.connected[b]
               \/ b = i /\ a \in Range(side) /\ new.connected[a]
  BY <1>1, TurnEffect
<1> HIDE DEF new
<1>3. \A a \in done \cup {i} : new.connected[a]
  BY <1>1, <1>2 DEF Cut
<1>4. \A a, b \in done \cup {i} : <<a, b>> \in new.links
  <2>1. ASSUME NEW a \in done \cup {i}, NEW b \in done \cup {i}
        PROVE  <<a, b>> \in new.links
    <3>1. a \in Range(side) /\ b \in Range(side) /\ a \in Servers /\ b \in Servers
      OBVIOUS
    <3>2. CASE a = i
      BY <1>2, <1>3, <3>1, <3>2
    <3>3. CASE b = i
      BY <1>2, <1>3, <3>1, <3>3
    <3>4. CASE a # i /\ b # i
      BY <1>2, <3>1, <3>4 DEF Cut
    <3> QED
      BY <3>2, <3>3, <3>4
  <2> QED
    BY <2>1
<1>5. \A a \in done \cup {i}, b \in Range(other) :
         <<a, b>> \notin new.links /\ <<b, a>> \notin new.links
  <2>1. ASSUME NEW a \in done \cup {i}, NEW b \in Range(other)
        PROVE  <<a, b>> \notin new.links /\ <<b, a>> \notin new.links
    <3>1. /\ a \in Range(side) /\ a \in Servers /\ b \in Servers
          /\ b \notin Range(side) /\ b # i
      OBVIOUS
    <3>2. CASE a = i
      BY <1>2, <3>1, <3>2
    <3>3. CASE a # i
      BY <1>2, <3>1, <3>3 DEF Cut
    <3> QED
      BY <3>2, <3>3
  <2> QED
    BY <2>1
<1>6. \A a, b \in Range(other) : <<a, b>> \in net.links => <<a, b>> \in new.links
  <2>1. ASSUME NEW a \in Range(other), NEW b \in Range(other), <<a, b>> \in net.links
        PROVE  <<a, b>> \in new.links
    <3>1. a \in Servers /\ b \in Servers /\ a # i /\ b # i
      OBVIOUS
    <3> QED
      BY <1>2, <2>1, <3>1 DEF Cut
  <2> QED
    BY <2>1
<1> QED
  BY <1>3, <1>4, <1>5, <1>6 DEF Cut, new

\* A loop of Partition connects its side and cuts it off from the other one.
LEMMA SplitCuts ==
    ASSUME NEW net \in Nets, NEW side, List(side), NEW other, List(other),
           \A a \in Range(side) : a \notin Range(other)
    PROVE  Cut(Split(net, side, other), net, Range(side), Range(other))
<1>1. PICK f \in [0..Len(side) -> Nets] :
        /\ f[0] = net
        /\ \A k \in 1..Len(side) : f[k] = Turn(f[k - 1], side[k], side, other)
        /\ Split(net, side, other) = f[Len(side)]
  BY SplitLoop
<1> DEFINE n       == Len(side)
           Done(k) == {side[j] : j \in 1..k}
           Good(k) == Cut(f[k], net, Done(k), Range(other))
           P       == {k \in 0..n : Good(k)}
<1>2. /\ n \in Nat /\ Range(side) \subseteq Servers /\ Range(other) \subseteq Servers
      /\ \A k \in 1..n : side[k] \in Range(side)
  BY ListRange DEF List
<1>3. 0 \in P
  <2>1. Done(0) = {} /\ 0 \in 0..n
    BY <1>2
  <2> QED
    BY <1>1, <2>1 DEF Cut
<1>4. ASSUME NEW k \in 1..n, k - 1 \in P
      PROVE  k \in P
  <2>1. k - 1 \in 0..n /\ k \in 0..n
    BY <1>2
  <2>2. f[k - 1] \in Nets /\ Good(k - 1)
    BY <1>4, <2>1
  <2>3. Done(k) = Done(k - 1) \cup {side[k]}
    <3>1. \A j : j \in 1..k <=> j \in 1..(k - 1) \/ j = k
      BY <1>2
    <3> QED
      BY <3>1
  <2>4. Done(k - 1) \subseteq Range(side)
    <3>1. \A j \in 1..(k - 1) : j \in 1..n
      BY <1>2
    <3> QED
      BY <1>2, <3>1
  <2> HIDE DEF Done
  <2>5. Cut(Turn(f[k - 1], side[k], side, other), net, Done(k - 1) \cup {side[k]}, Range(other))
    BY <1>2, <2>2, <2>4, TurnCuts
  <2> QED
    BY <1>1, <2>1, <2>3, <2>5
<1> HIDE DEF P
<1>5. \A k \in 0..n : k \in P
  BY <1>2, <1>3, <1>4, Iterated
<1>6. n \in 0..n
  BY <1>2
<1>7. Done(n) = Range(side)
  BY ListRange DEF Range
<1> QED
  BY <1>1, <1>5, <1>6, <1>7 DEF P

\* Partition into two sides that share no server and leave none out enables exactly the
\* ends within a side.
LEMMA PartitionExact ==
    ASSUME NEW net \in Nets, Iso(net), NEW p1, List(p1), NEW p2, List(p2),
           Range(p2) = Servers \ Range(p1),
           NEW new, new = Split(Split(net, p1, p2), p2, p1)
    PROVE  /\ new \in Nets /\ Iso(new)
           /\ \A i, j \in Servers : <<i, j>> \in new.links <=>
                 (i \in Range(p1) /\ j \in Range(p1)) \/ (i \in Range(p2) /\ j \in Range(p2))
<1> DEFINE mid == Split(net, p1, p2)
<1>1. mid \in Nets /\ Iso(mid)
  BY SplitIso
<1>2. /\ \A a \in Range(p1) : a \notin Range(p2)
      /\ \A a \in Range(p2) : a \notin Range(p1)
  OBVIOUS
<1>3. Cut(mid, net, Range(p1), Range(p2))
  BY <1>2, SplitCuts
<1> HIDE DEF mid
<1>4. new = Split(mid, p2, p1)
  BY DEF mid
<1>5. Cut(new, mid, Range(p2), Range(p1))
  BY <1>1, <1>2, <1>4, SplitCuts
<1>6. new \in Nets /\ Iso(new)
  BY <1>1, <1>4, SplitIso
<1>7. /\ \A a, b \in Range(p1) : <<a, b>> \in new.links
      /\ \A a, b \in Range(p2) : <<a, b>> \in new.links
      /\ \A a \in Range(p1), b \in Range(p2) : <<a, b>> \notin new.links /\ <<b, a>> \notin new.links
  BY <1>3, <1>5, Zenon DEF Cut
<1>8. \A i \in Servers : i \in Range(p1) \/ i \in Range(p2)
  OBVIOUS
<1> QED
  BY <1>6, <1>7, <1>8, <1>2, Zenon

\* Every set of servers can be listed in increasing order.
Ordered(p, S) ==
    /\ p \in [1..Cardinality(S) -> S]
    /\ Range(p) = S
    /\ \A j, k \in DOMAIN p : j < k => p[j] < p[k]

LEMMA InOrderExists ==
    ASSUME NEW S \in SUBSET Servers
    PROVE  Ordered(InOrder(S), S) /\ IsFiniteSet(S)
<1> DEFINE P == {m \in 0..N : \A T \in SUBSET (0..(m - 1)) :
                                 IsFiniteSet(T) /\ \E p : Ordered(p, T)}
<1>1. 0 \in P
  <2> SUFFICES ASSUME NEW T \in SUBSET (0..(0 - 1))
               PROVE  IsFiniteSet(T) /\ \E p : Ordered(p, T)
    BY NAssumption
  <2>1. T = {} /\ IsFiniteSet(T) /\ Cardinality(T) = 0 /\ 1..0 = {}
    <3>1. T = {} /\ 1..0 = {}
      OBVIOUS
    <3> QED
      BY <3>1, FS_EmptySet, Zenon
  <2> DEFINE p == [k \in 1..0 |-> 0]
  <2>2. p \in [1..0 -> T] /\ DOMAIN p = {} /\ Range(p) = {}
    BY <2>1 DEF Range
  <2>3. Ordered(p, T)
    BY <2>1, <2>2 DEF Ordered
  <2> HIDE DEF p
  <2> QED
    BY <2>1, <2>3
<1>2. ASSUME NEW m \in 1..N, m - 1 \in P
      PROVE  m \in P
  <2> SUFFICES ASSUME NEW T \in SUBSET (0..(m - 1))
               PROVE  IsFiniteSet(T) /\ \E p : Ordered(p, T)
    BY NAssumption
  <2> DEFINE rest == T \ {m - 1}
  <2>1. rest \in SUBSET (0..((m - 1) - 1))
    OBVIOUS
  <2>2. IsFiniteSet(rest) /\ \E p : Ordered(p, rest)
    BY <1>2, <2>1
  <2>3. CASE m - 1 \notin T
    <3>1. rest = T
      BY <2>3
    <3> QED
      BY <2>2, <3>1
  <2>4. CASE m - 1 \in T
    <3>1. PICK q : Ordered(q, rest)
      BY <2>2
    <3> DEFINE c == Cardinality(rest)
               p == [k \in 1..(c + 1) |-> IF k = c + 1 THEN m - 1 ELSE q[k]]
    <3>2. c \in Nat /\ m - 1 \notin rest /\ T = rest \cup {m - 1}
      BY <2>2, <2>4, FS_CardinalityType
    <3> HIDE DEF rest
    <3>3. IsFiniteSet(T) /\ Cardinality(T) = c + 1
      BY <2>2, <3>2, FS_AddElement
    <3>4. q \in [1..c -> rest] /\ Range(q) = rest /\ \A j, k \in 1..c : j < k => q[j] < q[k]
      BY <3>1 DEF Ordered
    <3> HIDE DEF c
    <3>5. \A k \in 1..(c + 1) : k = c + 1 \/ k \in 1..c
      BY <3>2
    <3>6. p \in [1..(c + 1) -> T]
      BY <3>2, <3>4, <3>5
    <3>7. Range(p) = T
      <4>1. \A k \in 1..c : k \in 1..(c + 1) /\ p[k] = q[k]
        BY <3>2
      <4>2. c + 1 \in 1..(c + 1) /\ p[c + 1] = m - 1
        BY <3>2
      <4>3. ASSUME NEW x \in T
            PROVE  \E k \in 1..(c + 1) : p[k] = x
        <5>1. CASE x = m - 1
          BY <4>2, <5>1
        <5>2. CASE x # m - 1
          <6>1. PICK k \in 1..c : q[k] = x
            BY <3>2, <3>4, <5>2 DEF Range
          <6> QED
            BY <4>1, <6>1
        <5> QED
          BY <5>1, <5>2
      <4> HIDE DEF p
      <4> QED
        BY <3>6, <4>3 DEF Range
    <3>8. ASSUME NEW j \in 1..(c + 1), NEW k \in 1..(c + 1), j < k
          PROVE  p[j] < p[k]
      <4>1. j \in 1..c
        BY <3>2, <3>5, <3>8
      <4>2. q[j] \in 0..((m - 1) - 1) /\ p[j] = q[j]
        <5>1. q[j] \in rest /\ j # c + 1
          BY <3>2, <3>4, <4>1
        <5>2. q[j] \in 0..((m - 1) - 1)
          BY <2>1, <5>1, Zenon
        <5> QED
          BY <5>1, <5>2
      <4>3. CASE k = c + 1
        BY <4>2, <4>3
      <4>4. CASE k \in 1..c
        <5>1. k # c + 1
          BY <3>2, <4>4
        <5>2. p[k] = q[k]
          BY <5>1
        <5> QED
          BY <3>4, <3>8, <4>1, <4>2, <4>4, <5>2
      <4> QED
        BY <3>5, <4>3, <4>4
    <3>9. Ordered(p, T)
      BY <3>3, <3>6, <3>7, <3>8 DEF Ordered
    <3> HIDE DEF p
    <3> QED
      BY <3>3, <3>9
  <2> QED
    BY <2>3, <2>4
<1> HIDE DEF P
<1>3. \A m \in 0..N : m \in P
  BY <1>1, <1>2, Iterated, NAssumption
<1>4. N \in P
  BY <1>3, NAssumption
<1>5. IsFiniteSet(S) /\ \E p : Ordered(p, S)
  BY <1>4 DEF P, Servers
<1>6. \E p \in [1..Cardinality(S) -> S] :
         Range(p) = S /\ \A j, k \in DOMAIN p : j < k => p[j] < p[k]
  BY <1>5, Zenon DEF Ordered
<1>7. Ordered(InOrder(S), S)
  BY <1>6, Zenon DEF InOrder, Ordered
<1> QED
  BY <1>5, <1>7

LEMMA InOrderList ==
    ASSUME NEW S \in SUBSET Servers
    PROVE  List(InOrder(S)) /\ Range(InOrder(S)) = S
<1> DEFINE p == InOrder(S)
           c == Cardinality(S)
<1>1. p \in [1..c -> S] /\ Range(p) = S /\ c \in Nat
  BY InOrderExists, FS_CardinalityType DEF Ordered
<1> HIDE DEF p, c
<1>2. Len(p) = c
  BY <1>1
<1>3. p \in [1..c -> Servers]
  BY <1>1
<1>4. List(p)
  BY <1>1, <1>2, <1>3 DEF List
<1> QED
  BY <1>1, <1>4 DEF p

-----------------------------------------------------------------------------
(* MakePartition of an odd group *)

\* The groups MakePartition is right for.  In an even one its first side has a place too
\* many, which is left 0, so server 0 may be on both sides; in a group of one the code
\* indexes an empty slice.
OddGroup == N % 2 = 1 /\ N > 1

\* For any size of the group the two sides are lists of servers.
LEMMA MakePartitionLists ==
    ASSUME NEW l \in Servers, NEW p1, NEW p2,
           p1 = MakePartition(l)[1], p2 = MakePartition(l)[2]
    PROVE  List(p1) /\ List(p2)
<1> DEFINE h     == N \div 2
           at(k) == IF k < N THEN Others(l)[k] ELSE 0
<1>1. h \in Nat /\ h + 1 \in Nat /\ N \in Nat /\ N > 0
  BY NAssumption
<1>2. /\ p1 = [k \in 1..(h + 1) |-> at(k)]
      /\ p2 = [k \in 1..h |-> IF k = h THEN l ELSE at(h + 1 + k)]
  BY DEF MakePartition
<1> HIDE DEF h
<1>3. \A k \in Nat \ {0} : at(k) \in Servers
  <2> SUFFICES ASSUME NEW k \in Nat \ {0}
               PROVE  at(k) \in Servers
    OBVIOUS
  <2>1. CASE k < N
    <3>1. k \in 1..(N - 1)
      BY <1>1, <2>1
    <3>2. at(k) = IF k <= l THEN k - 1 ELSE k
      BY <2>1, <3>1 DEF Others
    <3> QED
      BY <1>1, <3>1, <3>2 DEF Servers
  <2>2. CASE ~ (k < N)
    BY <1>1, <2>2 DEF Servers
  <2> QED
    BY <2>1, <2>2
<1> HIDE DEF at
<1>4. /\ \A k \in 1..(h + 1) : k \in Nat \ {0}
      /\ \A k \in 1..h : h + 1 + k \in Nat \ {0}
  BY <1>1
<1>5. p1 \in [1..(h + 1) -> Servers] /\ p2 \in [1..h -> Servers]
  BY <1>2, <1>3, <1>4
<1>6. Len(p1) = h + 1 /\ Len(p2) = h
  BY <1>1, <1>5
<1> QED
  BY <1>1, <1>5, <1>6 DEF List

LEMMA MakePartitionSides ==
    ASSUME OddGroup, NEW l \in Servers, NEW p1, NEW p2,
           p1 = MakePartition(l)[1], p2 = MakePartition(l)[2]
    PROVE  /\ List(p1) /\ List(p2)
           /\ Range(p2) = Servers \ Range(p1)
           /\ l \in Range(p2)
           /\ IsFiniteSet(Range(p2)) /\ 2 * Cardinality(Range(p2)) < N
<1> DEFINE h == N \div 2
<1>1. h \in Nat /\ h > 0 /\ N = 2 * h + 1
  BY NAssumption DEF OddGroup
<1>2. p1 = [k \in 1..(h + 1) |-> IF k < N THEN Others(l)[k] ELSE 0]
  BY DEF MakePartition
<1>3. p2 = [k \in 1..h |-> IF k = h THEN l
                           ELSE IF h + 1 + k < N THEN Others(l)[h + 1 + k] ELSE 0]
  BY DEF MakePartition
<1> HIDE DEF h
<1>4. l \in Nat /\ l < N /\ Servers = 0..(2 * h)
  BY <1>1 DEF Servers
<1>5. \A k \in 1..(2 * h) : Others(l)[k] = IF k <= l THEN k - 1 ELSE k
  BY <1>1 DEF Others
<1>6. \A k \in 1..(h + 1) : p1[k] = IF k <= l THEN k - 1 ELSE k
  BY <1>1, <1>2, <1>5
<1>7. p2[h] = l /\ h \in 1..h
  BY <1>1, <1>3
<1>8. \A k \in 1..(h - 1) : p2[k] = IF h + 1 + k <= l THEN h + k ELSE h + 1 + k
  BY <1>1, <1>3, <1>5
<1>9. \A k \in 1..h : k = h \/ k \in 1..(h - 1)
  BY <1>1
<1>10. DOMAIN p1 = 1..(h + 1) /\ DOMAIN p2 = 1..h
  BY <1>2, <1>3
<1>11. \A k \in 1..(h + 1) : p1[k] \in Servers
  BY <1>1, <1>4, <1>6
<1>12. \A k \in 1..h : p2[k] \in Servers
  BY <1>1, <1>4, <1>7, <1>8, <1>9
<1>13. p1 \in [1..(h + 1) -> Servers] /\ p2 \in [1..h -> Servers]
  BY <1>2, <1>3, <1>11, <1>12
<1>14. Len(p1) = h + 1 /\ Len(p2) = h
  BY <1>1, <1>10, <1>13
<1>15. List(p1) /\ List(p2)
  BY <1>1, <1>13, <1>14 DEF List
<1>16. Range(p1) = {p1[k] : k \in 1..(h + 1)} /\ Range(p2) = {p2[k] : k \in 1..h}
  BY <1>10 DEF Range
<1>17. ASSUME NEW x \in Servers, x \notin Range(p1)
       PROVE  x \in Range(p2)
  <2>1. CASE x = l
    BY <1>7, <1>16, <2>1
  <2>2. CASE x # l
    <3> DEFINE k == IF x < l THEN x + 1 ELSE x
    <3>1. k \in 1..(2 * h) /\ (IF k <= l THEN k - 1 ELSE k) = x
      BY <1>1, <1>4, <2>2
    <3>2. ~ (k \in 1..(h + 1))
      BY <1>6, <1>16, <1>17, <3>1
    <3> HIDE DEF k
    <3> DEFINE j == k - (h + 1)
    <3>3. j \in 1..(h - 1) /\ h + 1 + j = k /\ j \in 1..h /\ h + j = k - 1
      BY <1>1, <3>1, <3>2
    <3>4. p2[j] = x
      BY <1>8, <3>1, <3>3
    <3> QED
      BY <1>16, <3>3, <3>4
  <2> QED
    BY <2>1, <2>2
<1>18. ASSUME NEW a \in 1..(h + 1), NEW b \in 1..h
       PROVE  p1[a] # p2[b]
  <2>1. CASE b = h
    BY <1>1, <1>4, <1>6, <1>7, <2>1
  <2>2. CASE b \in 1..(h - 1)
    BY <1>1, <1>4, <1>6, <1>8, <2>2
  <2> QED
    BY <1>9, <2>1, <2>2
<1>19. Range(p2) = Servers \ Range(p1)
  BY <1>12, <1>16, <1>17, <1>18
<1>20. l \in Range(p2)
  BY <1>7, <1>16
<1>21. p2 \in Surjection(1..h, Range(p2))
  BY <1>13, <1>16 DEF Surjection
<1>22. IsFiniteSet(1..h) /\ Cardinality(1..h) = h
  BY <1>1, FS_Interval
<1>23. IsFiniteSet(Range(p2)) /\ Cardinality(Range(p2)) <= h
  BY <1>21, <1>22, FS_Surjection
<1>24. Cardinality(Range(p2)) \in Nat
  BY <1>23, FS_CardinalityType
<1>25. 2 * Cardinality(Range(p2)) < N
  BY <1>1, <1>23, <1>24
<1> QED
  BY <1>15, <1>19, <1>20, <1>23, <1>25

-----------------------------------------------------------------------------
(* The invariant *)

\* Isolated is stated about the state, Iso about any net: the steps between connect and
\* disconnect within an operation are nets that no state of the group shows.
GroupInv ==
    /\ Net \in Nets
    /\ Iso(Net)
    /\ OddGroup => PartitionHolds /\ LeaderInMinority

LEMMA UnpartitionedStep ==
    ASSUME NEW net \in Nets, Iso(net), Becomes(net), NoPartition
    PROVE  GroupInv'
<1>1. Net' = net
  BY DEF Net, Becomes, Nets
<1>2. (Net \in Nets)' /\ Iso(Net)'
  BY <1>1 DEF Nets, Servers, Iso
<1>3. PartitionHolds' /\ LeaderInMinority'
  BY DEF NoPartition, PartitionHolds, LeaderInMinority
<1> QED
  BY <1>2, <1>3 DEF GroupInv

LEMMA PartitionStep ==
    ASSUME Net \in Nets, Iso(Net), NEW p1, List(p1), NEW p2, List(p2),
           Range(p2) = Servers \ Range(p1), Partition(p1, p2)
    PROVE  /\ (Net \in Nets)' /\ Iso(Net)' /\ PartitionHolds'
           /\ \A i, j \in Servers : <<i, j>> \in links' <=>
                 (i \in Range(p1) /\ j \in Range(p1)) \/ (i \in Range(p2) /\ j \in Range(p2))
<1> DEFINE new == Split(Split(Net, p1, p2), p2, p1)
<1>1. /\ new \in Nets /\ Iso(new)
      /\ \A i, j \in Servers : <<i, j>> \in new.links <=>
            (i \in Range(p1) /\ j \in Range(p1)) \/ (i \in Range(p2) /\ j \in Range(p2))
  BY PartitionExact
<1>2. Becomes(new) /\ sides' = <<Range(p1), Range(p2)>>
  BY DEF Partition
<1> HIDE DEF new
<1>3. Net' = new /\ links' = new.links
  BY <1>1, <1>2 DEF Net, Becomes, Nets
<1>4. (Net \in Nets)' /\ Iso(Net)'
  BY <1>1, <1>3 DEF Nets, Servers, Iso
<1>5. \A i, j \in Servers : (\E k \in 1..2 : {i, j} \subseteq sides'[k]) <=>
         (i \in Range(p1) /\ j \in Range(p1)) \/ (i \in Range(p2) /\ j \in Range(p2))
  <2>1. sides'[1] = Range(p1) /\ sides'[2] = Range(p2)
    BY <1>2
  <2>2. \A k : k \in 1..2 <=> k = 1 \/ k = 2
    OBVIOUS
  <2>3. \A i, j, S : {i, j} \subseteq S <=> i \in S /\ j \in S
    OBVIOUS
  <2> QED
    BY <2>1, <2>2, <2>3
<1>6. PartitionHolds'
  BY <1>1, <1>3, <1>5, Zenon DEF PartitionHolds, Servers
<1> QED
  BY <1>1, <1>3, <1>4, <1>6

LEMMA LeaderStep ==
    ASSUME OddGroup, Net \in Nets, Iso(Net), NEW l \in Servers, PartitionLeader(l)
    PROVE  LeaderInMinority'
<1> DEFINE p1 == MakePartition(l)[1]
           p2 == MakePartition(l)[2]
<1>1. /\ List(p1) /\ List(p2)
      /\ Range(p2) = Servers \ Range(p1)
      /\ l \in Range(p2)
      /\ IsFiniteSet(Range(p2)) /\ 2 * Cardinality(Range(p2)) < N
  BY MakePartitionSides
<1>2. Partition(p1, p2) /\ cutOff' = l
  BY DEF PartitionLeader
<1> HIDE DEF p1, p2
<1>3. \A i, j \in Servers : <<i, j>> \in links' <=>
         (i \in Range(p1) /\ j \in Range(p1)) \/ (i \in Range(p2) /\ j \in Range(p2))
  BY <1>1, <1>2, PartitionStep
<1> DEFINE reached == {j \in Servers : <<l, j>> \in links'}
<1>4. reached = Range(p2)
  BY <1>1, <1>3, Zenon
<1>5. Servers \ reached = Range(p1)
  <2>1. Range(p1) \subseteq Servers
    BY <1>1, ListRange
  <2> QED
    BY <1>1, <1>4, <2>1
<1>6. Range(p1) \X Range(p1) \subseteq links'
  <2>1. \A i, j \in Range(p1) : <<i, j>> \in links'
    BY <1>1, <1>3, ListRange, Zenon
  <2> QED
    BY <2>1
<1>7. 2 * Cardinality(reached) < N /\ (Servers \ reached) \X (Servers \ reached) \subseteq links'
  BY <1>1, <1>4, <1>5, <1>6
<1> QED
  BY <1>2, <1>7 DEF LeaderInMinority, Servers

LEMMA GroupInvInit == Init => GroupInv
<1> SUFFICES ASSUME Init
             PROVE  GroupInv
  OBVIOUS
<1>1. Made \in Nets /\ Iso(Made)
  BY DEF Made, Nets, Iso
<1> DEFINE net == ConnectedAll(Started(Made, Servers))
<1>2. net \in Nets /\ Iso(net)
  BY <1>1, StartedIso, ConnectedAllIso
<1>3. Net = net
  BY <1>2 DEF Init, Net, Nets
<1>4. PartitionHolds /\ LeaderInMinority
  BY DEF Init, PartitionHolds, LeaderInMinority
<1> QED
  BY <1>2, <1>3, <1>4 DEF GroupInv

LEMMA GroupInvStep == GroupInv /\ [Next]_vars => GroupInv'
<1> SUFFICES ASSUME GroupInv, [Next]_vars
             PROVE  GroupInv'
  OBVIOUS
<1>0. Net \in Nets /\ Iso(Net)
  BY DEF GroupInv
<1>1. ASSUME NEW i \in Servers, StartServer(i)
      PROVE  GroupInv'
  BY <1>0, <1>1, StartedIso, UnpartitionedStep DEF StartServer
<1>2. ASSUME NEW i \in Servers, Restart(i)
      PROVE  GroupInv'
  BY <1>0, <1>2, StartedIso, ConnectedAllIso, UnpartitionedStep DEF Restart
<1>3. ASSUME NEW i \in Servers, ShutdownServer(i)
      PROVE  GroupInv'
  BY <1>0, <1>3, DisconnectTyped, DisconnectIso, UnpartitionedStep DEF ShutdownServer
<1>4. ASSUME NEW i \in Servers, ConnectOne(i)
      PROVE  GroupInv'
  <2>1. Connect(Net, i, All) \in Nets /\ Iso(Connect(Net, i, All))
    BY <1>0, AllList, ConnectTyped, ConnectIso
  <2> QED
    BY <1>4, <2>1, UnpartitionedStep DEF ConnectOne
<1>5. ASSUME NEW i \in Servers, DisconnectAll(i)
      PROVE  GroupInv'
  BY <1>0, <1>5, DisconnectTyped, DisconnectIso, UnpartitionedStep DEF DisconnectAll
<1>6. ASSUME NEW l \in Servers, PartitionLeader(l)
      PROVE  GroupInv'
  <2>1. /\ (Net \in Nets)' /\ Iso(Net)'
        /\ OddGroup => PartitionHolds'
    \* In an even group the sides may share server 0; the net is sound all the same.
    <3> DEFINE p1 == MakePartition(l)[1]
               p2 == MakePartition(l)[2]
               new == Split(Split(Net, p1, p2), p2, p1)
    <3>1. Partition(p1, p2)
      BY <1>6 DEF PartitionLeader
    <3>2. List(p1) /\ List(p2)
      BY MakePartitionLists
    <3>3. new \in Nets /\ Iso(new)
      BY <1>0, <3>2, SplitIso
    <3>4. Net' = new
      BY <3>1, <3>3 DEF Partition, Becomes, Net, Nets
    <3>5. (Net \in Nets)' /\ Iso(Net)'
      BY <3>3, <3>4 DEF Nets, Servers, Iso
    <3>6. OddGroup => Range(p2) = Servers \ Range(p1)
      BY MakePartitionSides
    <3> QED
      BY <1>0, <3>1, <3>2, <3>5, <3>6, PartitionStep
  <2>2. OddGroup => LeaderInMinority'
    BY <1>0, <1>6, LeaderStep
  <2> QED
    BY <2>1, <2>2 DEF GroupInv, OddGroup
<1>7. CASE StartServers
  BY <1>0, <1>7, StartedIso, ConnectedAllIso, UnpartitionedStep DEF StartServers
<1>8. CASE ConnectAll
  BY <1>0, <1>8, ConnectedAllIso, UnpartitionedStep DEF ConnectAll
<1>9. CASE RandomPartition
  <2>1. PICK one \in SUBSET Servers : Partition(InOrder(one), InOrder(Servers \ one))
    BY <1>9 DEF RandomPartition
  <2>2. Servers \ one \in SUBSET Servers
    OBVIOUS
  <2>3. /\ List(InOrder(one)) /\ Range(InOrder(one)) = one
        /\ List(InOrder(Servers \ one)) /\ Range(InOrder(Servers \ one)) = Servers \ one
    BY <2>2, InOrderList
  <2>4. (Net \in Nets)' /\ Iso(Net)' /\ PartitionHolds'
    BY <1>0, <2>1, <2>3, PartitionStep
  <2>5. LeaderInMinority'
    BY <1>9 DEF RandomPartition, LeaderInMinority
  <2> QED
    BY <2>4, <2>5 DEF GroupInv
<1>10. CASE UNCHANGED vars
  BY <1>10 DEF vars, GroupInv, Net, Nets, Servers, Iso, OddGroup, PartitionHolds, LeaderInMinority
<1> QED
  BY <1>1, <1>2, <1>3, <1>4, <1>5, <1>6, <1>7, <1>8, <1>9, <1>10 DEF Next

LEMMA GroupInvariant == Spec => []GroupInv
BY GroupInvInit, GroupInvStep, PTL DEF Spec

\* In a group of any size, even or odd, a server that is not connected has no enabled
\* end, whatever sequence of connects, partitions, shutdowns and restarts led there.
THEOREM DisconnectedIsIsolated == Spec => []Isolated
<1>1. GroupInv => Isolated
  BY DEF GroupInv, Iso, Net, Isolated
<1> QED
  BY <1>1, GroupInvariant, PTL

\* In every group of an odd number of servers, Partition leaves exactly the ends within a
\* side enabled, from whatever connections it starts.
THEOREM PartitionIsExact == Spec => [](OddGroup => PartitionHolds)
<1>1. GroupInv => (OddGroup => PartitionHolds)
  BY DEF GroupInv
<1> QED
  BY <1>1, GroupInvariant, PTL

\* In every group of an odd number of servers, the leader that MakePartition cuts off
\* reaches a minority, and those it does not reach are all connected with each other.
THEOREM LeaderIsInMinority == Spec => [](OddGroup => LeaderInMinority)
<1>1. GroupInv => (OddGroup => LeaderInMinority)
  BY DEF GroupInv
<1> QED
  BY <1>1, GroupInvariant, PTL
=============================================================================
