--------------------------- MODULE ShardCfgProofs ---------------------------
(***************************************************************************)
(* Proofs about ShardCfg, for every number of shards and every finite set  *)
(* of group ids: JoinBalance and LeaveBalance leave a configuration that   *)
(* CheckConfig accepts, with the fewest moves, whatever calls were refused *)
(* before.                                                                 *)
(***************************************************************************)
EXTENDS ShardCfg, FiniteSetTheorems, WellFoundedInduction, TLAPS

-----------------------------------------------------------------------------
(* analyze finds the groups it looks for *)

\* A non-empty set of natural numbers has a least element.
LEMMA LeastNatural ==
    ASSUME NEW T \in SUBSET Nat, T # {}
    PROVE  \E x \in T : \A y \in T : x <= y
<1>1. PICK x \in T : \A y \in T : ~ (<<y, x>> \in OpToRel(<, Nat))
  BY WFMin, NatLessThanWellFounded, Zenon
<1>2. \A y \in T : ~ (y < x)
  BY <1>1 DEF OpToRel
<1>3. \A y \in T : x <= y
  BY <1>2, SMT
<1> QED
  BY <1>3

\* The number of shards of a group is at most the number of shards.
LEMMA CountType ==
    ASSUME NEW shards, NEW g
    PROVE  Count(shards, g) \in 0..NShards
<1>1. IsFiniteSet(ShardIds) /\ Cardinality(ShardIds) = NShards
  BY FS_Interval, NShardsAssumption DEF ShardIds
<1>2. {s \in ShardIds : shards[s] = g} \in SUBSET ShardIds
  OBVIOUS
<1>3. /\ IsFiniteSet({s \in ShardIds : shards[s] = g})
      /\ Cardinality({s \in ShardIds : shards[s] = g}) <= NShards
  BY <1>1, <1>2, FS_Subset
<1>4. Cardinality({s \in ShardIds : shards[s] = g}) \in Nat
  BY <1>3, FS_CardinalityType
<1> QED
  BY <1>3, <1>4, NShardsAssumption DEF Count

\* The least loaded group, and the first of those by gid, exists.
LEMMA LeastLoadedExists ==
    ASSUME Groups \subseteq Nat, Groups # {}
    PROVE  /\ LeastLoaded \in Groups
           /\ \A h \in Groups : Count(Shards, LeastLoaded) <= Count(Shards, h)
<1> DEFINE loads == {Count(Shards, g) : g \in Groups}
<1>1. loads \in SUBSET Nat /\ loads # {}
  <2>1. \A g \in Groups : Count(Shards, g) \in 0..NShards
    BY CountType
  <2>2. \A g \in Groups : Count(Shards, g) \in Nat
    BY <2>1, NShardsAssumption
  <2> QED
    BY <2>2
<1>2. PICK c \in loads : \A d \in loads : c <= d
  BY <1>1, LeastNatural
<1> DEFINE lowest == {g \in Groups : Count(Shards, g) = c}
<1>3. lowest \in SUBSET Nat /\ lowest # {}
  BY <1>2
<1>4. PICK g \in lowest : \A h \in lowest : g <= h
  BY <1>3, LeastNatural
<1>5. \A h \in Groups : \/ Count(Shards, h) > Count(Shards, g)
                        \/ Count(Shards, h) = Count(Shards, g) /\ g <= h
  <2> SUFFICES ASSUME NEW h \in Groups
               PROVE  \/ Count(Shards, h) > Count(Shards, g)
                      \/ Count(Shards, h) = Count(Shards, g) /\ g <= h
    OBVIOUS
  <2>1. Count(Shards, g) <= Count(Shards, h) /\ Count(Shards, g) = c
    BY <1>2, <1>4
  <2>2. Count(Shards, h) = c => g <= h
    BY <1>4
  <2>3. Count(Shards, g) \in 0..NShards /\ Count(Shards, h) \in 0..NShards
    BY CountType
  <2> QED
    BY <2>1, <2>2, <2>3, NShardsAssumption
<1>6. /\ LeastLoaded \in Groups
      /\ \A h \in Groups : \/ Count(Shards, h) > Count(Shards, LeastLoaded)
                           \/ /\ Count(Shards, h) = Count(Shards, LeastLoaded)
                              /\ LeastLoaded <= h
  BY <1>4, <1>5, Zenon DEF LeastLoaded
<1>7. \A h \in Groups : Count(Shards, h) \in 0..NShards
  BY CountType
<1> QED
  BY <1>6, <1>7, NShardsAssumption

\* The most loaded group, and the first of those by gid, exists.
LEMMA MostLoadedExists ==
    ASSUME Groups \subseteq Nat, Groups # {}
    PROVE  /\ MostLoaded \in Groups
           /\ \A h \in Groups : Count(Shards, h) <= Count(Shards, MostLoaded)
<1> DEFINE gaps == {NShards - Count(Shards, g) : g \in Groups}
<1>1. gaps \in SUBSET Nat /\ gaps # {}
  <2>1. \A g \in Groups : Count(Shards, g) \in 0..NShards
    BY CountType
  <2>2. \A g \in Groups : NShards - Count(Shards, g) \in Nat
    BY <2>1, NShardsAssumption
  <2> QED
    BY <2>2
<1>2. PICK c \in gaps : \A d \in gaps : c <= d
  BY <1>1, LeastNatural
<1> DEFINE highest == {g \in Groups : NShards - Count(Shards, g) = c}
<1>3. highest \in SUBSET Nat /\ highest # {}
  BY <1>2
<1>4. PICK g \in highest : \A h \in highest : g <= h
  BY <1>3, LeastNatural
<1>5. \A h \in Groups : \/ Count(Shards, h) < Count(Shards, g)
                        \/ Count(Shards, h) = Count(Shards, g) /\ g <= h
  <2> SUFFICES ASSUME NEW h \in Groups
               PROVE  \/ Count(Shards, h) < Count(Shards, g)
                      \/ Count(Shards, h) = Count(Shards, g) /\ g <= h
    OBVIOUS
  <2>1. /\ NShards - Count(Shards, g) <= NShards - Count(Shards, h)
        /\ NShards - Count(Shards, g) = c
    BY <1>2, <1>4
  <2>2. NShards - Count(Shards, h) = c => g <= h
    BY <1>4
  <2>3. Count(Shards, g) \in 0..NShards /\ Count(Shards, h) \in 0..NShards
    BY CountType
  <2> QED
    BY <2>1, <2>2, <2>3, NShardsAssumption
<1>6. /\ MostLoaded \in Groups
      /\ \A h \in Groups : \/ Count(Shards, h) < Count(Shards, MostLoaded)
                           \/ /\ Count(Shards, h) = Count(Shards, MostLoaded)
                              /\ MostLoaded <= h
  BY <1>4, <1>5, Zenon DEF MostLoaded
<1>7. \A h \in Groups : Count(Shards, h) \in 0..NShards
  BY CountType
<1> QED
  BY <1>6, <1>7, NShardsAssumption

\* The second loop's test is the balance that CheckConfig asks for.
LEMMA WellBalancedSuffices ==
    ASSUME Groups \subseteq Nat, Groups # {}, WellBalanced
    PROVE  Balanced(Shards, Groups)
<1> SUFFICES ASSUME NEW g \in Groups, NEW h \in Groups
             PROVE  Count(Shards, g) <= Count(Shards, h) + 1
  BY DEF Balanced
<1>1. /\ Count(Shards, g) <= Count(Shards, MostLoaded)
      /\ Count(Shards, LeastLoaded) <= Count(Shards, h)
  BY LeastLoadedExists, MostLoadedExists
<1>2. Count(Shards, MostLoaded) < Count(Shards, LeastLoaded) + 2
  BY DEF WellBalanced
<1>3. /\ Count(Shards, g) \in 0..NShards /\ Count(Shards, h) \in 0..NShards
      /\ Count(Shards, MostLoaded) \in 0..NShards
      /\ Count(Shards, LeastLoaded) \in 0..NShards
  BY CountType
<1> QED
  BY <1>1, <1>2, <1>3, NShardsAssumption

-----------------------------------------------------------------------------
(* The inductive invariant *)

\* Rebalance runs only with groups to serve the shards, and only for a call that
\* was not refused.
Entered == pc # "idle" => Groups # {} /\ ok

\* Every shard that the first loop has passed has a known group, and after the loop
\* every shard has.
Assigned ==
    /\ pc = "assign" => \A s \in 1..(index - 1) : Shards[s] \in Groups
    /\ pc = "move" => \A s \in ShardIds : Shards[s] \in Groups

Inv == TypeOK /\ Entered /\ Assigned /\ ConfigChecked

LEMMA GroupsNat == TypeOK => Groups \subseteq Nat
BY GidsAssumption DEF TypeOK

LEMMA InvInit == Init => Inv
<1> SUFFICES ASSUME Init
             PROVE  Inv
  OBVIOUS
<1>1. ok \in BOOLEAN
  BY Zenon DEF Init
<1>2. Shards \in Assignments
  BY DEF Init, Assignments
<1> QED
  BY <1>1, <1>2, NShardsAssumption, MaxNumAssumption
  DEF Init, Inv, TypeOK, Entered, Assigned, ConfigChecked, Allocated, Balanced

LEMMA BeginInv ==
    ASSUME Inv, pc = "idle", Num < MaxNum,
           NEW gs \in SUBSET Gids, BeginRebalance(gs)
    PROVE  Inv'
<1>1. ok' \in BOOLEAN
  BY Zenon DEF BeginRebalance
<1>2. Shards' \in Assignments
  BY DEF BeginRebalance, Assignments, Inv, TypeOK
<1>3. TypeOK'
  BY <1>1, <1>2, NShardsAssumption, MaxNumAssumption
  DEF BeginRebalance, Inv, TypeOK, ShardIds
<1>4. Entered' /\ Assigned'
  BY DEF BeginRebalance, Entered, Assigned
<1>5. ConfigChecked'
  BY DEF BeginRebalance, ConfigChecked, Allocated, Balanced
<1> QED
  BY <1>3, <1>4, <1>5 DEF Inv

LEMMA RefuseInv ==
    ASSUME Inv, pc = "idle", NEW gs \in SUBSET Gids, Refuse(gs)
    PROVE  Inv'
<1>1. ok' \in BOOLEAN
  BY Zenon DEF Refuse
<1>2. TypeOK'
  BY <1>1 DEF Refuse, Inv, TypeOK
<1>3. Entered' /\ Assigned' /\ ConfigChecked'
  BY DEF Refuse, Entered, Assigned, ConfigChecked
<1> QED
  BY <1>2, <1>3 DEF Inv

LEMMA JoinInv ==
    ASSUME Inv, NEW gids \in SUBSET Gids, JoinBalance(gids)
    PROVE  Inv'
<1>1. pc = "idle" /\ Num < MaxNum
  BY DEF JoinBalance
<1>2. CASE BeginRebalance(Groups \cup gids)
  <2>1. Groups \cup gids \in SUBSET Gids
    BY DEF Inv, TypeOK
  <2> QED
    BY <1>1, <1>2, <2>1, BeginInv
<1>3. ASSUME NEW seen \in SUBSET (gids \ Groups), Refuse(Groups \cup seen)
      PROVE  Inv'
  <2>1. Groups \cup seen \in SUBSET Gids
    BY DEF Inv, TypeOK
  <2> QED
    BY <1>1, <1>3, <2>1, RefuseInv
<1> QED
  BY <1>2, <1>3 DEF JoinBalance

LEMMA LeaveInv ==
    ASSUME Inv, NEW gids, LeaveBalance(gids)
    PROVE  Inv'
<1> DEFINE left(n) == Groups \ {gids[i] : i \in 1..n}
<1>1. pc = "idle" /\ Num < MaxNum
  BY DEF LeaveBalance
<1>2. \A n : left(n) \in SUBSET Gids
  BY DEF Inv, TypeOK
<1>3. CASE BeginRebalance(left(Len(gids)))
  BY <1>1, <1>2, <1>3, BeginInv
<1>4. ASSUME NEW i \in Unknown(gids), Refuse(left(i - 1))
      PROVE  Inv'
  BY <1>1, <1>2, <1>4, RefuseInv
<1> QED
  BY <1>3, <1>4 DEF LeaveBalance

LEMMA AssignInv ==
    ASSUME Inv, AssignShard
    PROVE  Inv'
<1>1. TypeOK /\ pc = "assign" /\ index \in ShardIds /\ Groups # {}
  BY DEF AssignShard, Inv, TypeOK, Entered
<1>2. LeastLoaded \in Groups
  BY <1>1, GroupsNat, LeastLoadedExists
<1>3. Shards \in [ShardIds -> Gids \cup {0}] /\ Groups \subseteq Gids
  BY <1>1 DEF TypeOK, Assignments
<1>4. /\ Shards' \in [ShardIds -> Gids \cup {0}]
      /\ Shards'[index] \in Groups
      /\ \A s \in ShardIds : s # index => Shards'[s] = Shards[s]
  BY <1>1, <1>2, <1>3 DEF AssignShard, NeedsGroup, AssignTo
<1>5. /\ index \in Nat /\ 1 <= index /\ index <= NShards
      /\ index' = index + 1 /\ Groups' = Groups
      /\ pc' = IF index = NShards THEN "move" ELSE "assign"
  BY <1>1, NShardsAssumption DEF AssignShard, ShardIds
<1>6. TypeOK'
  <2>1. index' \in 1..(NShards + 1) /\ (pc' = "assign" => index' \in ShardIds)
    BY <1>5, NShardsAssumption DEF ShardIds
  <2>2. pc' \in {"idle", "assign", "move"}
    BY <1>5
  <2> QED
    BY <1>1, <1>4, <2>1, <2>2 DEF AssignShard, TypeOK, Assignments
<1>7. \A s \in 1..index : Shards'[s] \in Groups
  <2> SUFFICES ASSUME NEW s \in 1..index
               PROVE  Shards'[s] \in Groups
    OBVIOUS
  <2>1. CASE s = index
    BY <1>4, <2>1
  <2>2. CASE s # index
    <3>1. s \in ShardIds /\ s \in 1..(index - 1)
      BY <1>5, <2>2, NShardsAssumption DEF ShardIds
    <3> QED
      BY <1>1, <1>4, <2>2, <3>1 DEF Inv, Assigned
  <2> QED
    BY <2>1, <2>2
<1>8. Assigned'
  <2>1. index' - 1 = index
    BY <1>5
  <2>2. pc' = "move" => index = NShards
    BY <1>5
  <2> QED
    BY <1>5, <1>7, <2>1, <2>2 DEF Assigned, ShardIds
<1>9. Entered' /\ ConfigChecked'
  BY <1>1, <1>5 DEF AssignShard, Inv, Entered, ConfigChecked
<1> QED
  BY <1>6, <1>8, <1>9 DEF Inv

LEMMA MoveInv ==
    ASSUME Inv, MoveShard
    PROVE  Inv'
<1>1. TypeOK /\ pc = "move" /\ Groups # {}
  BY DEF MoveShard, Inv, Entered
<1>2. LeastLoaded \in Groups
  BY <1>1, GroupsNat, LeastLoadedExists
<1>3. PICK s \in ShardIds : Shards' = [Shards EXCEPT ![s] = LeastLoaded]
  BY DEF MoveShard
<1>4. Shards \in [ShardIds -> Gids \cup {0}] /\ Groups \subseteq Gids
  BY <1>1 DEF TypeOK, Assignments
<1>5. TypeOK'
  BY <1>1, <1>2, <1>3, <1>4 DEF MoveShard, TypeOK, Assignments
<1>6. Assigned'
  BY <1>1, <1>2, <1>3, <1>4 DEF MoveShard, Inv, Assigned
<1>7. Entered' /\ ConfigChecked'
  BY <1>1 DEF MoveShard, Inv, Entered, ConfigChecked
<1> QED
  BY <1>5, <1>6, <1>7 DEF Inv

LEMMA EndInv ==
    ASSUME Inv, EndRebalance
    PROVE  Inv'
<1>1. TypeOK /\ pc = "move" /\ Groups # {} /\ WellBalanced
  BY DEF EndRebalance, Inv, Entered
<1>2. Allocated(Shards, Groups) /\ Balanced(Shards, Groups)
  BY <1>1, GroupsNat, WellBalancedSuffices DEF Inv, Assigned, Allocated
<1>3. TypeOK'
  BY <1>1 DEF EndRebalance, TypeOK, cfgVars
<1>4. Entered' /\ Assigned'
  BY DEF EndRebalance, Entered, Assigned
<1>5. ConfigChecked'
  BY <1>2 DEF EndRebalance, cfgVars, ConfigChecked, Allocated, Balanced
<1> QED
  BY <1>3, <1>4, <1>5 DEF Inv

LEMMA InvNext == Inv /\ [Next]_vars => Inv'
<1> SUFFICES ASSUME Inv, [Next]_vars
             PROVE  Inv'
  OBVIOUS
<1>1. ASSUME NEW gids \in SUBSET Gids, JoinBalance(gids)
      PROVE  Inv'
  BY <1>1, JoinInv
<1>2. ASSUME NEW n \in 1..2, NEW gids \in [1..n -> Gids], LeaveBalance(gids)
      PROVE  Inv'
  BY <1>2, LeaveInv
<1>3. CASE Rebalance
  BY <1>3, AssignInv, MoveInv, EndInv DEF Rebalance
<1>4. CASE UNCHANGED vars
  BY <1>4 DEF vars, cfgVars, Inv, TypeOK, Entered, Assigned, ConfigChecked, Allocated, Balanced
<1> QED
  BY <1>1, <1>2, <1>3, <1>4 DEF Next

LEMMA InvHolds == Spec => []Inv
<1>1. Init => Inv
  BY InvInit
<1>2. Inv /\ [Next]_vars => Inv'
  BY InvNext
<1> QED
  BY <1>1, <1>2, PTL DEF Spec

-----------------------------------------------------------------------------
(* Counting shards *)

LEMMA Finite ==
    ASSUME NEW X \in SUBSET ShardIds
    PROVE  IsFiniteSet(X) /\ Cardinality(X) \in Nat
<1>1. IsFiniteSet(ShardIds)
  BY FS_Interval, NShardsAssumption DEF ShardIds
<1>2. IsFiniteSet(X)
  BY <1>1, FS_Subset
<1> QED
  BY <1>2, FS_CardinalityType

\* A shard that goes from one group to another.
LEMMA CountChange ==
    ASSUME NEW shards, NEW s \in ShardIds, NEW g, g # shards[s],
           NEW new, new[s] = g, \A r \in ShardIds : r # s => new[r] = shards[r]
    PROVE  /\ Count(new, g) = Count(shards, g) + 1
           /\ Count(new, shards[s]) = Count(shards, shards[s]) - 1
           /\ \A h : h # g /\ h # shards[s] => Count(new, h) = Count(shards, h)
<1> DEFINE Of(x, h) == {r \in ShardIds : x[r] = h}
<1>1. Of(new, g) = Of(shards, g) \cup {s} /\ s \notin Of(shards, g)
  OBVIOUS
<1>2. Of(new, shards[s]) = Of(shards, shards[s]) \ {s} /\ s \in Of(shards, shards[s])
  OBVIOUS
<1>3. \A h : h # g /\ h # shards[s] => Of(new, h) = Of(shards, h)
  OBVIOUS
<1>4. IsFiniteSet(Of(shards, g)) /\ IsFiniteSet(Of(shards, shards[s]))
  BY Finite
<1> HIDE DEF Of
<1>5. Cardinality(Of(new, g)) = Cardinality(Of(shards, g)) + 1
  BY <1>1, <1>4, FS_AddElement
<1>6. Cardinality(Of(new, shards[s])) = Cardinality(Of(shards, shards[s])) - 1
  BY <1>2, <1>4, FS_RemoveElement
<1> QED
  BY <1>3, <1>5, <1>6 DEF Of, Count

LEMMA Iterated ==
    ASSUME NEW n \in Nat, NEW P, 0 \in P,
           \A k \in 1..n : k - 1 \in P => k \in P
    PROVE  n \in P
<1> DEFINE bad == {k \in 0..n : k \notin P}
<1>1. CASE bad = {}
  BY <1>1
<1>2. CASE bad # {}
  <2>1. bad \in SUBSET Nat
    OBVIOUS
  <2>2. PICK x \in bad : \A y \in bad : x <= y
    BY <1>2, <2>1, LeastNatural
  <2>3. x \in 1..n /\ x - 1 \in 0..n /\ ~ (x <= x - 1)
    OBVIOUS
  <2>4. x - 1 \in P
    BY <2>2, <2>3
  <2> QED
    BY <2>3, <2>4
<1> QED
  BY <1>1, <1>2

\* The shards of X that f maps to a gid in T.
With(X, f, T) == {s \in X : f[s] \in T}

\* Two sets of shards, each told apart by gid: if of each gid in T the one has no more
\* than the other, it has no more altogether.
LEMMA Gathered ==
    ASSUME NEW X \in SUBSET ShardIds, NEW f, NEW Y \in SUBSET ShardIds, NEW h,
           NEW T, IsFiniteSet(T),
           \A g \in T : Cardinality(With(X, f, {g})) <= Cardinality(With(Y, h, {g}))
    PROVE  Cardinality(With(X, f, T)) <= Cardinality(With(Y, h, T))
<1> DEFINE n == Cardinality(T)
<1>1. n \in Nat /\ ExistsBijection(1..n, T)
  BY FS_CardinalityType
<1>2. PICK e : e \in Bijection(1..n, T)
  BY <1>1 DEF ExistsBijection
<1> HIDE DEF n
<1>3. /\ e \in [1..n -> T]
      /\ \A j, k \in 1..n : e[j] = e[k] => j = k
      /\ \A g \in T : \E k \in 1..n : e[k] = g
  BY <1>2 DEF Bijection, Injection, Surjection, IsInjective
<1> DEFINE XX(m) == {s \in X : \E k \in 1..m : f[s] = e[k]}
           YY(m) == {s \in Y : \E k \in 1..m : h[s] = e[k]}
           P     == {m \in 0..n : Cardinality(XX(m)) <= Cardinality(YY(m))}
<1>4. 0 \in P
  <2>1. 0 \in 0..n /\ 1..0 = {}
    BY <1>1
  <2>2. XX(0) = {} /\ YY(0) = {}
    BY <2>1
  <2>3. Cardinality({}) <= Cardinality({})
    BY FS_EmptySet
  <2> HIDE DEF XX, YY
  <2> QED
    BY <2>1, <2>2, <2>3
<1>5. ASSUME NEW m \in 1..n, m - 1 \in P
      PROVE  m \in P
  <2> DEFINE x == {s \in X : f[s] = e[m]}
             y == {s \in Y : h[s] = e[m]}
  <2>1. m \in 0..n /\ m - 1 \in 0..n /\ \A k : k \in 1..m <=> k \in 1..(m - 1) \/ k = m
    BY <1>1
  <2>2. \A k \in 1..(m - 1) : k \in 1..n /\ k # m
    BY <1>1
  <2>3. \A k \in 1..(m - 1) : e[k] # e[m]
    BY <1>3, <2>2
  <2>4. XX(m) = XX(m - 1) \cup x /\ XX(m - 1) \cap x = {}
    BY <2>1, <2>3, Zenon
  <2>5. YY(m) = YY(m - 1) \cup y /\ YY(m - 1) \cap y = {}
    BY <2>1, <2>3, Zenon
  <2>6. /\ XX(m - 1) \in SUBSET ShardIds /\ x \in SUBSET ShardIds
        /\ YY(m - 1) \in SUBSET ShardIds /\ y \in SUBSET ShardIds
    OBVIOUS
  <2>7. Cardinality(x) <= Cardinality(y)
    <3>1. x = With(X, f, {e[m]}) /\ y = With(Y, h, {e[m]}) /\ e[m] \in T
      BY <1>3 DEF With
    <3> HIDE DEF x, y
    <3> QED
      BY <3>1
  <2>8. Cardinality(XX(m - 1)) <= Cardinality(YY(m - 1))
    BY <1>5
  <2> HIDE DEF XX, YY, x, y
  <2>9. /\ IsFiniteSet(XX(m - 1)) /\ Cardinality(XX(m - 1)) \in Nat
        /\ IsFiniteSet(x) /\ Cardinality(x) \in Nat
        /\ IsFiniteSet(YY(m - 1)) /\ Cardinality(YY(m - 1)) \in Nat
        /\ IsFiniteSet(y) /\ Cardinality(y) \in Nat
    BY <2>6, Finite
  <2>10. Cardinality(XX(m)) = Cardinality(XX(m - 1)) + Cardinality(x) - Cardinality({})
    BY <2>4, <2>9, FS_Union
  <2>11. Cardinality(YY(m)) = Cardinality(YY(m - 1)) + Cardinality(y) - Cardinality({})
    BY <2>5, <2>9, FS_Union
  <2>12. Cardinality({}) = 0
    BY FS_EmptySet
  <2>13. Cardinality(XX(m)) <= Cardinality(YY(m))
    BY <2>7, <2>8, <2>9, <2>10, <2>11, <2>12
  <2> QED
    BY <2>1, <2>13
<1>6. XX(n) = With(X, f, T) /\ YY(n) = With(Y, h, T)
  BY <1>3 DEF With
<1> HIDE DEF P, XX, YY
<1>7. n \in P
  BY <1>1, <1>4, <1>5, Iterated
<1> QED
  BY <1>6, <1>7 DEF P

\* Taking away a part of B leaves no more than taking away a set that is no larger.
LEMMA LessLeft ==
    ASSUME NEW A \in SUBSET ShardIds, NEW B \in SUBSET ShardIds, NEW S \in SUBSET ShardIds,
           S \subseteq B, Cardinality(A) <= Cardinality(S)
    PROVE  Cardinality(B \ S) <= Cardinality(B \ A)
<1>1. /\ IsFiniteSet(A) /\ Cardinality(A) \in Nat /\ IsFiniteSet(B) /\ Cardinality(B) \in Nat
      /\ Cardinality(S) \in Nat
  BY Finite
<1>2. B \cap S = S
  OBVIOUS
<1>3. Cardinality(B \ S) = Cardinality(B) - Cardinality(S)
  BY <1>1, <1>2, FS_Difference
<1>4. Cardinality(B \ A) = Cardinality(B) - Cardinality(B \cap A)
  BY <1>1, FS_Difference
<1>5. Cardinality(B \cap A) <= Cardinality(A) /\ IsFiniteSet(B \cap A)
  BY <1>1, FS_Intersection
<1>6. Cardinality(B \cap A) \in Nat
  BY <1>5, FS_CardinalityType
<1> QED
  BY <1>1, <1>3, <1>4, <1>5, <1>6

\* A larger set has more outside a part of the smaller one.
LEMMA MoreOutside ==
    ASSUME NEW A \in SUBSET ShardIds, NEW B \in SUBSET ShardIds, NEW S \in SUBSET ShardIds,
           B \subseteq S, Cardinality(S) <= Cardinality(A)
    PROVE  Cardinality(S \ B) <= Cardinality(A \ B)
<1>1. /\ IsFiniteSet(A) /\ Cardinality(A) \in Nat /\ IsFiniteSet(B) /\ Cardinality(B) \in Nat
      /\ IsFiniteSet(S) /\ Cardinality(S) \in Nat
  BY Finite
<1>2. S \cap B = B
  OBVIOUS
<1>3. Cardinality(S \ B) = Cardinality(S) - Cardinality(B)
  BY <1>1, <1>2, FS_Difference
<1>4. Cardinality(A \ B) = Cardinality(A) - Cardinality(A \cap B)
  BY <1>1, FS_Difference
<1>5. Cardinality(A \cap B) <= Cardinality(B) /\ IsFiniteSet(A \cap B)
  BY <1>1, FS_Intersection
<1>6. Cardinality(A \cap B) \in Nat
  BY <1>5, FS_CardinalityType
<1> QED
  BY <1>1, <1>3, <1>4, <1>5, <1>6

-----------------------------------------------------------------------------
(* Rebalance moves no shard without need *)

\* The groups that Rebalance has given a shard to, and those it has taken one from.
Gained(g) == \E s \in ShardIds : Shards[s] = g /\ before[s] # g
Lost(g)   == \E s \in ShardIds : before[s] = g /\ Shards[s] # g

\* A group that has gained is among the least loaded but for one shard, a group that has
\* lost among the most loaded, none does both, and none has gained beyond one that has
\* lost.
Frugal ==
    /\ pc = "assign" => \A h \in Groups : ~Lost(h)
    /\ ok =>
         /\ \A g \in Groups : Gained(g) =>
               \A k \in Groups : Count(Shards, g) <= Count(Shards, k) + 1
         /\ \A h \in Groups : Lost(h) =>
               \A k \in Groups : Count(Shards, k) <= Count(Shards, h) + 1
         /\ \A g, h \in Groups : Gained(g) /\ Lost(h) =>
               g # h /\ Count(Shards, g) <= Count(Shards, h)

LEMMA AssignFrugal ==
    ASSUME Inv, Frugal, AssignShard
    PROVE  Frugal'
<1>1. TypeOK /\ pc = "assign" /\ index \in ShardIds /\ Groups # {} /\ ok
  BY DEF AssignShard, Inv, TypeOK, Entered
<1>2. /\ Groups' = Groups /\ before' = before /\ ok' = ok
      /\ Shards \in Assignments
  BY <1>1 DEF AssignShard, TypeOK
<1>3. \A h \in Groups : Count(Shards, h) \in Nat
  BY CountType, NShardsAssumption
<1>4. CASE ~NeedsGroup(index)
  <2>1. Shards' = Shards
    BY <1>4 DEF AssignShard
  <2>2. \A g : (Gained(g)' <=> Gained(g)) /\ (Lost(g)' <=> Lost(g))
    BY <1>2, <2>1 DEF Gained, Lost
  <2> QED
    BY <1>1, <1>2, <2>1, <2>2 DEF Frugal, Count
<1>5. CASE NeedsGroup(index)
  <2> PICK m : m = LeastLoaded
    OBVIOUS
  <2>1. m \in Groups /\ \A k \in Groups : Count(Shards, m) <= Count(Shards, k)
    BY <1>1, GroupsNat, LeastLoadedExists
  <2>2. Shards' = [Shards EXCEPT ![index] = m] /\ Shards[index] \notin Groups
    BY <1>5 DEF AssignShard, AssignTo, NeedsGroup
  <2>3. Shards'[index] = m /\ \A r \in ShardIds : r # index => Shards'[r] = Shards[r]
    BY <1>1, <1>2, <2>2 DEF Assignments
  <2>4. /\ Count(Shards', m) = Count(Shards, m) + 1
        /\ \A h \in Groups : h # m => Count(Shards', h) = Count(Shards, h)
    <3>1. m # Shards[index]
      BY <2>1, <2>2
    <3>2. /\ Count(Shards', m) = Count(Shards, m) + 1
          /\ \A h : h # m /\ h # Shards[index] => Count(Shards', h) = Count(Shards, h)
      BY <1>1, <2>3, <3>1, CountChange
    <3> QED
      BY <2>2, <3>2
  <2>5. \A h \in Groups : ~Lost(h)'
    BY <1>1, <1>2, <2>2, <2>3 DEF Frugal, Lost
  <2>6. \A g \in Groups : g # m /\ Gained(g)' => Gained(g)
    BY <1>2, <2>3 DEF Gained
  <2>7. ASSUME NEW g \in Groups, Gained(g)', NEW k \in Groups
        PROVE  Count(Shards', g) <= Count(Shards', k) + 1
    <3>1. Count(Shards, k) <= Count(Shards', k)
      BY <1>3, <2>4
    <3>2. CASE g = m
      BY <1>3, <2>1, <2>4, <3>1, <3>2
    <3>3. CASE g # m
      <4>1. Count(Shards, g) <= Count(Shards, k) + 1
        BY <1>1, <2>6, <2>7, <3>3 DEF Frugal
      <4> QED
        BY <1>3, <2>4, <3>1, <3>3, <4>1
    <3> QED
      BY <3>2, <3>3
  <2>8. \A h : Count(Shards', h) = Count(Shards, h)'
    BY DEF Count
  <2> QED
    BY <1>2, <2>5, <2>7, <2>8 DEF Frugal
<1> QED
  BY <1>4, <1>5

LEMMA MoveFrugal ==
    ASSUME Inv, Frugal, MoveShard
    PROVE  Frugal'
<1> PICK M, m : M = MostLoaded /\ m = LeastLoaded
  OBVIOUS
<1>1. TypeOK /\ pc = "move" /\ Groups # {} /\ ok
  BY DEF MoveShard, Inv, Entered
<1>2. /\ Groups' = Groups /\ before' = before /\ ok' = ok /\ pc' = "move"
      /\ Shards \in Assignments
  BY <1>1 DEF MoveShard, TypeOK
<1>3. \A h \in Groups : Count(Shards, h) \in Nat
  BY CountType, NShardsAssumption
<1>4. /\ m \in Groups /\ \A k \in Groups : Count(Shards, m) <= Count(Shards, k)
      /\ M \in Groups /\ \A k \in Groups : Count(Shards, k) <= Count(Shards, M)
  BY <1>1, GroupsNat, LeastLoadedExists, MostLoadedExists
<1>5. ~ (Count(Shards, M) < Count(Shards, m) + 2)
  BY DEF MoveShard, WellBalanced
<1>6. PICK s \in ShardIds : Shards[s] = M /\ Shards' = [Shards EXCEPT ![s] = m]
  BY DEF MoveShard
<1>7. Count(Shards, m) + 2 <= Count(Shards, M) /\ m # M
  BY <1>3, <1>4, <1>5
\* The most loaded group has not gained, and the least loaded has not lost.
<1>8. ~Gained(M) /\ ~Lost(m)
  <2>1. ~ (Count(Shards, M) <= Count(Shards, m) + 1)
    BY <1>3, <1>4, <1>7
  <2> QED
    BY <1>1, <1>4, <2>1 DEF Frugal
<1>9. before[s] = M
  BY <1>6, <1>8 DEF Gained
<1>10. Shards'[s] = m /\ \A r \in ShardIds : r # s => Shards'[r] = Shards[r]
  BY <1>2, <1>6 DEF Assignments
<1>11. /\ Count(Shards', m) = Count(Shards, m) + 1
       /\ Count(Shards', M) = Count(Shards, M) - 1
       /\ \A h : h # m /\ h # M => Count(Shards', h) = Count(Shards, h)
  <2>1. m # Shards[s]
    BY <1>6, <1>7
  <2>2. /\ Count(Shards', m) = Count(Shards, m) + 1
        /\ Count(Shards', Shards[s]) = Count(Shards, Shards[s]) - 1
        /\ \A h : h # m /\ h # Shards[s] => Count(Shards', h) = Count(Shards, h)
    BY <1>10, <2>1, CountChange
  <2> QED
    BY <1>6, <2>2
<1>12. ~Gained(M)' /\ \A g : g # m /\ Gained(g)' => Gained(g)
  BY <1>2, <1>7, <1>8, <1>10 DEF Gained
<1>13. ~Lost(m)' /\ \A h : h # M /\ Lost(h)' => Lost(h)
  BY <1>2, <1>7, <1>8, <1>9, <1>10 DEF Lost
<1>14. \A g, k \in Groups : Gained(g) => Count(Shards, g) <= Count(Shards, k) + 1
  BY <1>1 DEF Frugal
<1>15. \A h, k \in Groups : Lost(h) => Count(Shards, k) <= Count(Shards, h) + 1
  BY <1>1 DEF Frugal
\* No load falls below that of m plus one unless it was there, or rises above that of M
\* minus one.
<1>16. \A k \in Groups : /\ Count(Shards', k) \in Nat
                         /\ Count(Shards, m) <= Count(Shards', k)
                         /\ Count(Shards', k) <= Count(Shards, M)
  <2> SUFFICES ASSUME NEW k \in Groups
               PROVE  /\ Count(Shards', k) \in Nat
                      /\ Count(Shards, m) <= Count(Shards', k)
                      /\ Count(Shards', k) <= Count(Shards, M)
    OBVIOUS
  <2>1. CASE k = m
    BY <1>3, <1>4, <1>7, <1>11, <2>1
  <2>2. CASE k = M
    BY <1>3, <1>4, <1>7, <1>11, <2>2
  <2>3. CASE k # m /\ k # M
    BY <1>3, <1>4, <1>11, <2>3
  <2> QED
    BY <2>1, <2>2, <2>3
<1>17. ASSUME NEW g \in Groups, Gained(g)'
       PROVE  Count(Shards', g) <= Count(Shards, m) + 1
  <2>1. CASE g = m
    BY <1>3, <1>4, <1>11, <2>1
  <2>2. CASE g # m
    <3>1. g # M /\ Gained(g)
      BY <1>12, <1>17, <2>2
    <3> QED
      BY <1>4, <1>11, <1>14, <2>2, <3>1
  <2> QED
    BY <2>1, <2>2
<1>18. ASSUME NEW h \in Groups, Lost(h)'
       PROVE  Count(Shards, M) <= Count(Shards', h) + 1
  <2>1. CASE h = M
    BY <1>3, <1>4, <1>11, <2>1
  <2>2. CASE h # M
    <3>1. h # m /\ Lost(h)
      BY <1>13, <1>18, <2>2
    <3> QED
      BY <1>4, <1>11, <1>15, <2>2, <3>1
  <2> QED
    BY <2>1, <2>2
<1>19. \A h : Count(Shards', h) = Count(Shards, h)'
  BY DEF Count
<1>20. \A g, k \in Groups : Gained(g)' => Count(Shards', g) <= Count(Shards', k) + 1
  <2> SUFFICES ASSUME NEW g \in Groups, NEW k \in Groups, Gained(g)'
               PROVE  Count(Shards', g) <= Count(Shards', k) + 1
    OBVIOUS
  <2>1. Count(Shards', g) <= Count(Shards, m) + 1
    BY <1>17
  <2> QED
    BY <1>3, <1>4, <1>16, <2>1
<1>21. \A h, k \in Groups : Lost(h)' => Count(Shards', k) <= Count(Shards', h) + 1
  <2> SUFFICES ASSUME NEW h \in Groups, NEW k \in Groups, Lost(h)'
               PROVE  Count(Shards', k) <= Count(Shards', h) + 1
    OBVIOUS
  <2>1. Count(Shards, M) <= Count(Shards', h) + 1
    BY <1>18
  <2> QED
    BY <1>3, <1>4, <1>16, <2>1
<1>22. ASSUME NEW g \in Groups, NEW h \in Groups, Gained(g)', Lost(h)'
       PROVE  g # h /\ Count(Shards', g) <= Count(Shards', h)
  <2>1. Count(Shards', g) <= Count(Shards, m) + 1 /\ Count(Shards, M) <= Count(Shards', h) + 1
    BY <1>17, <1>18, <1>22
  <2>2. Count(Shards', g) <= Count(Shards', h)
    BY <1>3, <1>4, <1>7, <1>16, <2>1
  <2>3. g # h
    <3>1. CASE g = m
      BY <1>13, <1>22, <3>1
    <3>2. CASE g # m
      <4>1. Gained(g) /\ g # M
        BY <1>12, <1>22, <3>2
      <4>2. h = M \/ Lost(h)
        BY <1>13, <1>22
      <4> QED
        BY <1>1, <4>1, <4>2 DEF Frugal
    <3> QED
      BY <3>1, <3>2
  <2> QED
    BY <2>2, <2>3
<1> QED
  BY <1>2, <1>19, <1>20, <1>21, <1>22 DEF Frugal

LEMMA FrugalInit == Init => Frugal
BY DEF Init, Frugal

LEMMA FrugalStep == Inv /\ Frugal /\ [Next]_vars => Frugal'
<1> SUFFICES ASSUME Inv, Frugal, [Next]_vars
             PROVE  Frugal'
  OBVIOUS
\* When Rebalance begins no shard has moved; without groups there is nothing to show.
<1>1. ASSUME NEW gs, BeginRebalance(gs)
      PROVE  Frugal'
  <2>1. CASE gs = {}
    BY <1>1, <2>1 DEF BeginRebalance, Frugal
  <2>2. CASE gs # {}
    <3>1. \A g : ~Gained(g)' /\ ~Lost(g)'
      BY <1>1, <2>2 DEF BeginRebalance, Gained, Lost
    <3> QED
      BY <3>1 DEF Frugal
  <2> QED
    BY <2>1, <2>2
<1>2. ASSUME NEW gs, pc = "idle", Refuse(gs)
      PROVE  Frugal'
  BY <1>2 DEF Refuse, Frugal
<1>3. ASSUME NEW gids, JoinBalance(gids)
      PROVE  Frugal'
  BY <1>1, <1>2, <1>3 DEF JoinBalance
<1>4. ASSUME NEW gids, LeaveBalance(gids)
      PROVE  Frugal'
  BY <1>1, <1>2, <1>4 DEF LeaveBalance
<1>5. CASE EndRebalance \/ UNCHANGED vars
  <2>1. /\ Shards' = Shards /\ before' = before /\ Groups' = Groups /\ ok' = ok
        /\ pc' = "assign" => pc = "assign"
    BY <1>5 DEF EndRebalance, vars, cfgVars
  <2>2. \A g : (Gained(g)' <=> Gained(g)) /\ (Lost(g)' <=> Lost(g))
    BY <2>1 DEF Gained, Lost
  <2> QED
    BY <2>1, <2>2 DEF Frugal, Count
<1> QED
  BY <1>3, <1>4, <1>5, AssignFrugal, MoveFrugal DEF Next, Rebalance

\* Compare with any other balanced assignment a.  Either a leaves no more than Rebalance to
\* any group that has lost, and so takes as much away, or it gives no less to any group
\* that has gained, and so moves as much in: a group that a leaves more to and one that it
\* gives less to would differ by two shards.
LEMMA FrugalSuffices ==
    ASSUME Inv, Frugal
    PROVE  FewestMoves
<1> SUFFICES ASSUME pc = "idle", ok, Groups # {},
                    NEW a \in [ShardIds -> Groups], Balanced(a, Groups)
             PROVE  Cardinality(Moved(Shards)) <= Cardinality(Moved(a))
  BY DEF FewestMoves
<1> DEFINE Of(x, g) == {s \in ShardIds : x[s] = g}
<1>1. \A s \in ShardIds : Shards[s] \in Groups /\ a[s] \in Groups
  BY DEF Inv, ConfigChecked, Allocated
<1>2. \A g \in Groups : Count(Shards, g) \in Nat /\ Count(a, g) \in Nat
  BY CountType, NShardsAssumption
<1>3. IsFiniteSet(Groups)
  BY GidsAssumption, FS_Subset DEF Inv, TypeOK
<1>4. \A g \in Groups : Lost(g) => Of(Shards, g) \subseteq Of(before, g)
  BY DEF Frugal, Gained
<1>5. \A g \in Groups : Gained(g) => Of(before, g) \subseteq Of(Shards, g)
  BY DEF Frugal, Lost
<1>6. Moved(Shards) \in SUBSET ShardIds /\ Moved(a) \in SUBSET ShardIds
  BY DEF Moved
<1>7. CASE \A h \in Groups : Lost(h) => Count(a, h) <= Count(Shards, h)
  <2>1. ASSUME NEW g \in Groups
        PROVE  Cardinality(With(Moved(Shards), before, {g}))
                 <= Cardinality(With(Moved(a), before, {g}))
    <3>1. With(Moved(Shards), before, {g}) = Of(before, g) \ Of(Shards, g)
      BY DEF Moved, With
    <3>2. With(Moved(a), before, {g}) = Of(before, g) \ Of(a, g)
      BY DEF Moved, With
    <3>3. CASE Lost(g)
      <4>1. Cardinality(Of(a, g)) <= Cardinality(Of(Shards, g))
        BY <1>7, <3>3 DEF Count
      <4>2. /\ Of(a, g) \in SUBSET ShardIds /\ Of(before, g) \in SUBSET ShardIds
            /\ Of(Shards, g) \in SUBSET ShardIds /\ Of(Shards, g) \subseteq Of(before, g)
        BY <1>4, <3>3
      <4> HIDE DEF Of
      <4> QED
        BY <3>1, <3>2, <4>1, <4>2, LessLeft
    <3>4. CASE ~Lost(g)
      <4>1. With(Moved(Shards), before, {g}) = {}
        BY <3>4 DEF Moved, Lost, With
      <4>2. With(Moved(a), before, {g}) \in SUBSET ShardIds
        BY <1>6 DEF With
      <4>3. Cardinality(With(Moved(a), before, {g})) \in Nat
        BY <4>2, Finite
      <4>4. Cardinality(With(Moved(Shards), before, {g})) = 0
        BY <4>1, FS_EmptySet
      <4> QED
        BY <4>3, <4>4
    <3> QED
      BY <3>3, <3>4
  <2>2. Cardinality(With(Moved(Shards), before, Groups))
          <= Cardinality(With(Moved(a), before, Groups))
    BY <1>3, <1>6, <2>1, Gathered
  <2>3. /\ With(Moved(Shards), before, Groups) = Moved(Shards)
        /\ With(Moved(a), before, Groups) = Moved(a)
    BY DEF Moved, With
  <2> QED
    BY <2>2, <2>3
<1>8. CASE \A g \in Groups : Gained(g) => Count(Shards, g) <= Count(a, g)
  <2> DEFINE Changed(x) == {s \in ShardIds : x[s] # before[s]}
             orphans    == {s \in ShardIds : before[s] \notin Groups}
  <2>1. Changed(Shards) \in SUBSET ShardIds /\ Changed(a) \in SUBSET ShardIds
    OBVIOUS
  <2>2. ASSUME NEW g \in Groups
        PROVE  Cardinality(With(Changed(Shards), Shards, {g}))
                 <= Cardinality(With(Changed(a), a, {g}))
    <3>1. With(Changed(Shards), Shards, {g}) = Of(Shards, g) \ Of(before, g)
      BY DEF With
    <3>2. With(Changed(a), a, {g}) = Of(a, g) \ Of(before, g)
      BY DEF With
    <3>3. CASE Gained(g)
      <4>1. Cardinality(Of(Shards, g)) <= Cardinality(Of(a, g))
        BY <1>8, <3>3 DEF Count
      <4>2. /\ Of(a, g) \in SUBSET ShardIds /\ Of(before, g) \in SUBSET ShardIds
            /\ Of(Shards, g) \in SUBSET ShardIds /\ Of(before, g) \subseteq Of(Shards, g)
        BY <1>5, <3>3
      <4> HIDE DEF Of
      <4> QED
        BY <3>1, <3>2, <4>1, <4>2, MoreOutside
    <3>4. CASE ~Gained(g)
      <4>1. With(Changed(Shards), Shards, {g}) = {}
        BY <3>4 DEF Gained, With
      <4>2. With(Changed(a), a, {g}) \in SUBSET ShardIds
        BY DEF With
      <4>3. Cardinality(With(Changed(a), a, {g})) \in Nat
        BY <4>2, Finite
      <4>4. Cardinality(With(Changed(Shards), Shards, {g})) = 0
        BY <4>1, FS_EmptySet
      <4> QED
        BY <4>3, <4>4
    <3> QED
      BY <3>3, <3>4
  <2>3. /\ Changed(Shards) = Moved(Shards) \cup orphans /\ Moved(Shards) \cap orphans = {}
        /\ Changed(a) = Moved(a) \cup orphans /\ Moved(a) \cap orphans = {}
    BY <1>1 DEF Moved
  <2>4. orphans \in SUBSET ShardIds
    OBVIOUS
  <2>5. /\ With(Changed(Shards), Shards, Groups) = Changed(Shards)
        /\ With(Changed(a), a, Groups) = Changed(a)
    BY <1>1 DEF With
  <2> HIDE DEF Changed, orphans
  <2>6. Cardinality(With(Changed(Shards), Shards, Groups))
          <= Cardinality(With(Changed(a), a, Groups))
    BY <1>3, <2>1, <2>2, Gathered
  <2>7. Cardinality(Changed(Shards)) <= Cardinality(Changed(a))
    BY <2>5, <2>6
  <2>8. /\ IsFiniteSet(Moved(Shards)) /\ Cardinality(Moved(Shards)) \in Nat
        /\ IsFiniteSet(Moved(a)) /\ Cardinality(Moved(a)) \in Nat
        /\ IsFiniteSet(orphans) /\ Cardinality(orphans) \in Nat
    BY <1>6, <2>4, Finite
  <2>9. Cardinality({}) = 0
    BY FS_EmptySet
  <2>10. Cardinality(Changed(Shards))
           = Cardinality(Moved(Shards)) + Cardinality(orphans) - Cardinality({})
    BY <2>3, <2>8, FS_Union
  <2>11. Cardinality(Changed(a)) = Cardinality(Moved(a)) + Cardinality(orphans) - Cardinality({})
    BY <2>3, <2>8, FS_Union
  <2> QED
    BY <2>7, <2>8, <2>9, <2>10, <2>11
<1>9. ASSUME NEW h \in Groups, Lost(h), ~ (Count(a, h) <= Count(Shards, h)),
             NEW g \in Groups, Gained(g), ~ (Count(Shards, g) <= Count(a, g))
      PROVE  FALSE
  <2>1. Count(Shards, g) <= Count(Shards, h)
    BY <1>9 DEF Frugal
  <2>2. Count(a, h) <= Count(a, g) + 1
    BY DEF Balanced
  <2> QED
    BY <1>2, <1>9, <2>1, <2>2
<1> QED
  BY <1>7, <1>8, <1>9

-----------------------------------------------------------------------------
(* Theorems *)

\* The loops of Rebalance never index a shard outside cfg.Shards, and never give a
\* shard to something that is not a group.
THEOREM TypeCorrect == Spec => []TypeOK
<1>1. Inv => TypeOK
  BY DEF Inv
<1> QED
  BY <1>1, InvHolds, PTL

\* After every JoinBalance and LeaveBalance that succeeded, each shard belongs to a
\* known group and no group has two shards more than another.
THEOREM BalancedAfterRebalance == Spec => []ConfigChecked
<1>1. Inv => ConfigChecked
  BY DEF Inv
<1> QED
  BY <1>1, InvHolds, PTL

\* After every JoinBalance and LeaveBalance that succeeded, the shards that Rebalance has
\* taken away from groups that stay are as few as in any balanced assignment.
THEOREM MovesAreFewest == Spec => []FewestMoves
<1>1. Inv /\ Frugal => FewestMoves
  BY FrugalSuffices
<1> QED
  BY <1>1, InvHolds, FrugalInit, FrugalStep, PTL DEF Spec
=============================================================================
