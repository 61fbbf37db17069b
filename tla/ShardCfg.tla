------------------------------ MODULE ShardCfg ------------------------------
(***************************************************************************)
(* Shard configurations: src/src/shardkv1/shardcfg/shardcfg.go.            *)
(*                                                                         *)
(* The configuration is edited by JoinBalance and LeaveBalance, which      *)
(* change the set of groups and then run Rebalance.  Rebalance is two      *)
(* loops, and each iteration is one action, so that a run that never ends  *)
(* can be seen.  The servers of a group are abstracted to its gid; they    *)
(* matter only to a check that ends the process.                           *)
(***************************************************************************)
EXTENDS Integers, FiniteSets, Sequences

CONSTANTS
    NShards,    \* the number of shards
    Gids,       \* the group ids, positive integers
    MaxNum      \* bound on the configuration number

ASSUME NShardsAssumption == NShards \in Nat \ {0}
ASSUME GidsAssumption == Gids \subseteq Nat \ {0} /\ IsFiniteSet(Gids)
ASSUME MaxNumAssumption == MaxNum \in Nat

VARIABLES
    Num,        \* cfg.Num
    Shards,     \* cfg.Shards
    Groups,     \* the domain of cfg.Groups
    pc,         \* "idle", or the loop of Rebalance that is running
    index,      \* the shard the assigning loop is at
    ok,         \* whether the last JoinBalance or LeaveBalance succeeded
    before      \* history: cfg.Shards when Rebalance began

cfgVars == <<Num, Shards, Groups>>
vars    == <<cfgVars, pc, index, ok, before>>

ShardIds    == 1..NShards
Assignments == [ShardIds -> Gids \cup {0}]

Count(shards, g) == Cardinality({s \in ShardIds : shards[s] = g})

\* analyze: of the groups with the most and the fewest shards, the first in the
\* sorted order of gids.
MostLoaded ==
    CHOOSE g \in Groups : \A h \in Groups :
        \/ Count(Shards, h) < Count(Shards, g)
        \/ Count(Shards, h) = Count(Shards, g) /\ g <= h

LeastLoaded ==
    CHOOSE g \in Groups : \A h \in Groups :
        \/ Count(Shards, h) > Count(Shards, g)
        \/ Count(Shards, h) = Count(Shards, g) /\ g <= h

-----------------------------------------------------------------------------
\* MakeShardConfig
Init ==
    /\ Num = 0
    /\ Shards = [s \in ShardIds |-> 0]
    /\ Groups = {}
    /\ pc = "idle" /\ index = 1 /\ ok = TRUE
    /\ before = Shards

\* Enter Rebalance with the groups gs; without a group all shards are unassigned.
BeginRebalance(gs) ==
    /\ Groups' = gs
    /\ Num' = Num + 1
    /\ ok' = TRUE
    /\ before' = Shards
    /\ index' = 1
    /\ IF gs = {} THEN Shards' = [s \in ShardIds |-> 0] /\ pc' = "idle"
                  ELSE pc' = "assign" /\ UNCHANGED Shards

\* Join or Leave found a gid it cannot treat, and returned false at once: what it
\* had done to cfg.Groups remains, and nothing is rebalanced.
Refuse(gs) ==
    /\ Groups' = gs
    /\ ok' = FALSE
    /\ UNCHANGED <<Num, Shards, pc, index, before>>

\* Join ranges over a map, so the new gids seen before a known one are any of them.
JoinBalance(gids) ==
    /\ pc = "idle" /\ Num < MaxNum
    /\ \/ gids \cap Groups = {} /\ BeginRebalance(Groups \cup gids)
       \/ /\ gids \cap Groups # {}
          /\ \E seen \in SUBSET (gids \ Groups) : Refuse(Groups \cup seen)

\* The first position of gids that Leave does not find in cfg.Groups; a gid that is
\* listed twice is gone the second time.
Unknown(gids) ==
    {i \in DOMAIN gids : gids[i] \notin Groups \/ \E j \in 1..(i - 1) : gids[j] = gids[i]}

LeaveBalance(gids) ==
    LET left(n) == Groups \ {gids[i] : i \in 1..n}
    IN  /\ pc = "idle" /\ Num < MaxNum
        /\ \/ Unknown(gids) = {} /\ BeginRebalance(left(Len(gids)))
           \/ \E i \in Unknown(gids) : /\ \A j \in Unknown(gids) : i <= j
                                       /\ Refuse(left(i - 1))

\* Mutant: the loop looks for unassigned shards only.
UnassignedOnly(s) == Shards[s] = 0

\* Whether the assigning loop gives shard s to a group: its gid is not known, be it
\* 0 or a group that has left.
NeedsGroup(s) == Shards[s] \notin Groups

\* Mutant: unassigned shards go to the first group.
FirstGroup == CHOOSE g \in Groups : \A h \in Groups : g <= h

\* The group that the assigning loop gives a shard to.
AssignTo == LeastLoaded

\* Mutant: the loop goes one past the last shard.
AssignShardPastEnd ==
    /\ pc = "assign"
    /\ Shards' = IF NeedsGroup(index) THEN [Shards EXCEPT ![index] = AssignTo] ELSE Shards
    /\ index' = index + 1
    /\ pc' = IF index > NShards THEN "move" ELSE "assign"
    /\ UNCHANGED <<Num, Groups, ok, before>>

\* One iteration of the first loop of Rebalance.
AssignShard ==
    /\ pc = "assign"
    /\ Shards' = IF NeedsGroup(index) THEN [Shards EXCEPT ![index] = AssignTo] ELSE Shards
    /\ index' = index + 1
    /\ pc' = IF index = NShards THEN "move" ELSE "assign"
    /\ UNCHANGED <<Num, Groups, ok, before>>

\* Mutant: the second loop stops only when all loads are equal.
EvenlyLoaded == Count(Shards, MostLoaded) < Count(Shards, LeastLoaded) + 1

\* The second loop's test.
WellBalanced == Count(Shards, MostLoaded) < Count(Shards, LeastLoaded) + 2

\* One iteration of the second loop: the first shard of the most loaded group moves.
MoveShard ==
    /\ pc = "move" /\ ~WellBalanced
    /\ \E s \in ShardIds :
          /\ Shards[s] = MostLoaded
          /\ \A r \in 1..(s - 1) : Shards[r] # MostLoaded
          /\ Shards' = [Shards EXCEPT ![s] = LeastLoaded]
    /\ UNCHANGED <<Num, Groups, pc, index, ok, before>>

EndRebalance ==
    /\ pc = "move" /\ WellBalanced
    /\ pc' = "idle"
    /\ UNCHANGED <<cfgVars, index, ok, before>>

Rebalance == AssignShard \/ MoveShard \/ EndRebalance

Next ==
    \/ \E gids \in SUBSET Gids \ {{}} : JoinBalance(gids)
    \/ \E n \in 1..2 : \E gids \in [1..n -> Gids] : LeaveBalance(gids)
    \/ Rebalance

Spec == Init /\ [][Next]_vars

\* Rebalance is sequential code that runs on.
LiveSpec == Spec /\ WF_vars(Rebalance)

-----------------------------------------------------------------------------
(* Properties *)

\* Shards are assigned to gids or 0, and a loop's shard is one of cfg.Shards.
TypeOK ==
    /\ Num \in 0..MaxNum
    /\ Shards \in Assignments
    /\ Groups \subseteq Gids
    /\ pc \in {"idle", "assign", "move"}
    /\ index \in 1..(NShards + 1)
    /\ pc = "assign" => index \in ShardIds
    /\ ok \in BOOLEAN
    /\ before \in Assignments

\* CheckConfig's conditions on an assignment to the groups gs.
Allocated(shards, gs) == gs # {} => \A s \in ShardIds : shards[s] \in gs
Balanced(shards, gs)  == \A g, h \in gs : Count(shards, g) <= Count(shards, h) + 1

\* Whenever JoinBalance or LeaveBalance has succeeded, CheckConfig accepts the result,
\* even after refused calls that left the groups and the assignment at odds.
ConfigChecked == pc = "idle" /\ ok => Allocated(Shards, Groups) /\ Balanced(Shards, Groups)

\* The shards that an assignment takes away from a group that stays.
Moved(shards) == {s \in ShardIds : before[s] \in Groups /\ shards[s] # before[s]}

\* Rebalance moves as few shards between groups as any assignment that CheckConfig
\* accepts: a group that joins or leaves costs no more data than it must.
FewestMoves ==
    pc = "idle" /\ ok /\ Groups # {} =>
        \A a \in [ShardIds -> Groups] :
            Balanced(a, Groups) => Cardinality(Moved(Shards)) <= Cardinality(Moved(a))

\* Rebalance ends: moving a shard at a time does not go round in circles.
RebalanceEnds == pc # "idle" ~> pc = "idle"
=============================================================================
