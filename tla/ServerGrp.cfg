SPECIFICATION Spec
CONSTANT N = 5
INVARIANT Isolated
INVARIANT PartitionHolds
INVARIANT LeaderInMinority
