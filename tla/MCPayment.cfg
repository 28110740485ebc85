SPECIFICATION Spec
CONSTANTS
    n1 = n1
    n2 = n2
    n3 = n3
    n4 = n4
    c1 = c1
    c2 = c2
    c3 = c3
    p1 = p1
    p2 = p2
    Node <- MCNode
    Group <- MCGroup
    Odd = {n3}
    Chunk = {c1, c2, c3}
    Trees <- MCTrees
    Pools = {p1, p2}
    Candidates = 2
    Depth <- MCDepth
    Majority = 2
    Base <- MCBase
    Capacity = 3
    Curve <- MCCurve
    PriceMax = 9
    Skew <- MCSkew
    MaxAge = 2
    Tolerance = 1
    MerkleMaxAge = 2
    MerkleTolerance = 0
    OddTimes <- MCOddTimes
    Rewards <- MCRewards
    MaxTime = 3
    MaxAsks <- MCMaxAsks
SYMMETRY MCSymmetry
CHECK_DEADLOCK FALSE
INVARIANTS
    StoredWasPaid
    MinorityCannotSetPrice
    PaidProofHolds
    MerkleProofHolds
