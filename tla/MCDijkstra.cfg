\* Four vertices and four edges, with costs that add up to MAX.
CONSTANTS
    Keys = {1, 2, 3, 4}
    NoKey = 0
    Null = Null
    Pointers = {1, 2, 3, 4, 5, 6, 7, 8}
    HashValue <- Collide
    Primes <- SmallPrimes
    Costs = {1, 3}
    MAX = 4
    MaxEdges = 4
SPECIFICATION Spec
ACTION_CONSTRAINT NewIdsInOrder
INVARIANTS
    ShortestFound
    HeapAgrees
    PathsReal
CHECK_DEADLOCK FALSE
