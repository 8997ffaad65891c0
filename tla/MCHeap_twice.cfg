\* The rehash loses the ids, which are then inserted again (expected to fail).
CONSTANTS
    Keys = {1, 2, 3}
    NoKey = 0
    Null = Null
    Pointers = {1, 2, 3}
    HashValue <- Collide
    Primes <- SmallPrimes
    Capacity = 3
    KeyValues = {0, 1}
    MaxMoves = 2
    MaxInserts = 5
SPECIFICATION Spec
INVARIANT IdsUnique
CHECK_DEADLOCK FALSE
