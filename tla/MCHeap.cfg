\* Six ids in a heap of six places.
CONSTANTS
    Keys = {1, 2, 3, 4, 5, 6}
    NoKey = 0
    Null = Null
    Pointers = {1, 2, 3, 4, 5, 6}
    HashValue <- Collide
    Primes <- SmallPrimes
    Capacity = 6
    KeyValues = {0, 1}
    MaxMoves = 2
    MaxInserts = 6
SPECIFICATION Spec
ACTION_CONSTRAINT NewIdsInOrder
VIEW ButAnswer
INVARIANTS
    HeapOrdered
    MappingExact
PROPERTY
    CallsCorrect
CHECK_DEADLOCK FALSE
