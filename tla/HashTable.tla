------------------------------ MODULE HashTable ------------------------------
(***************************************************************************)
(* The class hashTable of Data Structures and Algorithms: open addressing  *)
(* with linear probing and lazy deletion.  The repository has it in two    *)
(* forms, which differ in rehash: "heap" in Binary_Heap_using_Hashtable    *)
(* and Dijkstra_using_Binary_Heap, "spell" in Spellchecker_Hashtable.      *)
(*                                                                         *)
(* A table is a value, and a member function an operator on it; those that *)
(* change the table and return something give both.  A key is what its     *)
(* characters are hashed to: HashValue is the int of the loop in hash(),   *)
(* before "%capacity", which may be negative.                              *)
(***************************************************************************)
EXTENDS Integers, Sequences, FiniteSets

CONSTANTS Keys,       \* the strings in use
          NoKey,      \* no string: the entry is not occupied
          HashValue,  \* per key, 37*hashVal+key[i] over its characters
          Primes,     \* the list of getPrime
          Pointers,   \* what a pointer may be
          Null        \* but not the pointer NULL, or no pointer

ASSUME KeyAssumption   == NoKey \notin Keys /\ HashValue \in [Keys -> Int]
ASSUME PrimeAssumption == /\ Primes # <<>> /\ Primes \in Seq(Nat \ {0})
                          /\ \A i \in DOMAIN Primes : Primes[i] % 2 = 1
                          /\ \A i, k \in DOMAIN Primes : i < k => Primes[i] < Primes[k]
ASSUME PointerAssumption == Null \notin Pointers

Empty == [key |-> NoKey, pv |-> Null, deleted |-> FALSE]

\* The first prime of the list above n, or 0 when there is none.
GetPrime(n) == IF \E i \in DOMAIN Primes : Primes[i] > n
               THEN Primes[CHOOSE i \in DOMAIN Primes :
                              Primes[i] > n /\ \A k \in 1 .. i - 1 : Primes[k] <= n]
               ELSE 0

Blank(n) == [i \in 0 .. n - 1 |-> Empty]
New(n)   == [cap |-> GetPrime(n), filled |-> 0, item |-> Blank(GetPrime(n))]

Occupied(t, i) == t.item[i].key # NoKey
Live(t, i)     == Occupied(t, i) /\ ~t.item[i].deleted

\* Position number n of the probe for k.  hash() adds capacity to a negative
\* remainder, which is the remainder % has in TLA+.
Probe(t, k, n) == (HashValue[k] + n) % t.cap

\* Where the probe for k ends: at an entry that is not occupied or at k itself.
Ends(t, k, i)  == ~Occupied(t, i) \/ (Live(t, i) /\ t.item[i].key = k)
Stop(t, k)     == Probe(t, k, CHOOSE n \in 0 .. t.cap - 1 :
                                 /\ Ends(t, k, Probe(t, k, n))
                                 /\ \A m \in 0 .. n - 1 : ~Ends(t, k, Probe(t, k, m)))

\* findPos, with -1 for "not found"
FindPos(t, k) == LET i == Stop(t, k) IN IF Occupied(t, i) THEN i ELSE -1

\* Fault: a key that was deleted counts as present.
PlaceSeesDeleted(t, k, pv) ==
    IF \E i \in 0 .. t.cap - 1 : t.item[i].key = k
    THEN [table |-> t, ret |-> 1]
    ELSE [table |-> [t EXCEPT !.item[Stop(t, k)] = [key |-> k, pv |-> pv, deleted |-> FALSE],
                              !.filled = @ + 1],
          ret   |-> 0]

\* insert once the table has room
Place(t, k, pv) ==
    LET i == Stop(t, k)
    IN  IF Occupied(t, i)
        THEN [table |-> t, ret |-> 1]
        ELSE [table |-> [t EXCEPT !.item[i] = [key |-> k, pv |-> pv, deleted |-> FALSE],
                                  !.filled = @ + 1],
              ret   |-> 0]

\* What rehash has after the first n entries of the old table.  In "spell"
\* capacity has its new value while the entries are inserted again, in "heap"
\* still the old one.  No call of insert in here meets a table that is filled
\* to half: fewer entries come back.
Again(class, t) ==
    LET big == GetPrime(t.cap)
        again[n \in 0 .. t.cap] ==
            IF n = 0 THEN [cap    |-> IF class = "spell" THEN big ELSE t.cap,
                           filled |-> 0,
                           item   |-> Blank(big)]
            ELSE IF Live(t, n - 1)
                 THEN Place(again[n - 1], t.item[n - 1].key, t.item[n - 1].pv).table
                 ELSE again[n - 1]
    IN  again

Rehash(class, t) == [Again(class, t)[t.cap] EXCEPT !.cap = GetPrime(t.cap)]

\* Fault: capacity has its new value before the memory is there.
NoMemoryLate(class, t) == [t EXCEPT !.cap = GetPrime(t.cap)]

\* What data.resize leaves of the table when it throws bad_alloc.
NoMemory(class, t) == IF class = "spell" THEN [t EXCEPT !.cap = GetPrime(t.cap)] ELSE t

\* Fault: one entry too many before the table grows.
CrowdedLate(t) == t.filled > t.cap \div 2

Crowded(t) == t.filled >= t.cap \div 2

\* insert; memory says whether the allocation in rehash succeeds.
Insert(class, t, k, pv, memory) ==
    IF ~Crowded(t) THEN Place(t, k, pv)
    ELSE IF memory THEN Place(Rehash(class, t), k, pv)
    ELSE [table |-> NoMemory(class, t), ret |-> 2]

TableContains(t, k) == FindPos(t, k) # -1

\* getPointer: the pointer, and whether k is there
GetPointer(t, k) == LET i == FindPos(t, k)
                    IN  IF i = -1 THEN [pv |-> Null, found |-> FALSE]
                                  ELSE [pv |-> t.item[i].pv, found |-> TRUE]

SetPointer(t, k, pv) == LET i == FindPos(t, k)
                        IN  IF i = -1 THEN [table |-> t, ret |-> 1]
                                      ELSE [table |-> [t EXCEPT !.item[i].pv = pv], ret |-> 0]

\* Fault: the entry is emptied, which cuts the probes that went over it.
RemoveEmpties(t, k) == LET i == FindPos(t, k)
                       IN  IF i = -1 THEN [table |-> t, ret |-> 0]
                                     ELSE [table |-> [t EXCEPT !.item[i] = Empty], ret |-> 1]

TableRemove(t, k) == LET i == FindPos(t, k)
                     IN  IF i = -1 THEN [table |-> t, ret |-> 0]
                                   ELSE [table |-> [t EXCEPT !.item[i].deleted = TRUE], ret |-> 1]

------------------------------------------------------------------------------
\* What the member functions need and keep.

\* data has capacity entries, filled counts the occupied ones and at most
\* half of them are: every probe ends (hash.cpp:48, 107, 115).
Sized(t)  == DOMAIN t.item = 0 .. t.cap - 1
Roomy(t)  == /\ t.filled = Cardinality({i \in DOMAIN t.item : Occupied(t, i)})
             /\ 2 * t.filled <= t.cap

\* The probe for the key of a live entry ends at that entry.
Findable(t) == \A i \in DOMAIN t.item : Live(t, i) => FindPos(t, t.item[i].key) = i
==============================================================================
