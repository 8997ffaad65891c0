------------------------------- MODULE HashMap -------------------------------
(***************************************************************************)
(* A client of the two hash tables of the repository: any sequence of      *)
(* calls of the member functions of HashTable.tla, with allocations that   *)
(* fail at any time, on either class.                                      *)
(***************************************************************************)
EXTENDS HashTable

CONSTANT Size   \* the argument of the constructor

ASSUME ClientAssumption == Size \in Nat /\ GetPrime(Size) > 1

VARIABLES class,      \* "heap" or "spell"
          table,
          answer,     \* the last call: function, key, what it returned
          grown       \* history: rehash has been called

mapVars == <<class, table, answer, grown>>

MapInit == /\ class \in {"heap", "spell"}
           /\ table = New(Size)
           /\ answer = <<"none">>
           /\ grown = FALSE

\* No client and no table yet.
MapIdle == /\ class = "heap" /\ table = [New(Size) EXCEPT !.item = <<>>]
           /\ answer = <<"none">> /\ grown = FALSE

\* After the failed rehash of "spell" every function indexes past the end of
\* data: the behaviour of the program is undefined and the client stops here.
Usable == Sized(table)

\* With memory or, when the table grows, without.  The end of the list of
\* primes is a bound: the largest is 1610612741.
CallInsert(k, pv, memory) ==
    /\ Usable
    /\ memory \/ Crowded(table)
    /\ Crowded(table) => GetPrime(table.cap) # 0
    /\ LET r == Insert(class, table, k, pv, memory) IN
          table' = r.table /\ answer' = <<"insert", k, r.ret>>
    /\ grown' = (grown \/ Crowded(table))
    /\ UNCHANGED class

CallSetPointer(k, pv) ==
    /\ Usable
    /\ LET r == SetPointer(table, k, pv) IN
          table' = r.table /\ answer' = <<"setPointer", k, r.ret>>
    /\ UNCHANGED <<class, grown>>

CallRemove(k) ==
    /\ Usable
    /\ LET r == TableRemove(table, k) IN
          table' = r.table /\ answer' = <<"remove", k, r.ret>>
    /\ UNCHANGED <<class, grown>>

\* Only "heap" has it; its answer is also that of contains.
CallGetPointer(k) ==
    /\ Usable
    /\ answer' = <<"getPointer", k, GetPointer(table, k).pv>>
    /\ UNCHANGED <<class, table, grown>>

MapNext == \E k \in Keys :
               \/ CallRemove(k) \/ CallGetPointer(k)
               \/ \E pv \in Pointers :
                     \/ CallSetPointer(k, pv)
                     \/ \E memory \in BOOLEAN : CallInsert(k, pv, memory)

MapSpec == MapInit /\ [][MapNext]_mapVars

------------------------------------------------------------------------------
\* The classes work as long as "heap" has not been rehashed.
Works == class = "heap" => ~grown

\* Every probe ends: the table is never filled to more than half, counting
\* the deleted entries, which stay occupied, and also after the rehash of
\* "heap" that misplaces its entries (hash.cpp:48, 107, 115).
ProbesEnd == Usable => Roomy(table)

\* No entry is out of reach of the probe for its key and no key is there
\* twice, whatever was deleted in between and however often "spell" was
\* rehashed.
AllFindable == Usable /\ Works => Findable(table)

\* A failed insert of "heap" changes nothing that is stored
\* (hash.h:32, hash.cpp:62-71).
FailureHarmless ==
    [][class = "heap" /\ answer'[1] = "insert" /\ answer'[3] = 2 => table' = table]_mapVars

Map == INSTANCE Dictionary
          WITH Absent <- Null,
               map <- [k \in Keys |-> IF Usable THEN GetPointer(table, k).pv ELSE Null]

\* Every call does to the map from keys to pointers what hash.h promises and
\* returns what it promises: "spell" always, but for a failed rehash, and
\* "heap" up to its first rehash.
CallsCorrect == [][Works' /\ Usable' => Map!Next]_mapVars

\* The table in memory: no probe runs for ever and none misses its entry
\* (hash.cpp:44-58, 105-129).
TableSound == ProbesEnd /\ AllFindable

\* The calls: what they promise, and nothing if they fail (hash.h:26-56).
CallsRight == CallsCorrect /\ FailureHarmless
==============================================================================
