--------------------------- MODULE HashTableProofs ---------------------------
(***************************************************************************)
(* What HashTable.tla promises for all keys, hash values, lists of odd     *)
(* primes and pointers: every probe ends, no entry is out of reach of the  *)
(* probe for its key, and the functions do to the map what hash.h          *)
(* promises.  ProgramProofs and BinaryHeapProofs rest on these lemmas.     *)
(***************************************************************************)
EXTENDS HashTable, FiniteSetTheorems, WellFoundedInduction, TLAPS


(***************************************************************************)
(* Arithmetic, and induction over a set of numbers.                        *)
(***************************************************************************)
LEMMA Least ==
  ASSUME NEW T \in SUBSET Nat, T # {}
  PROVE  \E n \in T : \A m \in T : n <= m
<1> DEFINE R == OpToRel(<, Nat)
<1>1. IsWellFoundedOn(R, Nat)
  BY NatLessThanWellFounded
<1>2. \A m, n \in Nat : m < n => <<m, n>> \in R
  BY DEF OpToRel
<1> HIDE DEF R
<1>3. PICK n \in T : \A m \in T : ~(<<m, n>> \in R)
  BY <1>1, WFMin
<1>4. n \in Nat /\ \A m \in T : m \in Nat /\ ~(m < n)
  BY <1>2, <1>3
<1> QED BY <1>4

LEMMA Induct ==
  ASSUME NEW T, 0 \in T, \A n \in Nat : n \in T => n + 1 \in T
  PROVE  Nat \subseteq T
<1> SUFFICES ASSUME Nat \ T # {} PROVE FALSE
  OBVIOUS
<1>1. PICK n \in Nat \ T : \A m \in Nat \ T : n <= m
  BY Least
<1>2. n # 0 /\ n - 1 \in Nat /\ n - 1 \in T
  BY <1>1
<1> QED BY <1>1, <1>2

\* A remainder is known by its range.
LEMMA ModUnique ==
  ASSUME NEW m \in Nat \ {0}, NEW a \in Int, NEW q0 \in Int, NEW d \in 0 .. m - 1,
         a = q0 * m + d
  PROVE  a % m = d
OBVIOUS

\* From any place, the probe comes by every place within one turn.
LEMMA ProbeReaches ==
  ASSUME NEW c \in Nat \ {0}, NEW h \in Int, NEW i \in 0 .. c - 1
  PROVE  \E n \in 0 .. c - 1 : (h + n) % c = i
<1> DEFINE q0 == h \div c
           d == h % c
<1>1. q0 \in Int /\ d \in 0 .. c - 1 /\ h = q0 * c + d
  OBVIOUS
<1> HIDE DEF q0, d
<1>2. CASE d <= i
  <2>1. i - d \in 0 .. c - 1 /\ h + (i - d) = q0 * c + i
    BY <1>1, <1>2
  <2>2. h + (i - d) \in Int /\ q0 \in Int /\ q0 + 1 \in Int
    BY <1>1, <2>1
  <2>3. (h + (i - d)) % c = i
    BY <2>1, <2>2, ModUnique
  <2> QED BY <2>1, <2>3
<1>3. CASE i < d
  <2>1. i - d + c \in 0 .. c - 1 /\ h + (i - d + c) = (q0 + 1) * c + i
    BY <1>1, <1>3
  <2>2. h + (i - d + c) \in Int /\ q0 \in Int /\ q0 + 1 \in Int
    BY <1>1, <2>1
  <2>3. (h + (i - d + c)) % c = i
    BY <2>1, <2>2, ModUnique
  <2> QED BY <2>1, <2>3
<1> QED BY <1>1, <1>2, <1>3

(***************************************************************************)
(* The shape of a table.                                                   *)
(***************************************************************************)
Entry == [key : Keys \cup {NoKey}, pv : Pointers \cup {Null}, deleted : BOOLEAN]

\* While rehash of "heap" runs, data is longer than capacity.
Tables(n) == [cap : Nat \ {0}, filled : Nat, item : [0 .. n - 1 -> Entry]]

OccupiedAt(t) == {i \in DOMAIN t.item : Occupied(t, i)}

\* An entry that is occupied has the pointer it was inserted with or given.
Pointed(t) == \A i \in DOMAIN t.item : Occupied(t, i) => t.item[i].pv \in Pointers

Counted(t) == t.filled = Cardinality(OccupiedAt(t))

\* After m steps the probe for k ends.
EndsAfter(t, k, m) == /\ m \in 0 .. t.cap - 1
                      /\ Ends(t, k, Probe(t, k, m))
                      /\ \A l \in 0 .. m - 1 : ~Ends(t, k, Probe(t, k, l))

LEMMA OccupiedFinite ==
  ASSUME NEW n \in Nat, NEW t \in Tables(n)
  PROVE  IsFiniteSet(OccupiedAt(t)) /\ Cardinality(OccupiedAt(t)) \in Nat
<1>1. DOMAIN t.item = 0 .. n - 1
  BY DEF Tables
<1>2. IsFiniteSet(0 .. n - 1)
  <2>1. 0 \in Int /\ n - 1 \in Int
    OBVIOUS
  <2> QED BY <2>1, FS_Interval
<1>3. OccupiedAt(t) \in SUBSET (0 .. n - 1)
  BY <1>1 DEF OccupiedAt
<1>4. IsFiniteSet(OccupiedAt(t))
  BY <1>2, <1>3, FS_Subset
<1> QED BY <1>4, FS_CardinalityType

\* A table that is not full has an entry that is not occupied among those
\* that probes visit.
LEMMA RoomThere ==
  ASSUME NEW n \in Nat, NEW t \in Tables(n), t.cap <= n, Counted(t), t.filled < t.cap
  PROVE  \E i \in 0 .. t.cap - 1 : ~Occupied(t, i)
<1> SUFFICES ASSUME \A i \in 0 .. t.cap - 1 : Occupied(t, i) PROVE FALSE
  OBVIOUS
<1> DEFINE c == t.cap
<1>1. c \in Nat /\ c # 0 /\ DOMAIN t.item = 0 .. n - 1 /\ t.filled \in Nat
  BY DEF Tables
<1>2. 0 .. c - 1 \in SUBSET OccupiedAt(t)
  BY <1>1 DEF OccupiedAt
<1>3. Cardinality(0 .. c - 1) = c
  <2>1. 0 \in Int /\ c - 1 \in Int /\ 0 <= c - 1 /\ c - 1 - 0 + 1 = c
    BY <1>1
  <2>2. Cardinality(0 .. c - 1) = c - 1 - 0 + 1
    BY <2>1, FS_Interval, SMTT(30)
  <2> QED BY <2>1, <2>2
<1>4. Cardinality(0 .. c - 1) <= Cardinality(OccupiedAt(t))
  BY <1>2, OccupiedFinite, FS_Subset
<1> HIDE DEF c
<1> QED BY <1>1, <1>3, <1>4 DEF Counted, c

LEMMA ProbeRange ==
  ASSUME NEW n \in Nat, NEW t \in Tables(n), NEW k \in Keys, NEW m \in Nat
  PROVE  Probe(t, k, m) \in 0 .. t.cap - 1
<1>1. t.cap \in Nat /\ t.cap # 0 /\ HashValue[k] \in Int
  BY KeyAssumption DEF Tables
<1>2. HashValue[k] + m \in Int
  BY <1>1
<1> QED BY <1>1, <1>2 DEF Probe

\* There is only one place where a probe ends.
LEMMA StopOnly ==
  ASSUME NEW n \in Nat, NEW t \in Tables(n), NEW k \in Keys, NEW m, EndsAfter(t, k, m)
  PROVE  Stop(t, k) = Probe(t, k, m)
<1> DEFINE P(l) == /\ Ends(t, k, Probe(t, k, l))
                   /\ \A j \in 0 .. l - 1 : ~Ends(t, k, Probe(t, k, j))
           x == CHOOSE l \in 0 .. t.cap - 1 : P(l)
<1>1. t.cap \in Nat
  BY DEF Tables
<1>2. m \in 0 .. t.cap - 1 /\ P(m)
  BY DEF EndsAfter
<1>3. x \in 0 .. t.cap - 1 /\ P(x)
  BY <1>2
<1>4. Stop(t, k) = Probe(t, k, x)
  BY DEF Stop
<1> HIDE DEF x
<1>5. ~(x < m) /\ ~(m < x)
  BY <1>1, <1>2, <1>3
<1>6. x = m
  BY <1>1, <1>2, <1>3, <1>5
<1> QED BY <1>4, <1>6

\* With room in the table every probe ends.
LEMMA StopThere ==
  ASSUME NEW n \in Nat, NEW t \in Tables(n), NEW k \in Keys,
         \E i \in 0 .. t.cap - 1 : ~Occupied(t, i)
  PROVE  \E m \in 0 .. t.cap - 1 : EndsAfter(t, k, m) /\ Stop(t, k) = Probe(t, k, m)
<1> DEFINE T == {m \in 0 .. t.cap - 1 : Ends(t, k, Probe(t, k, m))}
<1>1. t.cap \in Nat \ {0} /\ HashValue[k] \in Int
  BY KeyAssumption DEF Tables
<1>2. PICK i \in 0 .. t.cap - 1 : ~Occupied(t, i)
  OBVIOUS
<1>3. PICK m \in 0 .. t.cap - 1 : (HashValue[k] + m) % t.cap = i
  BY <1>1, ProbeReaches
<1>4. m \in T
  BY <1>2, <1>3 DEF Ends, Probe
<1>5. T \in SUBSET Nat /\ T # {}
  BY <1>1, <1>4
<1>6. PICK x \in T : \A y \in T : x <= y
  BY <1>5, Least
<1>7. EndsAfter(t, k, x)
  BY <1>1, <1>6 DEF EndsAfter
<1> QED BY <1>6, <1>7, StopOnly

(***************************************************************************)
(* Place: insert once the table has room.                                  *)
(***************************************************************************)
\* The outcome r of Place when the probe for k ends after m steps, at i.
Placed(n, t, k, pv, r, m, i) ==
    /\ i = Probe(t, k, m) /\ EndsAfter(t, k, m)
    /\ \/ Live(t, i) /\ t.item[i].key = k /\ r = [table |-> t, ret |-> 1]
       \/ /\ ~Occupied(t, i)
          /\ r.ret = 0 /\ r.table \in Tables(n)
          /\ r.table.cap = t.cap /\ r.table.filled = t.filled + 1
          /\ r.table.item = [t.item EXCEPT ![i] = [key |-> k, pv |-> pv, deleted |-> FALSE]]

\* Either k is there and nothing happens, or an entry that was not occupied
\* takes it, on the probe path of k.
LEMMA PlaceEffect ==
  ASSUME NEW n \in Nat, NEW t \in Tables(n), t.cap <= n, NEW k \in Keys, NEW pv \in Pointers,
         \E i \in 0 .. t.cap - 1 : ~Occupied(t, i)
  PROVE  \E m, i \in 0 .. t.cap - 1 : Placed(n, t, k, pv, Place(t, k, pv), m, i)
<1> DEFINE e == [key |-> k, pv |-> pv, deleted |-> FALSE]
           i == Stop(t, k)
           u == [t EXCEPT !.item[i] = e, !.filled = @ + 1]
<1>1. PICK m \in 0 .. t.cap - 1 : EndsAfter(t, k, m) /\ Stop(t, k) = Probe(t, k, m)
  BY StopThere
<1>2. t.cap \in Nat \ {0} /\ t.filled \in Nat /\ t.item \in [0 .. n - 1 -> Entry]
  BY DEF Tables
<1>3. i \in 0 .. t.cap - 1
  BY <1>1, <1>2, ProbeRange
<1>4. Ends(t, k, i)
  BY <1>1 DEF EndsAfter
<1>5. CASE Occupied(t, i)
  <2>1. Live(t, i) /\ t.item[i].key = k
    BY <1>4, <1>5 DEF Ends
  <2>2. Place(t, k, pv) = [table |-> t, ret |-> 1]
    BY <1>5 DEF Place
  <2>3. Placed(n, t, k, pv, Place(t, k, pv), m, i)
    BY <1>1, <2>1, <2>2 DEF Placed
  <2> QED BY <1>3, <2>3
<1>6. CASE ~Occupied(t, i)
  <2>1. Place(t, k, pv) = [table |-> u, ret |-> 0]
    BY <1>6 DEF Place
  <2>2. e \in Entry
    BY DEF Entry
  <2> HIDE DEF e
  <2>3. /\ u \in Tables(n) /\ u.cap = t.cap /\ u.filled = t.filled + 1
        /\ u.item = [t.item EXCEPT ![i] = e]
    <3>1. [t.item EXCEPT ![i] = e] \in [0 .. n - 1 -> Entry]
      BY <1>2, <2>2, Zenon
    <3>2. t.filled + 1 \in Nat
      BY <1>2
    <3>3. u = [cap |-> t.cap, filled |-> t.filled + 1, item |-> [t.item EXCEPT ![i] = e]]
      <4> DEFINE J == [t.item EXCEPT ![i] = e]
                 X == [t EXCEPT !.item = J]
      <4>1. u = [X EXCEPT !.filled = t.filled + 1]
        OBVIOUS
      <4> HIDE DEF J, u
      <4>2. X = [cap |-> t.cap, filled |-> t.filled, item |-> J]
        BY DEF Tables
      <4> HIDE DEF X
      <4>3. u = [cap |-> t.cap, filled |-> t.filled + 1, item |-> J]
        BY <4>1, <4>2
      <4> QED BY <4>3, Zenon DEF J
    <3> QED BY <1>2, <3>1, <3>2, <3>3 DEF Tables
  <2>4. /\ Place(t, k, pv).ret = 0 /\ Place(t, k, pv).table = u
    BY <2>1
  <2> HIDE DEF u, i
  <2>5. Place(t, k, pv).table.item = [t.item EXCEPT ![i] = [key |-> k, pv |-> pv, deleted |-> FALSE]]
    BY <2>3, <2>4, Zenon DEF e
  <2>6. i = Probe(t, k, m)
    BY <1>1 DEF i
  <2>7. Placed(n, t, k, pv, Place(t, k, pv), m, i)
    BY <1>1, <1>6, <2>3, <2>4, <2>5, <2>6, Zenon DEF Placed
  <2> QED BY <1>3, <2>7
<1> QED BY <1>5, <1>6

\* What an entry that takes a key changes of the table.
Taken(t, u, i, k, pv) ==
    /\ u.cap = t.cap /\ u.filled = t.filled + 1
    /\ i \in 0 .. t.cap - 1 /\ ~Occupied(t, i)
    /\ u.item = [t.item EXCEPT ![i] = [key |-> k, pv |-> pv, deleted |-> FALSE]]

LEMMA TakenItems ==
  ASSUME NEW n \in Nat, NEW t \in Tables(n), NEW u \in Tables(n), t.cap <= n,
         NEW k \in Keys, NEW pv \in Pointers, NEW i, Taken(t, u, i, k, pv)
  PROVE  /\ DOMAIN t.item = 0 .. n - 1 /\ DOMAIN u.item = 0 .. n - 1 /\ i \in 0 .. n - 1
         /\ Live(u, i) /\ Occupied(u, i) /\ u.item[i].key = k /\ u.item[i].pv = pv
         /\ \A j \in 0 .. n - 1 : j # i => u.item[j] = t.item[j]
<1>1. t.cap \in Nat /\ t.item \in [0 .. n - 1 -> Entry] /\ u.item \in [0 .. n - 1 -> Entry]
  BY DEF Tables
<1>2. i \in 0 .. n - 1
  BY <1>1 DEF Taken
<1>3. k # NoKey
  BY KeyAssumption
<1> QED BY <1>1, <1>2, <1>3 DEF Taken, Live, Occupied

LEMMA TakenCounts ==
  ASSUME NEW n \in Nat, NEW t \in Tables(n), NEW u \in Tables(n), t.cap <= n,
         NEW k \in Keys, NEW pv \in Pointers, NEW i, Taken(t, u, i, k, pv),
         Counted(t), Pointed(t)
  PROVE  Counted(u) /\ Pointed(u)
<1>1. /\ DOMAIN t.item = 0 .. n - 1 /\ DOMAIN u.item = 0 .. n - 1 /\ i \in 0 .. n - 1
      /\ Live(u, i) /\ Occupied(u, i) /\ u.item[i].key = k /\ u.item[i].pv = pv
      /\ \A j \in 0 .. n - 1 : j # i => u.item[j] = t.item[j]
  BY TakenItems
<1>2. ~Occupied(t, i)
  BY DEF Taken
<1>3. OccupiedAt(u) = OccupiedAt(t) \cup {i} /\ i \notin OccupiedAt(t)
  BY <1>1, <1>2 DEF OccupiedAt, Occupied
<1>4. Cardinality(OccupiedAt(u)) = Cardinality(OccupiedAt(t)) + 1
  BY <1>3, OccupiedFinite, FS_AddElement
<1>5. Counted(u)
  BY <1>4 DEF Counted, Taken
<1>6. Pointed(u)
  BY <1>1 DEF Pointed, Occupied
<1> QED BY <1>5, <1>6

(***************************************************************************)
(* Findable tables.                                                        *)
(***************************************************************************)
\* The entries where k is.
At(t, k) == {i \in DOMAIN t.item : Live(t, i) /\ t.item[i].key = k}

\* Every entry that is live is where a probe for its key ends.
Reached(t) == \A i \in DOMAIN t.item : Live(t, i) =>
                 \E m : EndsAfter(t, t.item[i].key, m) /\ Probe(t, t.item[i].key, m) = i

LEMMA FindableReached ==
  ASSUME NEW t, t \in Tables(t.cap), \E i \in 0 .. t.cap - 1 : ~Occupied(t, i)
  PROVE  Findable(t) <=> Reached(t)
<1>1. t.cap \in Nat /\ DOMAIN t.item = 0 .. t.cap - 1
  BY DEF Tables
<1> DEFINE n == t.cap
<1>2. \A i \in 0 .. n - 1 : Occupied(t, i) => t.item[i].key \in Keys
  BY DEF Occupied, Tables, Entry
<1>3. ASSUME NEW i \in 0 .. n - 1, Live(t, i)
      PROVE  FindPos(t, t.item[i].key) = i <=>
             \E m : EndsAfter(t, t.item[i].key, m) /\ Probe(t, t.item[i].key, m) = i
  <2> DEFINE k == t.item[i].key
  <2>1. k \in Keys /\ Occupied(t, i)
    BY <1>2, <1>3 DEF Live
  <2>2. PICK m \in 0 .. n - 1 : EndsAfter(t, k, m) /\ Stop(t, k) = Probe(t, k, m)
    BY <1>1, <2>1, StopThere
  <2>3. \A l : EndsAfter(t, k, l) => Stop(t, k) = Probe(t, k, l)
    BY <1>1, <2>1, StopOnly
  <2> HIDE DEF k
  <2>4. FindPos(t, k) = i <=> Stop(t, k) = i
    <3>1. i # -1
      BY <1>1
    <3> QED BY <2>1, <3>1 DEF FindPos
  <2>5. FindPos(t, k) = i <=> \E l : EndsAfter(t, k, l) /\ Probe(t, k, l) = i
    BY <2>2, <2>3, <2>4
  <2> QED BY <2>5 DEF k
<1> QED BY <1>1, <1>3 DEF Findable, Reached

LEMMA ProbeSame ==
  ASSUME NEW t, NEW u, u.cap = t.cap, NEW k, NEW m
  PROVE  Probe(u, k, m) = Probe(t, k, m)
BY DEF Probe

\* Entries may be deleted and get other pointers: no probe is cut.
LEMMA ReachedKept ==
  ASSUME NEW n \in Nat, NEW t \in Tables(n), NEW u \in Tables(n), n = t.cap, u.cap = t.cap,
         \A j \in 0 .. n - 1 : u.item[j].key = t.item[j].key /\ (Live(u, j) => Live(t, j)),
         Reached(t)
  PROVE  Reached(u)
<1>1. DOMAIN t.item = 0 .. n - 1 /\ DOMAIN u.item = 0 .. n - 1
  BY DEF Tables
<1>2. \A j \in 0 .. n - 1 : t.item[j].key \in Keys \cup {NoKey}
  BY DEF Tables, Entry
<1> SUFFICES ASSUME NEW i \in 0 .. n - 1, Live(u, i)
             PROVE  \E m : EndsAfter(u, u.item[i].key, m) /\ Probe(u, u.item[i].key, m) = i
  BY <1>1 DEF Reached
<1> DEFINE k == u.item[i].key
<1>3. Live(t, i) /\ k = t.item[i].key /\ k \in Keys
  BY <1>2 DEF Live, Occupied
<1>4. PICK m : EndsAfter(t, k, m) /\ Probe(t, k, m) = i
  BY <1>1, <1>3 DEF Reached
<1> HIDE DEF k
<1>5. m \in 0 .. n - 1 /\ \A l \in 0 .. m - 1 : ~Ends(t, k, Probe(t, k, l))
  BY <1>4 DEF EndsAfter
<1>6. \A l : Probe(u, k, l) = Probe(t, k, l)
  BY ProbeSame
<1>7. \A j \in 0 .. n - 1 : Ends(u, k, j) => Ends(t, k, j)
  BY DEF Ends, Occupied
<1>8. ASSUME NEW l \in 0 .. m - 1 PROVE ~Ends(u, k, Probe(u, k, l))
  <2>1. l \in Nat
    BY <1>5
  <2>2. Probe(t, k, l) \in 0 .. n - 1
    BY <1>3, <2>1, ProbeRange
  <2> QED BY <1>5, <1>6, <1>7, <2>2
<1>9. Ends(u, k, i)
  BY DEF Ends, k
<1>10. EndsAfter(u, k, m) /\ Probe(u, k, m) = i
  BY <1>4, <1>5, <1>6, <1>8, <1>9 DEF EndsAfter
<1> QED BY <1>10 DEF k

\* The entry that takes a key cuts no probe: none ended there before but
\* those for keys that were not in the table.
LEMMA TakenReached ==
  ASSUME NEW n \in Nat, NEW t \in Tables(n), NEW u \in Tables(n), n = t.cap,
         NEW k \in Keys, NEW pv \in Pointers, NEW i, Taken(t, u, i, k, pv),
         NEW x, EndsAfter(t, k, x), i = Probe(t, k, x), Reached(t)
  PROVE  Reached(u)
<1>1. /\ DOMAIN t.item = 0 .. n - 1 /\ DOMAIN u.item = 0 .. n - 1 /\ i \in 0 .. n - 1
      /\ Live(u, i) /\ Occupied(u, i) /\ u.item[i].key = k
      /\ \A j \in 0 .. n - 1 : j # i => u.item[j] = t.item[j]
  BY TakenItems
<1>2. ~Occupied(t, i) /\ u.cap = t.cap
  BY DEF Taken
<1>3. \A h, l : Probe(u, h, l) = Probe(t, h, l)
  BY <1>2, ProbeSame
<1>4. \A j \in 0 .. n - 1 : t.item[j].key \in Keys \cup {NoKey}
  BY DEF Tables, Entry
\* what did not end a probe does not end it now
<1>5. \A h : \A j \in 0 .. n - 1 : ~Ends(t, h, j) => ~Ends(u, h, j)
  BY <1>1, <1>2 DEF Ends, Occupied, Live
<1>6. ASSUME NEW h \in Keys, NEW m, EndsAfter(t, h, m), Ends(u, h, Probe(t, h, m))
      PROVE  EndsAfter(u, h, m)
  <2>1. m \in 0 .. n - 1 /\ \A l \in 0 .. m - 1 : ~Ends(t, h, Probe(t, h, l))
    BY <1>6 DEF EndsAfter
  <2>2. ASSUME NEW l \in 0 .. m - 1 PROVE ~Ends(u, h, Probe(u, h, l))
    <3>1. l \in Nat
      BY <2>1
    <3>2. Probe(t, h, l) \in 0 .. n - 1
      BY <3>1, ProbeRange
    <3> QED BY <1>3, <1>5, <2>1, <3>2
  <2> QED BY <1>2, <1>3, <1>6, <2>1, <2>2 DEF EndsAfter
<1> SUFFICES ASSUME NEW j \in 0 .. n - 1, Live(u, j)
             PROVE  \E m : EndsAfter(u, u.item[j].key, m) /\ Probe(u, u.item[j].key, m) = j
  BY <1>1 DEF Reached
<1>7. CASE j = i
  <2>1. Ends(u, k, Probe(t, k, x))
    BY <1>1 DEF Ends
  <2>2. EndsAfter(u, k, x)
    BY <1>6, <2>1
  <2> QED BY <1>1, <1>3, <1>7, <2>2
<1>8. CASE j # i
  <2> DEFINE h == t.item[j].key
  <2>1. u.item[j] = t.item[j] /\ Live(t, j)
    BY <1>1, <1>8 DEF Live, Occupied
  <2>2. h \in Keys
    BY <1>4, <2>1 DEF Live, Occupied
  <2>3. PICK m : EndsAfter(t, h, m) /\ Probe(t, h, m) = j
    BY <1>1, <2>1 DEF Reached
  <2>4. Ends(u, h, j)
    BY <2>1 DEF Ends
  <2>5. EndsAfter(u, h, m)
    BY <1>6, <2>2, <2>3, <2>4
  <2> QED BY <1>3, <2>1, <2>3, <2>5
<1> QED BY <1>7, <1>8

\* findPos says where a key is, and -1 if it is nowhere.
LEMMA FindPosMeans ==
  ASSUME NEW t, t \in Tables(t.cap), \E i \in 0 .. t.cap - 1 : ~Occupied(t, i), Findable(t),
         NEW k \in Keys
  PROVE  \/ FindPos(t, k) = -1 /\ At(t, k) = {}
         \/ FindPos(t, k) \in 0 .. t.cap - 1 /\ At(t, k) = {FindPos(t, k)}
<1> DEFINE n == t.cap
           i == Stop(t, k)
<1>1. n \in Nat /\ DOMAIN t.item = 0 .. n - 1
  BY DEF Tables
<1>2. PICK m \in 0 .. n - 1 : EndsAfter(t, k, m) /\ i = Probe(t, k, m)
  BY <1>1, StopThere
<1>3. i \in 0 .. n - 1
  BY <1>1, <1>2, ProbeRange
<1>4. Ends(t, k, i)
  BY <1>2 DEF EndsAfter
<1>5. \A j \in At(t, k) : FindPos(t, k) = j /\ j \in 0 .. n - 1
  BY <1>1 DEF At, Findable
<1>6. FindPos(t, k) = IF Occupied(t, i) THEN i ELSE -1
  BY DEF FindPos
<1> HIDE DEF i
<1>7. CASE Occupied(t, i)
  <2>1. i \in At(t, k)
    BY <1>1, <1>3, <1>4, <1>7 DEF Ends, At
  <2> QED BY <1>3, <1>5, <1>6, <1>7, <2>1
<1>8. CASE ~Occupied(t, i)
  <2>1. \A j \in At(t, k) : j = -1 /\ j \in 0 .. n - 1
    BY <1>5, <1>6, <1>8
  <2>2. At(t, k) = {}
    BY <1>1, <2>1
  <2> QED BY <1>6, <1>8, <2>2
<1> QED BY <1>7, <1>8

(***************************************************************************)
(* Rehash.                                                                 *)
(***************************************************************************)
LEMMA NextPrime ==
  ASSUME NEW n \in Nat, GetPrime(n) # 0
  PROVE  /\ GetPrime(n) \in Nat /\ GetPrime(n) > n /\ GetPrime(n) % 2 = 1
<1> DEFINE T == {i \in DOMAIN Primes : Primes[i] > n}
           P(i) == Primes[i] > n /\ \A k \in 1 .. i - 1 : Primes[k] <= n
           x == CHOOSE i \in DOMAIN Primes : P(i)
<1>1. /\ Primes \in Seq(Nat \ {0}) /\ DOMAIN Primes = 1 .. Len(Primes) /\ Len(Primes) \in Nat
      /\ \A i \in DOMAIN Primes : Primes[i] \in Nat /\ Primes[i] % 2 = 1
  BY PrimeAssumption
<1>2. T # {}
  BY DEF GetPrime
<1>3. T \in SUBSET Nat
  BY <1>1
<1>4. PICK i \in T : \A k \in T : i <= k
  BY <1>2, <1>3, Least
<1>5. i \in DOMAIN Primes /\ P(i)
  <2>0. i \in 1 .. Len(Primes) /\ i \in DOMAIN Primes
    BY <1>1, <1>4
  <2>1. ASSUME NEW k \in 1 .. i - 1 PROVE k \in DOMAIN Primes /\ ~(k \in T)
    <3>1. k \in 1 .. Len(Primes) /\ ~(i <= k)
      BY <1>1, <2>0
    <3> HIDE DEF T
    <3> QED BY <1>1, <1>4, <3>1
  <2> QED BY <1>1, <1>4, <2>1
<1>6. x \in DOMAIN Primes /\ P(x)
  BY <1>5
<1>7. GetPrime(n) = Primes[x]
  BY <1>2 DEF GetPrime
<1> HIDE DEF x
<1> QED BY <1>1, <1>6, <1>7

\* What rehash begins with, and what it makes of u with entry number n of t.
Begun(c, t) == [cap    |-> IF c = "spell" THEN GetPrime(t.cap) ELSE t.cap,
                filled |-> 0,
                item   |-> Blank(GetPrime(t.cap))]
Step(t, u, n) == IF Live(t, n - 1) THEN Place(u, t.item[n - 1].key, t.item[n - 1].pv).table
                                   ELSE u

LEMMA AgainSteps ==
  ASSUME NEW c, NEW t, t.cap \in Nat
  PROVE  /\ Again(c, t)[0] = Begun(c, t)
         /\ \A n \in 1 .. t.cap : Again(c, t)[n] = Step(t, Again(c, t)[n - 1], n)
<1> DEFINE S == Begun(c, t)
           Steps(f, m) == f = [x \in 0 .. m |-> IF x = 0 THEN S ELSE Step(t, f[x - 1], x)]
           T == {m \in Nat : \E f : Steps(f, m)}
<1>1. 0 \in T
  <2>1. Steps([x \in 0 .. 0 |-> S], 0)
    OBVIOUS
  <2> QED BY <2>1
<1>2. ASSUME NEW m \in Nat, m \in T PROVE m + 1 \in T
  <2>1. PICK f : Steps(f, m)
    BY <1>2
  <2> DEFINE g == [x \in 0 .. m + 1 |-> IF x = m + 1 THEN Step(t, f[m], m + 1) ELSE f[x]]
  <2>2. \A x \in 0 .. m : f[x] = IF x = 0 THEN S ELSE Step(t, f[x - 1], x)
    BY <2>1
  <2>3. \A x \in 0 .. m + 1 : g[x] = IF x = 0 THEN S ELSE Step(t, g[x - 1], x)
    <3> SUFFICES ASSUME NEW x \in 0 .. m + 1
                 PROVE  g[x] = IF x = 0 THEN S ELSE Step(t, g[x - 1], x)
      OBVIOUS
    <3> HIDE DEF S
    <3>1. CASE x = m + 1
      <4>1. x # 0 /\ x - 1 = m /\ m \in 0 .. m + 1 /\ m # m + 1
        BY <3>1
      <4>2. g[x - 1] = f[m] /\ g[x] = Step(t, f[m], m + 1)
        BY <3>1, <4>1
      <4> QED BY <3>1, <4>1, <4>2
    <3>2. CASE x # m + 1
      <4>1. x \in 0 .. m
        BY <3>2
      <4>2. g[x] = f[x] /\ (x # 0 => g[x - 1] = f[x - 1])
        BY <3>2, <4>1
      <4> QED BY <2>2, <4>1, <4>2
    <3> QED BY <3>1, <3>2
  <2>4. g = [x \in 0 .. m + 1 |-> g[x]]
    OBVIOUS
  <2>5. Steps(g, m + 1)
    <3> HIDE DEF g, S
    <3>1. [x \in 0 .. m + 1 |-> g[x]]
             = [x \in 0 .. m + 1 |-> IF x = 0 THEN S ELSE Step(t, g[x - 1], x)]
      BY <2>3, Zenon
    <3> QED BY <2>4, <3>1, Zenon
  <2> HIDE DEF g, Steps
  <2>6. m + 1 \in Nat
    OBVIOUS
  <2> QED BY <2>5, <2>6, Zenon
<1>3. t.cap \in T
  <2> HIDE DEF T
  <2>1. Nat \subseteq T
    BY <1>1, <1>2, Induct
  <2> QED BY <2>1
<1>4. PICK f : Steps(f, t.cap)
  BY <1>3
<1>5. Again(c, t) = CHOOSE h : Steps(h, t.cap)
  BY DEF Again, Step, Begun
<1>6. Steps(Again(c, t), t.cap)
  BY <1>4, <1>5, Zenon
<1> HIDE DEF S
<1> QED BY <1>6 DEF S

(***************************************************************************)
(* What the table holds.                                                   *)
(***************************************************************************)
Holds(t, k, pv) == \E i \in DOMAIN t.item : Live(t, i) /\ t.item[i].key = k /\ t.item[i].pv = pv

LEMMA TakenHolds ==
  ASSUME NEW n \in Nat, NEW t \in Tables(n), NEW u \in Tables(n), t.cap <= n,
         NEW k \in Keys, NEW pv \in Pointers, NEW i, Taken(t, u, i, k, pv),
         NEW h, NEW p
  PROVE  Holds(u, h, p) <=> Holds(t, h, p) \/ (h = k /\ p = pv)
<1>1. /\ DOMAIN t.item = 0 .. n - 1 /\ DOMAIN u.item = 0 .. n - 1 /\ i \in 0 .. n - 1
      /\ Live(u, i) /\ u.item[i].key = k /\ u.item[i].pv = pv
      /\ \A j \in 0 .. n - 1 : j # i => u.item[j] = t.item[j]
  BY TakenItems
<1>2. ~Live(t, i)
  BY DEF Taken, Live
<1>3. \A j \in 0 .. n - 1 : j # i => (Live(u, j) <=> Live(t, j))
  BY <1>1 DEF Live, Occupied
<1>4. ASSUME Holds(u, h, p) PROVE Holds(t, h, p) \/ (h = k /\ p = pv)
  BY <1>1, <1>3, <1>4 DEF Holds
<1>5. ASSUME Holds(t, h, p) PROVE Holds(u, h, p)
  <2>1. PICK j \in 0 .. n - 1 : Live(t, j) /\ t.item[j].key = h /\ t.item[j].pv = p
    BY <1>1, <1>5 DEF Holds
  <2>2. Live(u, j) /\ u.item[j] = t.item[j]
    BY <1>1, <1>2, <1>3, <2>1
  <2> QED BY <1>1, <2>1, <2>2 DEF Holds
<1>6. Holds(u, k, pv)
  BY <1>1 DEF Holds
<1> QED BY <1>4, <1>5, <1>6

\* A table that a member function is called on.
GoodTable(t) == t \in Tables(t.cap) /\ t.cap % 2 = 1 /\ Pointed(t) /\ Roomy(t)

LEMMA GoodRoom ==
  ASSUME NEW t, GoodTable(t)
  PROVE  /\ t.cap \in Nat /\ t.cap # 0 /\ t.filled \in Nat /\ 2 * t.filled + 1 <= t.cap
         /\ DOMAIN t.item = 0 .. t.cap - 1 /\ Counted(t)
         /\ \E i \in 0 .. t.cap - 1 : ~Occupied(t, i)
<1>1. t.cap \in Nat /\ t.cap # 0 /\ t.filled \in Nat /\ DOMAIN t.item = 0 .. t.cap - 1
  BY DEF GoodTable, Tables
<1>2. 2 * t.filled <= t.cap /\ t.cap % 2 = 1
  BY DEF GoodTable, Roomy
<1>3. 2 * t.filled + 1 <= t.cap
  <2> DEFINE c == t.cap
             f == t.filled
  <2>1. c \in Nat /\ f \in Nat /\ 2 * f <= c /\ c % 2 = 1
    BY <1>1, <1>2
  <2> HIDE DEF c, f
  <2>2. 2 * f # c
    BY <2>1
  <2>3. 2 * f + 1 <= c
    BY <2>1, <2>2
  <2> QED BY <2>3 DEF c, f
<1>4. Counted(t)
  BY DEF GoodTable, Roomy, Counted, OccupiedAt
<1>5. t.filled < t.cap
  BY <1>1, <1>3
<1> QED BY <1>1, <1>3, <1>4, <1>5, RoomThere DEF GoodTable

\* In a table where every entry is findable a key has one entry at most.
LEMMA OnlyOne ==
  ASSUME NEW t, GoodTable(t), Findable(t), NEW i \in 0 .. t.cap - 1, NEW j \in 0 .. t.cap - 1,
         Live(t, i), Live(t, j), t.item[i].key = t.item[j].key
  PROVE  i = j
BY GoodRoom DEF Findable

\* What rehash has moved.
Before(t, n) == {i \in 0 .. n - 1 : Live(t, i)}

LEMMA BeforeCounts ==
  ASSUME NEW t, GoodTable(t), NEW n \in 1 .. t.cap
  PROVE  /\ IsFiniteSet(Before(t, n)) /\ Cardinality(Before(t, n)) \in Nat
         /\ Cardinality(Before(t, n)) <= t.filled
         /\ Cardinality(Before(t, n - 1)) \in Nat
         /\ Cardinality(Before(t, n)) = Cardinality(Before(t, n - 1)) + (IF Live(t, n - 1) THEN 1 ELSE 0)
<1>1. /\ t.cap \in Nat /\ t.cap # 0 /\ DOMAIN t.item = 0 .. t.cap - 1
      /\ t.filled = Cardinality(OccupiedAt(t)) /\ n \in Nat
  BY GoodRoom DEF Counted
<1>2. IsFiniteSet(OccupiedAt(t)) /\ Cardinality(OccupiedAt(t)) \in Nat
  BY <1>1, OccupiedFinite DEF GoodTable
<1>3. Before(t, n) \in SUBSET OccupiedAt(t) /\ Before(t, n - 1) \in SUBSET OccupiedAt(t)
  BY <1>1 DEF Before, OccupiedAt, Live
<1>4. /\ IsFiniteSet(Before(t, n)) /\ Cardinality(Before(t, n)) <= t.filled
      /\ IsFiniteSet(Before(t, n - 1))
  BY <1>1, <1>2, <1>3, FS_Subset
<1>5. Cardinality(Before(t, n)) \in Nat /\ Cardinality(Before(t, n - 1)) \in Nat
  BY <1>4, FS_CardinalityType
<1>6. CASE Live(t, n - 1)
  <2>1. Before(t, n) = Before(t, n - 1) \cup {n - 1} /\ n - 1 \notin Before(t, n - 1)
    BY <1>1, <1>6 DEF Before
  <2>2. Cardinality(Before(t, n)) = Cardinality(Before(t, n - 1)) + 1
    BY <1>4, <2>1, FS_AddElement
  <2> QED BY <1>4, <1>5, <1>6, <2>2
<1>7. CASE ~Live(t, n - 1)
  <2>1. Before(t, n) = Before(t, n - 1)
    BY <1>1, <1>7 DEF Before
  <2> QED BY <1>4, <1>5, <1>7, <2>1
<1> QED BY <1>6, <1>7

\* The table that rehash fills, after n entries: all of them are counted, and
\* those of "spell" can be found.
Filling(c, t, n, u) ==
    /\ u \in Tables(GetPrime(t.cap))
    /\ u.cap = IF c = "spell" THEN GetPrime(t.cap) ELSE t.cap
    /\ Counted(u) /\ Pointed(u)
    /\ u.filled <= Cardinality(Before(t, n))

Refilled(c, t, n, u) ==
    c = "spell" =>
        /\ Reached(u)
        /\ Findable(t) => \A k, pv : Holds(u, k, pv) <=>
              \E i \in 0 .. n - 1 : Live(t, i) /\ t.item[i].key = k /\ t.item[i].pv = pv

LEMMA StartFilling ==
  ASSUME NEW c, NEW t, GoodTable(t), GetPrime(t.cap) # 0
  PROVE  Filling(c, t, 0, Begun(c, t)) /\ Refilled(c, t, 0, Begun(c, t))
<1> DEFINE u == Begun(c, t)
           big == GetPrime(t.cap)
<1>1. t.cap \in Nat /\ t.cap # 0
  BY GoodRoom
<1>2. big \in Nat /\ big # 0
  BY <1>1, NextPrime
<1>3. /\ u.cap = IF c = "spell" THEN big ELSE t.cap
      /\ u.filled = 0 /\ u.item = [i \in 0 .. big - 1 |-> Empty]
  BY DEF Begun, Blank
<1>4. u \in Tables(big)
  <2>1. Empty \in Entry
    BY DEF Empty, Entry
  <2>2. [i \in 0 .. big - 1 |-> Empty] \in [0 .. big - 1 -> Entry]
    BY <2>1
  <2>3. (IF c = "spell" THEN big ELSE t.cap) \in Nat \ {0} /\ 0 \in Nat
    BY <1>1, <1>2
  <2> HIDE DEF big
  <2> QED BY <2>2, <2>3 DEF Begun, Blank, Tables, big
<1>5. DOMAIN u.item = 0 .. big - 1 /\ \A i \in 0 .. big - 1 : u.item[i].key = NoKey
  BY <1>3 DEF Empty
<1> HIDE DEF u, big
<1>6. \A i \in 0 .. big - 1 : ~Occupied(u, i) /\ ~Live(u, i)
  BY <1>5 DEF Occupied, Live
<1>7. OccupiedAt(u) = {}
  BY <1>5, <1>6 DEF OccupiedAt
<1>8. Counted(u) /\ Pointed(u)
  BY <1>3, <1>5, <1>6, <1>7, FS_EmptySet DEF Counted, Pointed
<1>9. Before(t, 0) = {}
  BY DEF Before
<1>10. u.filled <= Cardinality(Before(t, 0))
  <2>1. Cardinality(Before(t, 0)) = 0 /\ u.filled = 0
    BY <1>3, <1>9, FS_EmptySet, Zenon
  <2> QED BY <2>1
<1>11. Reached(u)
  BY <1>5, <1>6 DEF Reached
<1>12. \A k, pv : ~Holds(u, k, pv)
  BY <1>5, <1>6 DEF Holds
<1>13. Filling(c, t, 0, u)
  BY <1>3, <1>4, <1>8, <1>10 DEF Filling, big
<1>14. Refilled(c, t, 0, u)
  BY <1>11, <1>12 DEF Refilled
<1> QED BY <1>13, <1>14 DEF u

\* insert in rehash has room, and does not call rehash again.
LEMMA StepHasRoom ==
  ASSUME NEW c, NEW t, GoodTable(t), GetPrime(t.cap) # 0, NEW n \in 1 .. t.cap, NEW u,
         Filling(c, t, n - 1, u), Live(t, n - 1)
  PROVE  /\ u.cap <= GetPrime(t.cap) /\ t.cap <= u.cap
         /\ \E i \in 0 .. u.cap - 1 : ~Occupied(u, i)
         /\ ~Crowded(u)
<1> DEFINE big == GetPrime(t.cap)
<1>1. t.cap \in Nat /\ t.cap # 0 /\ t.filled \in Nat /\ 2 * t.filled + 1 <= t.cap
  BY GoodRoom
<1>2. big \in Nat /\ big > t.cap
  BY <1>1, NextPrime
<1>3. /\ u \in Tables(big) /\ Counted(u) /\ u.filled <= Cardinality(Before(t, n - 1))
      /\ u.cap = big \/ u.cap = t.cap
  BY DEF Filling
<1>4. u.filled \in Nat /\ u.filled + 1 <= t.filled
  <2>1. u.filled \in Nat
    BY <1>3 DEF Tables
  <2>2. /\ Cardinality(Before(t, n)) <= t.filled /\ Cardinality(Before(t, n - 1)) \in Nat
        /\ Cardinality(Before(t, n)) = Cardinality(Before(t, n - 1)) + 1
    BY BeforeCounts
  <2> QED BY <1>1, <1>3, <2>1, <2>2
<1>5. u.cap \in Nat /\ u.cap <= big /\ t.cap <= u.cap
  BY <1>1, <1>2, <1>3
<1> HIDE DEF big
<1>6. u.filled < u.cap
  BY <1>1, <1>4, <1>5
<1>7. \E i \in 0 .. u.cap - 1 : ~Occupied(u, i)
  BY <1>2, <1>3, <1>5, <1>6, RoomThere
<1>8. ~Crowded(u)
  <2> DEFINE d == u.cap
             f == u.filled
  <2>1. d \in Nat /\ f \in Nat /\ 2 * f + 3 <= d
    BY <1>1, <1>4, <1>5
  <2> HIDE DEF d, f
  <2>2. ~(f >= d \div 2)
    BY <2>1
  <2> QED BY <2>2 DEF Crowded, d, f
<1> QED BY <1>5, <1>7, <1>8 DEF big

LEMMA StepFilling ==
  ASSUME NEW c, NEW t, GoodTable(t), GetPrime(t.cap) # 0, NEW n \in 1 .. t.cap, NEW u,
         Filling(c, t, n - 1, u), Refilled(c, t, n - 1, u)
  PROVE  Filling(c, t, n, Step(t, u, n)) /\ Refilled(c, t, n, Step(t, u, n))
<1> DEFINE big == GetPrime(t.cap)
           k == t.item[n - 1].key
           pv == t.item[n - 1].pv
<1>1. t.cap \in Nat /\ DOMAIN t.item = 0 .. t.cap - 1 /\ n \in Nat /\ n - 1 \in 0 .. t.cap - 1
  BY GoodRoom
<1>2. big \in Nat /\ big > t.cap
  BY <1>1, NextPrime
<1>3. /\ u \in Tables(big) /\ Counted(u) /\ Pointed(u)
      /\ u.cap = IF c = "spell" THEN big ELSE t.cap
      /\ u.filled <= Cardinality(Before(t, n - 1))
  BY DEF Filling
<1>4. /\ Cardinality(Before(t, n)) \in Nat /\ Cardinality(Before(t, n - 1)) \in Nat
      /\ Cardinality(Before(t, n)) = Cardinality(Before(t, n - 1)) + (IF Live(t, n - 1) THEN 1 ELSE 0)
  BY BeforeCounts
<1>5. u.filled \in Nat
  BY <1>3 DEF Tables
<1>6. CASE ~Live(t, n - 1)
  <2>1. Step(t, u, n) = u
    BY <1>6 DEF Step
  <2>2. Filling(c, t, n, u)
    BY <1>3, <1>4, <1>6 DEF Filling
  <2>3. Refilled(c, t, n, u)
    <3>1. \A i \in 0 .. n - 1 : Live(t, i) => i \in 0 .. (n - 1) - 1
      BY <1>1, <1>6
    <3>2. \A i \in 0 .. (n - 1) - 1 : i \in 0 .. n - 1
      BY <1>1
    <3> QED BY <3>1, <3>2 DEF Refilled
  <2> QED BY <2>1, <2>2, <2>3
<1>7. CASE Live(t, n - 1)
  <2>1. /\ u.cap <= big /\ \E i \in 0 .. u.cap - 1 : ~Occupied(u, i)
    BY <1>7, StepHasRoom
  <2>2. k \in Keys /\ pv \in Pointers
    <3>1. t.item \in [0 .. t.cap - 1 -> Entry]
      BY DEF GoodTable, Tables
    <3>2. Occupied(t, n - 1) /\ t.item[n - 1] \in Entry
      BY <1>1, <1>7, <3>1 DEF Live
    <3> QED BY <1>1, <3>2 DEF GoodTable, Pointed, Occupied, Entry
  <2> DEFINE v == Step(t, u, n)
  <2>3. v = Place(u, k, pv).table
    BY <1>7 DEF Step
  <2>a. \A i \in 0 .. n - 1 : i = n - 1 \/ i \in 0 .. (n - 1) - 1
    BY <1>1
  <2>b. n - 1 \in 0 .. n - 1 /\ \A i \in 0 .. (n - 1) - 1 : i \in 0 .. n - 1
    BY <1>1
  <2> HIDE DEF k, pv, big
  <2>4. PICK m, i \in 0 .. u.cap - 1 : Placed(big, u, k, pv, Place(u, k, pv), m, i)
    BY <1>2, <1>3, <2>1, <2>2, PlaceEffect
  <2> HIDE DEF v
  \* only a table that holds a key twice, as the rehash of "heap" leaves it
  <2>5. ASSUME Live(u, i), u.item[i].key = k, v = u
        PROVE  Filling(c, t, n, v) /\ Refilled(c, t, n, v)
    <3>1. Filling(c, t, n, u)
      BY <1>3, <1>4, <1>5, <1>7 DEF Filling, big
    <3>2. ASSUME c = "spell", Findable(t) PROVE FALSE
      <4>1. i \in 0 .. big - 1 /\ DOMAIN u.item = 0 .. big - 1
        BY <1>2, <1>3, <3>2 DEF Tables
      <4>2. Holds(u, k, u.item[i].pv)
        BY <2>5, <4>1 DEF Holds
      <4>3. PICK j \in 0 .. (n - 1) - 1 : Live(t, j) /\ t.item[j].key = k
        BY <3>2, <4>2 DEF Refilled
      <4>4. j \in 0 .. t.cap - 1 /\ j # n - 1
        BY <1>1
      <4> QED BY <1>1, <1>7, <3>2, <4>3, <4>4, OnlyOne DEF k
    <3>3. Refilled(c, t, n, u)
      BY <3>2 DEF Refilled
    <3> QED BY <2>5, <3>1, <3>3
  <2>6. ASSUME v \in Tables(big), Taken(u, v, i, k, pv)
        PROVE  Filling(c, t, n, v) /\ Refilled(c, t, n, v)
    <3>1. Counted(v) /\ Pointed(v)
      BY <1>2, <1>3, <2>1, <2>2, <2>6, TakenCounts
    <3>2. v.cap = u.cap /\ v.filled = u.filled + 1
      BY <2>6 DEF Taken
    <3>3. Filling(c, t, n, v)
      BY <1>3, <1>4, <1>5, <1>7, <2>6, <3>1, <3>2 DEF Filling, big
    <3>4. ASSUME c = "spell" PROVE Reached(v)
      <4>1. big = u.cap /\ Reached(u)
        BY <1>3, <3>4 DEF Refilled
      <4> QED BY <1>2, <1>3, <2>2, <2>4, <2>6, <4>1, TakenReached DEF Placed
    <3>5. ASSUME c = "spell", Findable(t), NEW h, NEW p
          PROVE  Holds(v, h, p) <=>
                 \E j \in 0 .. n - 1 : Live(t, j) /\ t.item[j].key = h /\ t.item[j].pv = p
      <4>1. Holds(v, h, p) <=> Holds(u, h, p) \/ (h = k /\ p = pv)
        BY <1>2, <1>3, <2>1, <2>2, <2>6, TakenHolds
      <4>2. Holds(u, h, p) <=>
            \E j \in 0 .. (n - 1) - 1 : Live(t, j) /\ t.item[j].key = h /\ t.item[j].pv = p
        BY <3>5 DEF Refilled
      <4> QED BY <1>7, <2>a, <2>b, <4>1, <4>2 DEF k, pv
    <3>6. Refilled(c, t, n, v)
      BY <3>4, <3>5 DEF Refilled
    <3> QED BY <3>3, <3>6
  <2>7. \/ Taken(u, v, i, k, pv) /\ v \in Tables(big)
        \/ Live(u, i) /\ u.item[i].key = k /\ v = u
    <3>1. CASE Live(u, i) /\ u.item[i].key = k /\ Place(u, k, pv) = [table |-> u, ret |-> 1]
      <4>1. Place(u, k, pv).table = u
        BY <3>1
      <4> QED BY <2>3, <3>1, <4>1, Zenon
    <3>2. CASE /\ ~Occupied(u, i)
               /\ v \in Tables(big) /\ v.cap = u.cap /\ v.filled = u.filled + 1
               /\ v.item = [u.item EXCEPT ![i] = [key |-> k, pv |-> pv, deleted |-> FALSE]]
      <4>1. i \in 0 .. u.cap - 1
        OBVIOUS
      <4>2. Taken(u, v, i, k, pv)
        BY <3>2, <4>1 DEF Taken
      <4> QED BY <3>2, <4>2
    <3> QED BY <2>3, <2>4, <3>1, <3>2, Zenon DEF Placed
  <2> QED BY <2>5, <2>6, <2>7 DEF v
<1> QED BY <1>6, <1>7

LEMMA AgainFilling ==
  ASSUME NEW c, NEW t, GoodTable(t), GetPrime(t.cap) # 0
  PROVE  Filling(c, t, t.cap, Again(c, t)[t.cap]) /\ Refilled(c, t, t.cap, Again(c, t)[t.cap])
<1> DEFINE F(n) == Filling(c, t, n, Again(c, t)[n]) /\ Refilled(c, t, n, Again(c, t)[n])
           T == {n \in Nat : n <= t.cap => F(n)}
<1>1. t.cap \in Nat /\ t.cap # 0
  BY GoodRoom
<1>2. /\ Again(c, t)[0] = Begun(c, t)
      /\ \A n \in 1 .. t.cap : Again(c, t)[n] = Step(t, Again(c, t)[n - 1], n)
  BY <1>1, AgainSteps
<1>3. 0 \in T
  BY <1>2, StartFilling
<1>4. ASSUME NEW n \in Nat, n \in T PROVE n + 1 \in T
  <2> SUFFICES ASSUME n + 1 <= t.cap PROVE F(n + 1)
    OBVIOUS
  <2> DEFINE l == n + 1
  <2>1. n <= t.cap /\ l \in 1 .. t.cap /\ l - 1 = n
    BY <1>1
  <2>2. F(l - 1)
    <3>1. F(n)
      BY <1>4, <2>1
    <3> QED BY <2>1, <3>1
  <2> HIDE DEF l
  <2>3. F(l)
    BY <1>2, <2>1, <2>2, StepFilling
  <2> QED BY <2>3 DEF l
<1> HIDE DEF T
<1>5. Nat \subseteq T
  BY <1>3, <1>4, Induct
<1>6. t.cap \in T
  BY <1>1, <1>5
<1> QED BY <1>1, <1>6 DEF T

\* rehash gives a table with room for one more entry.  In "spell" every live
\* entry can be found in it, and it holds what the old one held.
LEMMA RehashGood ==
  ASSUME NEW c, NEW t, GoodTable(t), GetPrime(t.cap) # 0
  PROVE  LET u == Rehash(c, t) IN
            /\ GoodTable(u) /\ 2 * u.filled + 2 <= u.cap
            /\ c = "spell" => Reached(u)
            /\ c = "spell" /\ Findable(t) => \A k, pv : Holds(u, k, pv) <=> Holds(t, k, pv)
<1> DEFINE big == GetPrime(t.cap)
           v == Again(c, t)[t.cap]
           u == Rehash(c, t)
<1>1. /\ t.cap \in Nat /\ t.cap # 0 /\ t.filled \in Nat /\ 2 * t.filled + 1 <= t.cap
      /\ DOMAIN t.item = 0 .. t.cap - 1
  BY GoodRoom
<1>2. big \in Nat /\ big > t.cap /\ big % 2 = 1
  BY <1>1, NextPrime
<1>3. /\ v \in Tables(big) /\ Counted(v) /\ Pointed(v)
      /\ v.cap = IF c = "spell" THEN big ELSE t.cap
      /\ v.filled <= Cardinality(Before(t, t.cap))
  BY AgainFilling DEF Filling
<1>4. Refilled(c, t, t.cap, v)
  BY AgainFilling
<1>5. Cardinality(Before(t, t.cap)) \in Nat /\ Cardinality(Before(t, t.cap)) <= t.filled
  <2>1. t.cap \in 1 .. t.cap
    BY <1>1
  <2> QED BY <2>1, BeforeCounts
<1>6. u = [v EXCEPT !.cap = big]
  BY DEF Rehash
<1> HIDE DEF u, v, big
<1>7. /\ u.cap = big /\ u.filled = v.filled /\ u.item = v.item /\ u \in Tables(big)
  BY <1>1, <1>2, <1>3, <1>6, SMTT(30) DEF Tables
<1>8. v.filled \in Nat /\ 2 * v.filled + 2 <= big
  <2>1. v.filled \in Nat
    BY <1>3 DEF Tables
  <2> QED BY <1>1, <1>2, <1>3, <1>5, <2>1, SMTT(30)
<1>9. GoodTable(u)
  <2>1. Pointed(u) /\ OccupiedAt(u) = OccupiedAt(v)
    BY <1>3, <1>7 DEF Pointed, OccupiedAt, Occupied
  <2>2. u.filled = Cardinality({i \in DOMAIN u.item : Occupied(u, i)})
    BY <1>3, <1>7, <2>1 DEF Counted, OccupiedAt
  <2>3. 2 * u.filled <= u.cap
    BY <1>2, <1>7, <1>8
  <2> QED BY <1>2, <1>7, <2>1, <2>2, <2>3 DEF GoodTable, Roomy
<1>10. ASSUME c = "spell" PROVE v = u /\ Reached(u)
  <2>1. v.cap = big
    BY <1>3, <1>10
  <2>2. v = u
    BY <1>3, <1>6, <2>1 DEF Tables
  <2> QED BY <1>4, <1>10, <2>2 DEF Refilled
<1>11. ASSUME c = "spell", Findable(t), NEW k, NEW pv
       PROVE  Holds(u, k, pv) <=> Holds(t, k, pv)
  <2>1. Holds(v, k, pv) <=>
           \E i \in 0 .. t.cap - 1 : Live(t, i) /\ t.item[i].key = k /\ t.item[i].pv = pv
    BY <1>4, <1>11 DEF Refilled
  <2>2. v = u
    BY <1>10, <1>11
  <2> QED BY <1>1, <2>1, <2>2 DEF Holds
<1>12. 2 * u.filled + 2 <= u.cap
  BY <1>7, <1>8
<1> QED BY <1>9, <1>10, <1>11, <1>12 DEF u

(***************************************************************************)
(* What the calls do to the table, and to the map it stands for.           *)
(***************************************************************************)
Val(t, k) == GetPointer(t, k).pv

\* A table as the invariant of the client has it while the classes work.
Sound(t) == GoodTable(t) /\ Findable(t)

LEMMA ValMeans ==
  ASSUME NEW t, Sound(t), NEW k \in Keys
  PROVE  \/ /\ FindPos(t, k) = -1 /\ Val(t, k) = Null
            /\ \A p : ~Holds(t, k, p)
         \/ /\ FindPos(t, k) \in 0 .. t.cap - 1 /\ FindPos(t, k) # -1
            /\ Live(t, FindPos(t, k)) /\ t.item[FindPos(t, k)].key = k
            /\ Val(t, k) = t.item[FindPos(t, k)].pv
            /\ Val(t, k) \in Pointers /\ Val(t, k) # Null
            /\ \A p : Holds(t, k, p) <=> p = Val(t, k)
<1> DEFINE i == FindPos(t, k)
<1>1. /\ t.cap \in Nat /\ DOMAIN t.item = 0 .. t.cap - 1
      /\ \E j \in 0 .. t.cap - 1 : ~Occupied(t, j)
      /\ t \in Tables(t.cap) /\ Findable(t) /\ Pointed(t)
  BY GoodRoom DEF Sound, GoodTable
<1>2. \/ i = -1 /\ At(t, k) = {}
      \/ i \in 0 .. t.cap - 1 /\ At(t, k) = {i}
  BY <1>1, FindPosMeans
<1>3. \A p : Holds(t, k, p) <=> \E j \in At(t, k) : t.item[j].pv = p
  BY DEF Holds, At
<1>4. Val(t, k) = IF i = -1 THEN Null ELSE t.item[i].pv
  BY DEF Val, GetPointer
<1> HIDE DEF i
<1>5. CASE i = -1 /\ At(t, k) = {}
  BY <1>3, <1>4, <1>5 DEF i
<1>6. CASE i \in 0 .. t.cap - 1 /\ At(t, k) = {i}
  <2>1. i # -1
    BY <1>1, <1>6
  <2>2. Live(t, i) /\ t.item[i].key = k
    BY <1>6 DEF At
  <2>3. t.item[i].pv \in Pointers
    BY <1>1, <1>6, <2>2 DEF Pointed, Live
  <2>4. Val(t, k) = t.item[i].pv /\ Val(t, k) # Null
    BY <1>4, <2>1, <2>3, PointerAssumption
  <2>5. \A p : Holds(t, k, p) <=> p = Val(t, k)
    BY <1>3, <1>6, <2>4
  <2> QED BY <1>6, <2>1, <2>2, <2>3, <2>4, <2>5 DEF i
<1> QED BY <1>2, <1>5, <1>6

\* Tables that hold the same stand for the same map.
LEMMA SameVal ==
  ASSUME NEW t, NEW u, Sound(t), Sound(u), NEW k \in Keys,
         \A p : Holds(u, k, p) <=> Holds(t, k, p)
  PROVE  Val(u, k) = Val(t, k)
BY ValMeans

LEMMA SoundReached ==
  ASSUME NEW t, GoodTable(t)
  PROVE  Findable(t) <=> Reached(t)
BY GoodRoom, FindableReached DEF GoodTable

\* insert with room in the table
LEMMA PlaceCall ==
  ASSUME NEW t, GoodTable(t), 2 * t.filled + 2 <= t.cap, NEW k \in Keys, NEW pv \in Pointers
  PROVE  LET r == Place(t, k, pv)
             u == r.table
         IN  /\ GoodTable(u) /\ r.ret \in {0, 1}
             /\ Findable(t) =>
                   /\ Findable(u)
                   /\ \/ r.ret = 1 /\ u = t /\ Val(t, k) # Null
                      \/ /\ r.ret = 0 /\ Val(t, k) = Null
                         /\ \A h \in Keys : Val(u, h) = IF h = k THEN pv ELSE Val(t, h)
<1> DEFINE r == Place(t, k, pv)
           u == r.table
           n == t.cap
<1>1. /\ n \in Nat /\ n # 0 /\ DOMAIN t.item = 0 .. n - 1 /\ Counted(t) /\ t.filled \in Nat
      /\ \E j \in 0 .. n - 1 : ~Occupied(t, j)
      /\ t \in Tables(n) /\ Pointed(t) /\ n % 2 = 1
  BY GoodRoom DEF GoodTable
<1>2. PICK m, i \in 0 .. n - 1 : Placed(n, t, k, pv, r, m, i)
  <2>1. t.cap <= n
    BY <1>1
  <2> QED BY <1>1, <2>1, PlaceEffect
<1> HIDE DEF r
<1>3. CASE Live(t, i) /\ t.item[i].key = k /\ r = [table |-> t, ret |-> 1]
  <2>1. u = t /\ r.ret = 1
    BY <1>3
  <2>2. ASSUME Findable(t) PROVE Val(t, k) # Null
    <3>1. Holds(t, k, t.item[i].pv)
      BY <1>1, <1>3 DEF Holds
    <3> QED BY <2>2, <3>1, ValMeans DEF Sound
  <2> QED BY <2>1, <2>2 DEF r
<1>4. CASE /\ ~Occupied(t, i)
           /\ r.ret = 0 /\ u \in Tables(n) /\ u.cap = n /\ u.filled = t.filled + 1
           /\ u.item = [t.item EXCEPT ![i] = [key |-> k, pv |-> pv, deleted |-> FALSE]]
  <2>1. Taken(t, u, i, k, pv) /\ u \in Tables(n)
    <3>1. i \in 0 .. n - 1
      OBVIOUS
    <3> QED BY <1>4, <3>1 DEF Taken
  <2> HIDE DEF u
  <2>2. Counted(u) /\ Pointed(u)
    <3>1. t.cap <= n
      BY <1>1
    <3> QED BY ONLY <1>1, <2>1, <3>1, k \in Keys, pv \in Pointers, TakenCounts
  <2>3. GoodTable(u)
    <3>1. 2 * u.filled <= u.cap
      BY <1>1, <1>4
    <3>2. Roomy(u)
      BY <2>2, <3>1 DEF Roomy, Counted, OccupiedAt
    <3> QED BY <1>1, <1>4, <2>1, <2>2, <3>2 DEF GoodTable
  <2>4. ASSUME Findable(t)
        PROVE  /\ Findable(u) /\ Val(t, k) = Null
               /\ \A h \in Keys : Val(u, h) = IF h = k THEN pv ELSE Val(t, h)
    <3>1. Reached(u)
      <4>1. Reached(t)
        BY <2>4, SoundReached
      <4> QED BY <1>1, <1>2, <2>1, <4>1, TakenReached DEF Placed
    <3>2. Sound(t) /\ Sound(u)
      BY <2>3, <2>4, <3>1, SoundReached DEF Sound
    <3>3. FindPos(t, k) = -1
      <4>1. Stop(t, k) = i
        BY <1>1, <1>2, StopOnly DEF Placed
      <4> QED BY <1>4, <4>1 DEF FindPos
    <3>4. Val(t, k) = Null
      BY <3>3, <3>2, ValMeans
    <3>5. \A h, p : Holds(u, h, p) <=> Holds(t, h, p) \/ (h = k /\ p = pv)
      BY <1>1, <2>1, TakenHolds
    <3>6. Val(u, k) = pv
      <4>1. Holds(u, k, pv)
        BY <3>5
      <4> QED BY <3>2, <4>1, ValMeans
    <3>7. \A h \in Keys : h # k => Val(u, h) = Val(t, h)
      BY <3>2, <3>5, SameVal
    <3> QED BY <3>2, <3>4, <3>6, <3>7 DEF Sound
  <2> QED BY <1>4, <2>3, <2>4 DEF u, r
<1> QED BY <1>2, <1>3, <1>4, Zenon DEF Placed

\* insert, unless it needs memory and gets none
LEMMA InsertCall ==
  ASSUME NEW c, NEW t, GoodTable(t), NEW k \in Keys, NEW pv \in Pointers, NEW memory \in BOOLEAN,
         memory \/ ~Crowded(t), Crowded(t) => GetPrime(t.cap) # 0
  PROVE  LET r == Insert(c, t, k, pv, memory)
             u == r.table
         IN  /\ GoodTable(u) /\ r.ret \in {0, 1}
             /\ Findable(t) /\ (Crowded(t) => c = "spell") =>
                   /\ Findable(u)
                   /\ \/ /\ r.ret = 1 /\ Val(t, k) # Null
                         /\ \A h \in Keys : Val(u, h) = Val(t, h)
                      \/ /\ r.ret = 0 /\ Val(t, k) = Null
                         /\ \A h \in Keys : Val(u, h) = IF h = k THEN pv ELSE Val(t, h)
<1>1. CASE ~Crowded(t)
  <2>1. 2 * t.filled + 2 <= t.cap
    <3> DEFINE d == t.cap
               f == t.filled
    <3>1. d \in Nat /\ f \in Nat /\ ~(f >= d \div 2)
      BY <1>1, GoodRoom DEF Crowded
    <3> HIDE DEF d, f
    <3>2. 2 * f + 2 <= d
      BY <3>1
    <3> QED BY <3>2 DEF d, f
  <2>2. Insert(c, t, k, pv, memory) = Place(t, k, pv)
    BY <1>1 DEF Insert
  <2> QED BY <2>1, <2>2, PlaceCall
<1>2. CASE Crowded(t)
  <2> DEFINE s == Rehash(c, t)
  <2>1. /\ GoodTable(s) /\ 2 * s.filled + 2 <= s.cap
        /\ c = "spell" => Reached(s)
        /\ c = "spell" /\ Findable(t) => \A h, p : Holds(s, h, p) <=> Holds(t, h, p)
    BY <1>2, RehashGood
  <2>2. Insert(c, t, k, pv, memory) = Place(s, k, pv)
    BY <1>2 DEF Insert
  <2> HIDE DEF s
  <2>3. ASSUME Findable(t), c = "spell"
        PROVE  Findable(s) /\ \A h \in Keys : Val(s, h) = Val(t, h)
    <3>1. Sound(s) /\ Sound(t)
      BY <2>1, <2>3, SoundReached DEF Sound
    <3> QED BY <2>1, <2>3, <3>1, SameVal DEF Sound
  <2> QED BY <1>2, <2>1, <2>2, <2>3, PlaceCall
<1> QED BY <1>1, <1>2

Changed(t, i, e) == [t EXCEPT !.item = [t.item EXCEPT ![i] = e]]

\* A change of one entry that stays occupied with the same key leaves the
\* table good.
LEMMA ChangeGood ==
  ASSUME NEW t, GoodTable(t), NEW i \in 0 .. t.cap - 1, NEW e \in Entry, Occupied(t, i),
         e.key = t.item[i].key, e.pv \in Pointers, NEW u,
         u = Changed(t, i, e)
  PROVE  /\ GoodTable(u) /\ u.cap = t.cap
         /\ u.item[i] = e
         /\ \A j \in 0 .. t.cap - 1 : j # i => u.item[j] = t.item[j]
         /\ (Live(u, i) => Live(t, i)) /\ Findable(t) => Findable(u)
<1> DEFINE n == t.cap
           J == [t.item EXCEPT ![i] = e]
<1>1. /\ n \in Nat /\ t \in Tables(n) /\ t.item \in [0 .. n - 1 -> Entry] /\ n \in Nat \ {0}
      /\ t.filled \in Nat /\ DOMAIN t.item = 0 .. n - 1 /\ n % 2 = 1 /\ Pointed(t) /\ Roomy(t)
  BY DEF GoodTable, Tables
<1>2. J \in [0 .. n - 1 -> Entry]
  BY <1>1, Zenon
<1>3. J[i] = e /\ \A j \in 0 .. n - 1 : j # i => J[j] = t.item[j]
  BY <1>1
<1> HIDE DEF J
<1>4. u = [cap |-> n, filled |-> t.filled, item |-> J]
  BY <1>1 DEF Tables, J, Changed
<1> HIDE DEF n
<1>5. u \in Tables(n) /\ u.cap = n /\ u.filled = t.filled /\ u.item = J
  <2>1. n \in Nat \ {0} /\ t.filled \in Nat
    BY <1>1
  <2>2. u.cap = n /\ u.filled = t.filled /\ u.item = J
    BY <1>4
  <2>3. u \in Tables(n)
    BY <1>2, <1>4, <2>1 DEF Tables
  <2> QED BY <2>2, <2>3
<1>6. DOMAIN u.item = 0 .. n - 1
  BY <1>2, <1>5
<1>7. \A j \in 0 .. n - 1 : u.item[j].key = t.item[j].key /\ (Occupied(u, j) <=> Occupied(t, j))
  BY <1>3, <1>5 DEF Occupied
<1>8. Pointed(u)
  <2> SUFFICES ASSUME NEW j \in 0 .. n - 1, Occupied(u, j) PROVE u.item[j].pv \in Pointers
    BY <1>6 DEF Pointed
  <2> QED BY <1>1, <1>3, <1>5, <1>7 DEF Pointed
<1>9. Roomy(u)
  <2>1. {j \in DOMAIN u.item : Occupied(u, j)} = {j \in DOMAIN t.item : Occupied(t, j)}
    BY <1>1, <1>6, <1>7
  <2> QED BY <1>1, <1>5, <2>1 DEF Roomy, n
<1>10. GoodTable(u)
  BY <1>1, <1>5, <1>8, <1>9 DEF GoodTable
<1>11. ASSUME Live(u, i) => Live(t, i), Findable(t) PROVE Findable(u)
  <2>1. \A j \in 0 .. n - 1 : Live(u, j) => Live(t, j)
    <3>1. \A j \in 0 .. n - 1 : j # i => (Live(u, j) => Live(t, j))
      BY <1>3, <1>5 DEF Live, Occupied
    <3> QED BY <1>11, <3>1
  <2>2. Reached(t)
    BY <1>11, SoundReached
  <2>3. Reached(u)
    BY <1>1, <1>5, <1>7, <2>1, <2>2, ReachedKept DEF n
  <2> QED BY <1>10, <2>3, SoundReached
<1>12. i \in 0 .. n - 1
  BY DEF n
<1> QED BY <1>3, <1>5, <1>10, <1>11, <1>12 DEF J, n

\* remove on a sound table
LEMMA RemoveCall ==
  ASSUME NEW t, Sound(t), NEW k \in Keys
  PROVE  LET r == TableRemove(t, k) IN
            /\ Sound(r.table)
            /\ r.ret = IF Val(t, k) # Null THEN 1 ELSE 0
            /\ \A h \in Keys : Val(r.table, h) = IF h = k THEN Null ELSE Val(t, h)
<1> DEFINE r == TableRemove(t, k)
           i == FindPos(t, k)
<1>1. CASE i = -1
  <2>1. Val(t, k) = Null
    BY <1>1, ValMeans
  <2>2. r.table = t /\ r.ret = 0
    BY <1>1 DEF TableRemove
  <2> QED BY <2>1, <2>2
<1>2. CASE i # -1
  <2> DEFINE e == [t.item[i] EXCEPT !.deleted = TRUE]
             u == Changed(t, i, e)
  <2>1. /\ i \in 0 .. t.cap - 1 /\ Live(t, i) /\ t.item[i].key = k /\ Val(t, k) # Null
        /\ Val(t, k) = t.item[i].pv /\ Val(t, k) \in Pointers
        /\ \A p : Holds(t, k, p) <=> p = Val(t, k)
    BY <1>2, ValMeans
  <2>2. r = [table |-> u, ret |-> 1]
    BY <1>2 DEF TableRemove, Changed
  <2> HIDE DEF r, u, i
  <2>3. t.item \in [0 .. t.cap - 1 -> Entry] /\ DOMAIN t.item = 0 .. t.cap - 1
    BY DEF Sound, GoodTable, Tables
  <2>4. t.item[i] \in Entry
    BY <2>1, <2>3
  <2>5. e \in Entry /\ e.key = k /\ e.pv = t.item[i].pv /\ e.deleted = TRUE
    BY <2>4, <2>1 DEF Entry
  <2> HIDE DEF e
  <2>6. Occupied(t, i)
    BY <2>1 DEF Live
  <2>7. /\ GoodTable(u) /\ u.cap = t.cap /\ u.item[i] = e
        /\ \A j \in 0 .. t.cap - 1 : j # i => u.item[j] = t.item[j]
        /\ (Live(u, i) => Live(t, i)) /\ Findable(t) => Findable(u)
    <3>1. /\ GoodTable(t) /\ i \in 0 .. t.cap - 1 /\ e \in Entry /\ Occupied(t, i)
          /\ e.key = t.item[i].key /\ e.pv \in Pointers
          /\ u = Changed(t, i, e)
      BY <2>1, <2>5, <2>6, Zenon DEF Sound, u
    <3> QED BY ONLY <3>1, ChangeGood
  <2>8. Sound(u)
    BY <2>1, <2>7 DEF Sound
  <2>9. DOMAIN u.item = 0 .. t.cap - 1
    BY <2>7 DEF GoodTable, Tables
  <2>10. ~Live(u, i)
    BY <2>5, <2>7 DEF Live
  <2>11. \A j \in 0 .. t.cap - 1 : j # i => (Live(u, j) <=> Live(t, j))
    BY <2>7 DEF Live, Occupied
  <2>12. \A p : ~Holds(u, k, p)
    <3> SUFFICES ASSUME NEW p, Holds(u, k, p) PROVE FALSE
      OBVIOUS
    <3>1. PICK j \in 0 .. t.cap - 1 : Live(u, j) /\ u.item[j].key = k
      BY <2>9 DEF Holds
    <3>2. j # i /\ Live(t, j) /\ t.item[j].key = k
      BY <2>7, <2>10, <2>11, <3>1
    <3> QED BY <2>1, <3>2, OnlyOne DEF Sound
  <2>13. Val(u, k) = Null
    BY <2>8, <2>12, ValMeans
  <2>14. ASSUME NEW h \in Keys, h # k PROVE Val(u, h) = Val(t, h)
    <3>1. \A p : Holds(u, h, p) <=> Holds(t, h, p)
      BY <2>1, <2>3, <2>5, <2>7, <2>9, <2>11, <2>14 DEF Holds
    <3> QED BY <2>8, <3>1, SameVal
  <2> QED BY <2>1, <2>2, <2>8, <2>13, <2>14 DEF r
<1> QED BY <1>1, <1>2

\* setPointer on a sound table
LEMMA SetPointerCall ==
  ASSUME NEW t, Sound(t), NEW k \in Keys, NEW pv \in Pointers
  PROVE  LET r == SetPointer(t, k, pv) IN
            /\ Sound(r.table)
            /\ r.ret = IF Val(t, k) # Null THEN 0 ELSE 1
            /\ \A h \in Keys : Val(r.table, h) =
                  IF h = k /\ Val(t, k) # Null THEN pv ELSE Val(t, h)
<1> DEFINE r == SetPointer(t, k, pv)
           i == FindPos(t, k)
<1>1. CASE i = -1
  <2>1. Val(t, k) = Null
    BY <1>1, ValMeans
  <2>2. r.table = t /\ r.ret = 1
    BY <1>1 DEF SetPointer
  <2> QED BY <2>1, <2>2
<1>2. CASE i # -1
  <2> DEFINE e == [t.item[i] EXCEPT !.pv = pv]
             u == Changed(t, i, e)
  <2>1. /\ i \in 0 .. t.cap - 1 /\ Live(t, i) /\ t.item[i].key = k /\ Val(t, k) # Null
        /\ \A p : Holds(t, k, p) <=> p = Val(t, k)
    BY <1>2, ValMeans
  <2>2. r = [table |-> u, ret |-> 0]
    BY <1>2 DEF SetPointer, Changed
  <2> HIDE DEF r, u, i
  <2>3. t.item \in [0 .. t.cap - 1 -> Entry] /\ DOMAIN t.item = 0 .. t.cap - 1
    BY DEF Sound, GoodTable, Tables
  <2>4. t.item[i] \in Entry
    BY <2>1, <2>3
  <2>5. e \in Entry /\ e.key = k /\ e.pv = pv /\ e.deleted = t.item[i].deleted
    BY <2>4, <2>1 DEF Entry
  <2> HIDE DEF e
  <2>6. Occupied(t, i)
    BY <2>1 DEF Live
  <2>7. /\ GoodTable(u) /\ u.cap = t.cap /\ u.item[i] = e
        /\ \A j \in 0 .. t.cap - 1 : j # i => u.item[j] = t.item[j]
        /\ (Live(u, i) => Live(t, i)) /\ Findable(t) => Findable(u)
    <3>1. /\ GoodTable(t) /\ i \in 0 .. t.cap - 1 /\ e \in Entry /\ Occupied(t, i)
          /\ e.key = t.item[i].key /\ e.pv \in Pointers
          /\ u = Changed(t, i, e)
      BY <2>1, <2>5, <2>6, Zenon DEF Sound, u
    <3> QED BY ONLY <3>1, ChangeGood
  <2>8. Sound(u)
    BY <2>1, <2>7 DEF Sound
  <2>9. DOMAIN u.item = 0 .. t.cap - 1
    BY <2>7 DEF GoodTable, Tables
  <2>10. Live(u, i)
    BY <2>1, <2>5, <2>6, <2>7 DEF Live, Occupied
  <2>11. \A j \in 0 .. t.cap - 1 : j # i => (Live(u, j) <=> Live(t, j))
    BY <2>7 DEF Live, Occupied
  <2>12. Val(u, k) = pv
    <3>1. Holds(u, k, pv)
      BY <2>1, <2>5, <2>7, <2>9, <2>10 DEF Holds
    <3> QED BY <2>8, <3>1, ValMeans
  <2>13. ASSUME NEW h \in Keys, h # k PROVE Val(u, h) = Val(t, h)
    <3>1. \A p : Holds(u, h, p) <=> Holds(t, h, p)
      BY <2>1, <2>3, <2>5, <2>7, <2>9, <2>11, <2>13 DEF Holds
    <3> QED BY <2>8, <3>1, SameVal
  <2> QED BY <2>1, <2>2, <2>8, <2>12, <2>13 DEF r
<1> QED BY <1>1, <1>2
\* The constructor makes an empty map.
LEMMA NewSound ==
  ASSUME NEW n \in Nat, GetPrime(n) > 1
  PROVE  Sound(New(n)) /\ \A k \in Keys : Val(New(n), k) = Null
<1> DEFINE c == GetPrime(n)
           t == New(n)
<1>2. c \in Nat /\ c > 1 /\ c % 2 = 1
  <2>1. c > 1 /\ c # 0
    OBVIOUS
  <2> QED BY <2>1, NextPrime
<1>3. t = [cap |-> c, filled |-> 0, item |-> [i \in 0 .. c - 1 |-> Empty]]
  BY DEF New, Blank
<1> HIDE DEF c, t
<1>4. t \in Tables(c) /\ t.cap = c /\ t.filled = 0 /\ t.item = [i \in 0 .. c - 1 |-> Empty]
  <2>1. Empty \in Entry
    BY DEF Empty, Entry
  <2>2. [i \in 0 .. c - 1 |-> Empty] \in [0 .. c - 1 -> Entry]
    BY <2>1
  <2>3. c \in Nat \ {0} /\ 0 \in Nat
    BY <1>2
  <2>4. t.cap = c /\ t.filled = 0 /\ t.item = [i \in 0 .. c - 1 |-> Empty]
    BY <1>3
  <2>5. t \in Tables(c)
    BY <1>3, <2>2, <2>3 DEF Tables
  <2> QED BY <2>4, <2>5
<1>5. DOMAIN t.item = 0 .. c - 1 /\ \A i \in 0 .. c - 1 : ~Occupied(t, i) /\ ~Live(t, i)
  BY <1>4 DEF Occupied, Live, Empty
<1>6. Roomy(t)
  <2>1. {i \in DOMAIN t.item : Occupied(t, i)} = {}
    BY <1>5
  <2>2. t.filled = Cardinality({i \in DOMAIN t.item : Occupied(t, i)})
    BY <1>4, <2>1, FS_EmptySet, Zenon
  <2>3. 2 * t.filled <= t.cap
    BY <1>2, <1>4
  <2> QED BY <2>2, <2>3 DEF Roomy
<1>7. GoodTable(t)
  BY <1>2, <1>4, <1>5, <1>6 DEF GoodTable, Pointed
<1>8. Findable(t)
  BY <1>5 DEF Findable
<1>9. Sound(t)
  BY <1>7, <1>8 DEF Sound
<1>10. ASSUME NEW k \in Keys PROVE Val(t, k) = Null
  BY <1>4, <1>5, <1>9, ValMeans
<1> QED BY <1>9, <1>10 DEF t

==============================================================================
