---------------------------- MODULE DijkstraProofs ----------------------------
(***************************************************************************)
(* What Dijkstra.tla promises for any ids, hash values, costs and files:   *)
(* the paths are real, the heap agrees with the nodes, and the distances   *)
(* are the least ones.                                                     *)
(***************************************************************************)
EXTENDS Dijkstra, HashTableProofs

(***************************************************************************)
(* The hash table points at nothing but nodes, also after a rehash.        *)
(***************************************************************************)
PointsInto(t, P) == \A i \in DOMAIN t.item : Occupied(t, i) => t.item[i].pv \in P

LEMMA PlacePoints ==
  ASSUME NEW n \in Nat, NEW t \in Tables(n), t.cap <= n, NEW k \in Keys, NEW pv \in Pointers,
         \E i \in 0 .. t.cap - 1 : ~Occupied(t, i), NEW P, pv \in P, PointsInto(t, P)
  PROVE  /\ PointsInto(Place(t, k, pv).table, P)
         /\ Place(t, k, pv).table.filled <= t.filled + 1
<1> DEFINE r == Place(t, k, pv)
<1>1. PICK m, i \in 0 .. t.cap - 1 : Placed(n, t, k, pv, r, m, i)
  BY PlaceEffect
<1>2. t.filled \in Nat /\ t.item \in [0 .. n - 1 -> Entry]
  BY DEF Tables
<1> HIDE DEF r
<1>3. CASE r = [table |-> t, ret |-> 1]
  <2>1. r.table = t
    BY <1>3
  <2> QED BY <1>2, <2>1 DEF r
<1>4. CASE /\ r.table \in Tables(n) /\ r.table.filled = t.filled + 1
           /\ r.table.item = [t.item EXCEPT ![i] = [key |-> k, pv |-> pv, deleted |-> FALSE]]
  <2>1. \A j \in 0 .. n - 1 : r.table.item[j] = IF j = i THEN [key |-> k, pv |-> pv, deleted |-> FALSE]
                                                 ELSE t.item[j]
    BY <1>2, <1>4
  <2>2. DOMAIN r.table.item = 0 .. n - 1 /\ DOMAIN t.item = 0 .. n - 1
    BY <1>2, <1>4 DEF Tables
  <2>3. PointsInto(r.table, P)
    BY <2>1, <2>2 DEF PointsInto, Occupied
  <2> QED BY <1>2, <1>4, <2>3 DEF r
<1> QED BY <1>1, <1>3, <1>4, Zenon DEF Placed

LEMMA AgainPoints ==
  ASSUME NEW c, NEW t, GoodTable(t), GetPrime(t.cap) # 0, NEW P, PointsInto(t, P)
  PROVE  PointsInto(Again(c, t)[t.cap], P)
<1> DEFINE G(n) == /\ Filling(c, t, n, Again(c, t)[n]) /\ Refilled(c, t, n, Again(c, t)[n])
                   /\ PointsInto(Again(c, t)[n], P)
           T == {n \in Nat : n <= t.cap => G(n)}
<1>1. t.cap \in Nat /\ t.cap # 0 /\ DOMAIN t.item = 0 .. t.cap - 1
  BY GoodRoom
<1>2. /\ Again(c, t)[0] = Begun(c, t)
      /\ \A n \in 1 .. t.cap : Again(c, t)[n] = Step(t, Again(c, t)[n - 1], n)
  BY <1>1, AgainSteps
<1>3. 0 \in T
  <2>1. \A i \in DOMAIN Begun(c, t).item : ~Occupied(Begun(c, t), i)
    BY DEF Begun, Blank, Empty, Occupied
  <2>2. PointsInto(Begun(c, t), P)
    BY <2>1 DEF PointsInto
  <2> QED BY <1>2, <2>2, StartFilling
<1>4. ASSUME NEW n \in Nat, n \in T PROVE n + 1 \in T
  <2> SUFFICES ASSUME n + 1 <= t.cap PROVE G(n + 1)
    OBVIOUS
  <2> DEFINE l == n + 1
             u == Again(c, t)[l - 1]
             big == GetPrime(t.cap)
  <2>1. n <= t.cap /\ l \in 1 .. t.cap /\ l - 1 = n /\ l - 1 \in 0 .. t.cap - 1
    BY <1>1
  <2>2. Filling(c, t, l - 1, u) /\ Refilled(c, t, l - 1, u) /\ PointsInto(u, P)
    <3>1. G(n)
      BY <1>4, <2>1
    <3> QED BY <2>1, <3>1
  <2>3. Again(c, t)[l] = Step(t, u, l)
    BY <1>2, <2>1
  <2> HIDE DEF l, u
  <2>4. Filling(c, t, l, Step(t, u, l)) /\ Refilled(c, t, l, Step(t, u, l))
    BY <2>1, <2>2, StepFilling
  <2>5. PointsInto(Step(t, u, l), P)
    <3>1. CASE ~Live(t, l - 1)
      BY <2>2, <3>1 DEF Step
    <3>2. CASE Live(t, l - 1)
      <4>1. u.cap <= big /\ \E i \in 0 .. u.cap - 1 : ~Occupied(u, i)
        BY <2>1, <2>2, <3>2, StepHasRoom
      <4>2. big \in Nat /\ u \in Tables(big)
        BY <1>1, <2>2, NextPrime DEF Filling
      <4>3. t.item[l - 1].key \in Keys /\ t.item[l - 1].pv \in Pointers /\ t.item[l - 1].pv \in P
        <5>1. t.item \in [0 .. t.cap - 1 -> Entry] /\ Pointed(t)
          BY DEF GoodTable, Tables
        <5>2. Occupied(t, l - 1) /\ t.item[l - 1] \in Entry
          BY <2>1, <3>2, <5>1 DEF Live
        <5> QED BY <1>1, <2>1, <5>1, <5>2 DEF Pointed, PointsInto, Occupied, Entry
      <4> HIDE DEF big
      <4>4. PointsInto(Place(u, t.item[l - 1].key, t.item[l - 1].pv).table, P)
        BY <2>2, <4>1, <4>2, <4>3, PlacePoints
      <4> QED BY <3>2, <4>4 DEF Step
    <3> QED BY <3>1, <3>2
  <2> QED BY <2>3, <2>4, <2>5 DEF l
<1> HIDE DEF T
<1>5. Nat \subseteq T
  BY <1>3, <1>4, Induct
<1>6. t.cap \in T
  BY <1>1, <1>5
<1> QED BY <1>1, <1>6 DEF T

LEMMA RehashPoints ==
  ASSUME NEW c, NEW t, GoodTable(t), GetPrime(t.cap) # 0, NEW P, PointsInto(t, P)
  PROVE  /\ PointsInto(Rehash(c, t), P) /\ Rehash(c, t).filled <= t.filled
         /\ \E i \in 0 .. Rehash(c, t).cap - 1 : ~Occupied(Rehash(c, t), i)
<1> DEFINE v == Again(c, t)[t.cap]
           u == Rehash(c, t)
           big == GetPrime(t.cap)
<1>1. t.cap \in Nat /\ t.cap # 0 /\ t.filled \in Nat
  BY GoodRoom
<1>2. v \in Tables(big) /\ v.filled <= Cardinality(Before(t, t.cap)) /\ v.filled \in Nat
  BY AgainFilling DEF Filling, Tables
<1>3. Cardinality(Before(t, t.cap)) \in Nat /\ Cardinality(Before(t, t.cap)) <= t.filled
  <2>1. t.cap \in 1 .. t.cap
    BY <1>1
  <2> QED BY <2>1, BeforeCounts
<1>4. PointsInto(v, P)
  BY AgainPoints
<1>5. u = [v EXCEPT !.cap = big]
  BY DEF Rehash
<1>6. GoodTable(u)
  BY RehashGood
<1>7. \E i \in 0 .. u.cap - 1 : ~Occupied(u, i)
  BY <1>6, GoodRoom
<1> HIDE DEF u, v, big
<1>8. u.item = v.item /\ u.filled = v.filled
  BY <1>2, <1>5 DEF Tables
<1>9. PointsInto(u, P)
  BY <1>4, <1>8 DEF PointsInto, Occupied
<1>10. u.filled <= t.filled
  BY <1>1, <1>2, <1>3, <1>8
<1> QED BY <1>7, <1>9, <1>10 DEF u

\* insert, with memory or without
LEMMA InsertPoints ==
  ASSUME NEW t, GoodTable(t), NEW k \in Keys, NEW pv \in Pointers, NEW memory \in BOOLEAN,
         Crowded(t) => GetPrime(t.cap) # 0, NEW P, pv \in P, PointsInto(t, P)
  PROVE  LET u == Insert("heap", t, k, pv, memory).table
         IN  GoodTable(u) /\ PointsInto(u, P) /\ u.filled <= t.filled + 1
<1> DEFINE u == Insert("heap", t, k, pv, memory).table
<1>1. t.filled \in Nat /\ \E i \in 0 .. t.cap - 1 : ~Occupied(t, i)
  BY GoodRoom
<1>2. CASE ~Crowded(t)
  <2>1. u = Place(t, k, pv).table
    BY <1>2 DEF Insert
  <2>2. GoodTable(u)
    BY <1>2, InsertCall
  <2>3. PointsInto(Place(t, k, pv).table, P) /\ Place(t, k, pv).table.filled <= t.filled + 1
    <3>1. t \in Tables(t.cap) /\ t.cap \in Nat /\ t.cap <= t.cap
      BY GoodRoom DEF GoodTable
    <3> QED BY <1>1, <3>1, PlacePoints
  <2> QED BY <2>1, <2>2, <2>3
<1>3. CASE Crowded(t) /\ memory
  <2> DEFINE s == Rehash("heap", t)
  <2>1. u = Place(s, k, pv).table
    BY <1>3 DEF Insert
  <2>2. GoodTable(u)
    BY <1>3, InsertCall
  <2>3. /\ PointsInto(s, P) /\ s.filled <= t.filled
        /\ \E i \in 0 .. s.cap - 1 : ~Occupied(s, i)
    BY <1>3, RehashPoints
  <2>4. GoodTable(s)
    BY <1>3, RehashGood
  <2> HIDE DEF s
  <2>5. s \in Tables(s.cap) /\ s.cap \in Nat /\ s.cap <= s.cap /\ s.filled \in Nat
    BY <2>4, GoodRoom DEF GoodTable
  <2>6. PointsInto(Place(s, k, pv).table, P) /\ Place(s, k, pv).table.filled <= s.filled + 1
    BY <2>3, <2>5, PlacePoints
  <2>7. Place(s, k, pv).table.filled \in Nat
    BY <2>1, <2>2, GoodRoom
  <2> QED BY <1>1, <2>1, <2>2, <2>3, <2>5, <2>6, <2>7
<1>4. CASE Crowded(t) /\ ~memory
  <2>1. u = t
    BY <1>4 DEF Insert, NoMemory
  <2> QED BY <1>1, <2>1
<1> QED BY <1>2, <1>3, <1>4

\* A crowded table has a successor in the list of primes.
LEMMA PrimesSuffice ==
  ASSUME NEW t, GoodTable(t), t.filled <= 2 * MaxEdges, Crowded(t)
  PROVE  GetPrime(t.cap) # 0
<1> DEFINE c == t.cap
           f == t.filled
           M == 4 * MaxEdges + 1
<1>1. c \in Nat /\ f \in Nat /\ f >= c \div 2 /\ f <= 2 * MaxEdges /\ MaxEdges \in Nat
  BY GoodRoom, CostAssumption DEF Crowded
<1> HIDE DEF c, f
<1>2. c <= 2 * f + 1
  BY <1>1
<1>3. M \in Nat /\ c <= M
  BY <1>1, <1>2
<1>4. GetPrime(M) # 0
  BY TableAssumption
<1> HIDE DEF M
<1>5. PICK i \in DOMAIN Primes : Primes[i] > M
  BY <1>4 DEF GetPrime
<1>6. Primes[i] \in Nat
  BY PrimeAssumption
<1>7. Primes[i] > c
  BY <1>1, <1>3, <1>5, <1>6
<1>8. c \in Nat
  BY <1>1
<1>9. GetPrime(c) # 0
  <2> DEFINE Q(x) == Primes[x] > c /\ \A k \in 1 .. x - 1 : Primes[k] <= c
  <2>1. \E x \in DOMAIN Primes : Q(x)
    <3> DEFINE W == {x \in DOMAIN Primes : Primes[x] > c}
    <3>1. DOMAIN Primes = 1 .. Len(Primes) /\ Len(Primes) \in Nat /\ \A x \in DOMAIN Primes : Primes[x] \in Nat
      BY PrimeAssumption
    <3>2. W \in SUBSET Nat /\ W # {}
      BY <1>7, <3>1
    <3>3. PICK x \in W : \A y \in W : x <= y
      <4> HIDE DEF W
      <4> QED BY <3>2, Least
    <3>4. x \in 1 .. Len(Primes) /\ Primes[x] > c
      BY <3>1
    <3>5. ASSUME NEW k \in 1 .. x - 1, ~(Primes[k] <= c) PROVE FALSE
      <4>1. k \in 1 .. Len(Primes)
        BY <3>1, <3>4
      <4>2. k \in W
        BY <1>8, <3>1, <3>5, <4>1
      <4> HIDE DEF W
      <4>3. x <= k
        BY <3>3, <4>2
      <4> QED BY <3>4, <4>3
    <3> QED BY <3>1, <3>4, <3>5
  <2>2. GetPrime(c) = Primes[CHOOSE x \in DOMAIN Primes : Q(x)]
    BY <1>5, <1>7 DEF GetPrime
  <2> HIDE DEF Q
  <2>3. PICK x \in DOMAIN Primes : GetPrime(c) = Primes[x]
    BY <2>1, <2>2
  <2>4. Primes[x] \in Nat \ {0}
    BY PrimeAssumption
  <2> QED BY <2>3, <2>4
<1> QED BY <1>9 DEF c

(***************************************************************************)
(* The nodes.                                                              *)
(***************************************************************************)
EdgeType == [dest : Nat, cost : Costs]
NodeType == [id : Keys, edges : Seq(EdgeType), dist : Nat, known : BOOLEAN, prev : Nat \cup {Null}]

EdgesOf(ns, n) == {ns[n].edges[i] : i \in DOMAIN ns[n].edges}

\* Every edge leads to a node.
Inside(ns) == \A n \in DOMAIN ns : \A e \in EdgesOf(ns, n) : e.dest \in DOMAIN ns

\* The hash table that goes with the nodes.
TableFor(ns, t) == GoodTable(t) /\ PointsInto(t, DOMAIN ns) /\ t.filled <= Len(ns)

\* Without a rehash it knows the first node of each id.
Named(ns, t) == /\ Findable(t)
                /\ \A v \in Keys : \/ Val(t, v) = Null /\ \A n \in DOMAIN ns : ns[n].id # v
                                   \/ Val(t, v) \in Firsts(ns) /\ ns[Val(t, v)].id = v

LEMMA NodeAt ==
  ASSUME NEW ns \in Seq(NodeType)
  PROVE  /\ DOMAIN ns = 1 .. Len(ns) /\ Len(ns) \in Nat
         /\ \A n \in DOMAIN ns :
               /\ n \in Nat /\ ns[n] \in NodeType
               /\ ns[n].id \in Keys /\ ns[n].dist \in Nat /\ ns[n].known \in BOOLEAN
               /\ ns[n].prev \in Nat \cup {Null} /\ ns[n].edges \in Seq(EdgeType)
               /\ DOMAIN ns[n].edges = 1 .. Len(ns[n].edges) /\ Len(ns[n].edges) \in Nat
               /\ \A i \in DOMAIN ns[n].edges :
                     /\ ns[n].edges[i] \in EdgeType
                     /\ ns[n].edges[i].dest \in Nat /\ ns[n].edges[i].cost \in Costs
<1>1. DOMAIN ns = 1 .. Len(ns) /\ Len(ns) \in Nat /\ \A n \in DOMAIN ns : ns[n] \in NodeType /\ n \in Nat
  OBVIOUS
<1>2. \A x \in NodeType : /\ x.id \in Keys /\ x.dist \in Nat /\ x.known \in BOOLEAN
                          /\ x.prev \in Nat \cup {Null} /\ x.edges \in Seq(EdgeType)
  BY DEF NodeType
<1>3. \A es \in Seq(EdgeType) : /\ DOMAIN es = 1 .. Len(es) /\ Len(es) \in Nat
                                /\ \A i \in DOMAIN es : es[i] \in EdgeType
  OBVIOUS
<1>4. \A e \in EdgeType : e.dest \in Nat /\ e.cost \in Costs
  BY DEF EdgeType
<1>5. ASSUME NEW n \in DOMAIN ns
      PROVE  /\ ns[n].id \in Keys /\ ns[n].dist \in Nat /\ ns[n].known \in BOOLEAN
             /\ ns[n].prev \in Nat \cup {Null} /\ ns[n].edges \in Seq(EdgeType)
  BY <1>1, <1>2
<1>6. ASSUME NEW n \in DOMAIN ns
      PROVE  /\ DOMAIN ns[n].edges = 1 .. Len(ns[n].edges) /\ Len(ns[n].edges) \in Nat
             /\ \A i \in DOMAIN ns[n].edges :
                   /\ ns[n].edges[i] \in EdgeType
                   /\ ns[n].edges[i].dest \in Nat /\ ns[n].edges[i].cost \in Costs
  BY <1>3, <1>4, <1>5
<1> QED BY <1>1, <1>5, <1>6

\* Of two first nodes with one id there is only one.
LEMMA FirstsOnly ==
  ASSUME NEW ns \in Seq(NodeType), NEW m \in Firsts(ns), NEW n \in Firsts(ns), ns[m].id = ns[n].id
  PROVE  m = n
<1>1. m \in Nat /\ n \in Nat /\ m >= 1 /\ n >= 1
  BY DEF Firsts
<1>2. ~(m < n)
  BY <1>1 DEF Firsts
<1>3. ~(n < m)
  BY <1>1 DEF Firsts
<1> QED BY <1>1, <1>2, <1>3

\* Nodes that have the same ids have the same first ones.
LEMMA FirstsSame ==
  ASSUME NEW ns \in Seq(NodeType), NEW ms \in Seq(NodeType), DOMAIN ns = DOMAIN ms,
         \A n \in DOMAIN ns : ns[n].id = ms[n].id
  PROVE  Firsts(ns) = Firsts(ms)
<1>1. DOMAIN ns = 1 .. Len(ns) /\ Len(ns) \in Nat
  OBVIOUS
<1>2. \A n \in DOMAIN ns : \A m \in 1 .. n - 1 : m \in DOMAIN ns
  BY <1>1
<1>3. \A n \in DOMAIN ns : (\A m \in 1 .. n - 1 : ns[m].id # ns[n].id)
                              <=> (\A m \in 1 .. n - 1 : ms[m].id # ms[n].id)
  BY <1>2
<1> QED BY <1>3 DEF Firsts

\* getPointer finds a node or nothing.
LEMMA FoundIs ==
  ASSUME NEW ns, NEW t, TableFor(ns, t), NEW v \in Keys
  PROVE  Val(t, v) = Null \/ Val(t, v) \in DOMAIN ns
<1>1. /\ t.cap \in Nat /\ DOMAIN t.item = 0 .. t.cap - 1 /\ t \in Tables(t.cap)
      /\ \E j \in 0 .. t.cap - 1 : ~Occupied(t, j)
  BY GoodRoom DEF TableFor, GoodTable
<1>2. PICK m \in 0 .. t.cap - 1 : EndsAfter(t, v, m) /\ Stop(t, v) = Probe(t, v, m)
  BY <1>1, StopThere
<1>3. Stop(t, v) \in 0 .. t.cap - 1
  BY <1>1, <1>2, ProbeRange
<1>4. CASE Occupied(t, Stop(t, v))
  <2>1. FindPos(t, v) = Stop(t, v) /\ FindPos(t, v) # -1
    BY <1>1, <1>3, <1>4 DEF FindPos
  <2>2. Val(t, v) = t.item[Stop(t, v)].pv
    BY <2>1 DEF Val, GetPointer
  <2> QED BY <1>1, <1>3, <1>4, <2>2 DEF TableFor, PointsInto
<1>5. CASE ~Occupied(t, Stop(t, v))
  <2>1. FindPos(t, v) = -1
    BY <1>5 DEF FindPos
  <2> QED BY <2>1 DEF Val, GetPointer
<1> QED BY <1>4, <1>5

\* One more node at the end.
LEMMA AppendIs ==
  ASSUME NEW ns \in Seq(NodeType), NEW x \in NodeType
  PROVE  /\ Append(ns, x) \in Seq(NodeType)
         /\ Len(Append(ns, x)) = Len(ns) + 1
         /\ DOMAIN Append(ns, x) = DOMAIN ns \cup {Len(ns) + 1}
         /\ Len(ns) + 1 \notin DOMAIN ns
         /\ \A m \in DOMAIN ns : Append(ns, x)[m] = ns[m]
         /\ Append(ns, x)[Len(ns) + 1] = x
         /\ \A m \in DOMAIN ns : m \in Firsts(Append(ns, x)) <=> m \in Firsts(ns)
         /\ Len(ns) + 1 \in Firsts(Append(ns, x)) <=> \A m \in DOMAIN ns : ns[m].id # x.id
<1> DEFINE ms == Append(ns, x)
<1>1. /\ ms \in Seq(NodeType) /\ Len(ms) = Len(ns) + 1 /\ Len(ns) \in Nat
      /\ DOMAIN ns = 1 .. Len(ns) /\ DOMAIN ms = 1 .. Len(ns) + 1
      /\ \A m \in 1 .. Len(ns) : ms[m] = ns[m]
      /\ ms[Len(ns) + 1] = x
  OBVIOUS
<1> HIDE DEF ms
<1>2. DOMAIN ms = DOMAIN ns \cup {Len(ns) + 1} /\ Len(ns) + 1 \notin DOMAIN ns
  BY <1>1
<1>3. ASSUME NEW m \in DOMAIN ns PROVE m \in Firsts(ms) <=> m \in Firsts(ns)
  <2>1. \A l \in 1 .. m - 1 : l \in 1 .. Len(ns)
    BY <1>1
  <2>2. m \in 1 .. Len(ns)
    BY <1>1
  <2> QED BY <1>1, <1>2, <2>1, <2>2 DEF Firsts
<1>4. Len(ns) + 1 \in Firsts(ms) <=> \A m \in DOMAIN ns : ns[m].id # x.id
  <2>1. 1 .. (Len(ns) + 1) - 1 = DOMAIN ns
    BY <1>1
  <2> QED BY <1>1, <1>2, <2>1 DEF Firsts
<1> QED BY <1>1, <1>2, <1>3, <1>4 DEF ms

LEMMA NewNodeIs ==
  ASSUME NEW v \in Keys
  PROVE  /\ NewNode(v) \in NodeType
         /\ NewNode(v).id = v /\ NewNode(v).edges = <<>> /\ NewNode(v).dist = MAX
         /\ NewNode(v).known = FALSE /\ NewNode(v).prev = Null
<1>1. <<>> \in Seq(EdgeType) /\ MAX \in Nat
  BY CostAssumption
<1> QED BY <1>1 DEF NewNode, NodeType

\* A new node: the table knows it unless its id has a node already.
LEMMA AddEffect ==
  ASSUME NEW ns \in Seq(NodeType), NEW t, TableFor(ns, t), NEW grew, Len(ns) < 2 * MaxEdges,
         NEW v \in Keys, NEW memory \in BOOLEAN, NEW r,
         r = Add([nodes |-> ns, mapping |-> t, grown |-> grew], v, memory)
  PROVE  /\ r.nodes = Append(ns, NewNode(v))
         /\ TableFor(r.nodes, r.mapping)
         /\ r.grown = (grew \/ Crowded(t))
         /\ ~Crowded(t) /\ Named(ns, t) => Named(r.nodes, r.mapping)
<1> DEFINE ms == Append(ns, NewNode(v))
           u == Insert("heap", t, v, Len(ns) + 1, memory).table
           new == Len(ns) + 1
<1>1. r = [nodes |-> ms, mapping |-> u, grown |-> grew \/ Crowded(t)]
  BY DEF Add
<1>2. r.nodes = ms /\ r.mapping = u /\ r.grown = (grew \/ Crowded(t))
  BY <1>1
<1>3. Len(ns) \in Nat /\ MaxEdges \in Nat /\ new \in 1 .. 2 * MaxEdges /\ new \in Nat
  <2>1. Len(ns) \in Nat /\ MaxEdges \in Nat
    BY CostAssumption
  <2> QED BY <2>1
<1>4. new \in Pointers
  BY <1>3, CostAssumption
<1>5. GoodTable(t) /\ PointsInto(t, DOMAIN ns) /\ t.filled <= Len(ns) /\ t.filled \in Nat
  BY GoodRoom DEF TableFor
<1>6. Crowded(t) => GetPrime(t.cap) # 0
  <2>1. t.filled <= 2 * MaxEdges
    BY <1>3, <1>5
  <2> QED BY <1>5, <2>1, PrimesSuffice
<1>7. /\ ms \in Seq(NodeType) /\ Len(ms) = Len(ns) + 1
      /\ DOMAIN ms = DOMAIN ns \cup {new} /\ new \notin DOMAIN ns
      /\ \A m \in DOMAIN ns : ms[m] = ns[m]
      /\ ms[new] = NewNode(v) /\ NewNode(v).id = v
      /\ \A m \in DOMAIN ns : m \in Firsts(ms) <=> m \in Firsts(ns)
      /\ new \in Firsts(ms) <=> \A m \in DOMAIN ns : ns[m].id # v
  <2> DEFINE x == NewNode(v)
  <2>1. x \in NodeType /\ x.id = v
    BY NewNodeIs
  <2> HIDE DEF x
  <2>2. /\ Append(ns, x) \in Seq(NodeType)
        /\ Len(Append(ns, x)) = Len(ns) + 1
        /\ DOMAIN Append(ns, x) = DOMAIN ns \cup {Len(ns) + 1}
        /\ Len(ns) + 1 \notin DOMAIN ns
        /\ \A m \in DOMAIN ns : Append(ns, x)[m] = ns[m]
        /\ Append(ns, x)[Len(ns) + 1] = x
        /\ \A m \in DOMAIN ns : m \in Firsts(Append(ns, x)) <=> m \in Firsts(ns)
        /\ Len(ns) + 1 \in Firsts(Append(ns, x)) <=> \A m \in DOMAIN ns : ns[m].id # x.id
    BY <2>1, AppendIs
  <2>3. ms = Append(ns, x)
    BY DEF x
  <2> HIDE DEF ms
  <2>4. NewNode(v) = x
    BY DEF x
  <2> QED BY <2>1, <2>2, <2>3, <2>4
<1> HIDE DEF ms
<1>8. GoodTable(u) /\ PointsInto(u, DOMAIN ms) /\ u.filled <= t.filled + 1 /\ u.filled \in Nat
  <2>1. PointsInto(t, DOMAIN ms) /\ new \in DOMAIN ms
    BY <1>5, <1>7 DEF PointsInto
  <2> HIDE DEF new
  <2>2. LET w == Insert("heap", t, v, new, memory).table
        IN  GoodTable(w) /\ PointsInto(w, DOMAIN ms) /\ w.filled <= t.filled + 1
    BY <1>4, <1>5, <1>6, <2>1, InsertPoints
  <2> QED BY <2>2, GoodRoom DEF new
<1>9. TableFor(ms, u)
  BY <1>3, <1>5, <1>7, <1>8 DEF TableFor
<1>10. ASSUME ~Crowded(t), Named(ns, t) PROVE Named(ms, u)
  <2> HIDE DEF new
  <2> DEFINE w == Insert("heap", t, v, new, memory).table
  <2>1. /\ Findable(w)
        /\ \/ Val(t, v) # Null /\ \A h \in Keys : Val(w, h) = Val(t, h)
           \/ Val(t, v) = Null /\ \A h \in Keys : Val(w, h) = IF h = v THEN new ELSE Val(t, h)
    BY <1>4, <1>5, <1>10, InsertCall DEF Named
  <2>2. w = u
    BY DEF new
  <2> HIDE DEF w, u
  <2>3. ASSUME NEW h \in Keys
        PROVE  \/ Val(u, h) = Null /\ \A n \in DOMAIN ms : ms[n].id # h
               \/ Val(u, h) \in Firsts(ms) /\ ms[Val(u, h)].id = h
    <3>0. Firsts(ns) \subseteq DOMAIN ns
      BY DEF Firsts
    <3>1. \/ Val(t, h) = Null /\ \A n \in DOMAIN ns : ns[n].id # h
          \/ Val(t, h) \in Firsts(ns) /\ ns[Val(t, h)].id = h
      BY <1>10 DEF Named
    <3>2. \/ Val(t, v) = Null /\ \A n \in DOMAIN ns : ns[n].id # v
          \/ Val(t, v) \in Firsts(ns) /\ ns[Val(t, v)].id = v
      BY <1>10 DEF Named
    <3>3. CASE Val(t, v) # Null /\ \A x \in Keys : Val(w, x) = Val(t, x)
      <4>1. Val(u, h) = Val(t, h)
        BY <2>2, <3>3
      <4>2. CASE Val(t, h) = Null /\ \A n \in DOMAIN ns : ns[n].id # h
        <5>1. h # v
          BY <3>3, <4>2
        <5> QED BY <1>7, <4>1, <4>2, <5>1
      <4>3. CASE Val(t, h) \in Firsts(ns) /\ ns[Val(t, h)].id = h
        BY <1>7, <3>0, <4>1, <4>3
      <4> QED BY <3>1, <4>2, <4>3
    <3>4. CASE Val(t, v) = Null /\ \A x \in Keys : Val(w, x) = IF x = v THEN new ELSE Val(t, x)
      <4>1. Val(u, h) = IF h = v THEN new ELSE Val(t, h)
        BY <2>2, <3>4
      <4>2. CASE h = v
        <5>1. \A n \in DOMAIN ns : ns[n].id # v
          <6>1. ~(Val(t, v) \in Firsts(ns))
            <7>1. \A n \in DOMAIN ns : n \in Pointers
              <8>1. DOMAIN ns = 1 .. Len(ns)
                OBVIOUS
              <8>2. \A n \in DOMAIN ns : n \in 1 .. 2 * MaxEdges
                BY <1>3, <8>1
              <8> QED BY <8>2, CostAssumption
            <7> QED BY <3>0, <3>4, <7>1, PointerAssumption
          <6> QED BY <3>2, <6>1
        <5> QED BY <1>7, <4>1, <4>2, <5>1
      <4>3. CASE h # v /\ Val(t, h) = Null /\ \A n \in DOMAIN ns : ns[n].id # h
        BY <1>7, <4>1, <4>3
      <4>4. CASE h # v /\ Val(t, h) \in Firsts(ns) /\ ns[Val(t, h)].id = h
        BY <1>7, <3>0, <4>1, <4>4
      <4> QED BY <3>1, <4>2, <4>3, <4>4
    <3> QED BY <2>1, <3>3, <3>4
  <2> QED BY <2>1, <2>2, <2>3 DEF Named
<1> HIDE DEF u
<1> QED BY <1>2, <1>9, <1>10 DEF ms

\* One more edge of node s.
EdgeAdded(ns, s, e) == [ns EXCEPT ![s].edges = Append(@, e)]

LEMMA EdgeAddedIs ==
  ASSUME NEW ns \in Seq(NodeType), NEW s \in DOMAIN ns, NEW e \in EdgeType, NEW ms,
         ms = EdgeAdded(ns, s, e)
  PROVE  /\ ms \in Seq(NodeType) /\ DOMAIN ms = DOMAIN ns /\ Len(ms) = Len(ns)
         /\ \A n \in DOMAIN ns : /\ ms[n].id = ns[n].id /\ ms[n].dist = ns[n].dist
                                 /\ ms[n].known = ns[n].known /\ ms[n].prev = ns[n].prev
                                 /\ n # s => EdgesOf(ms, n) = EdgesOf(ns, n)
         /\ EdgesOf(ms, s) = EdgesOf(ns, s) \cup {e}
<1> DEFINE x == [ns[s] EXCEPT !.edges = Append(@, e)]
           es == ns[s].edges
           fs == Append(es, e)
<1>1. ns[s] \in NodeType /\ es \in Seq(EdgeType)
  BY NodeAt
<1>2. /\ fs \in Seq(EdgeType) /\ DOMAIN fs = DOMAIN es \cup {Len(es) + 1}
      /\ \A i \in DOMAIN es : fs[i] = es[i]
      /\ fs[Len(es) + 1] = e
  <2> HIDE DEF es
  <2> QED BY <1>1
<1>3. x \in NodeType /\ x.edges = fs /\ x.id = ns[s].id /\ x.dist = ns[s].dist
      /\ x.known = ns[s].known /\ x.prev = ns[s].prev
  <2>1. x = [ns[s] EXCEPT !.edges = fs]
    OBVIOUS
  <2> HIDE DEF fs, x
  <2> QED BY <1>1, <1>2, <2>1 DEF NodeType
<1>4. ms = [ns EXCEPT ![s] = x]
  BY DEF EdgeAdded
<1> HIDE DEF x
<1>5. /\ ms \in Seq(NodeType) /\ DOMAIN ms = DOMAIN ns /\ Len(ms) = Len(ns)
      /\ \A n \in DOMAIN ns : ms[n] = IF n = s THEN x ELSE ns[n]
  BY <1>3, <1>4
<1>6. EdgesOf(ms, s) = EdgesOf(ns, s) \cup {e}
  <2>1. ms[s].edges = fs
    BY <1>3, <1>5
  <2>2. EdgesOf(ms, s) = {fs[i] : i \in DOMAIN fs}
    BY <2>1 DEF EdgesOf
  <2>3. EdgesOf(ns, s) = {es[i] : i \in DOMAIN es}
    BY DEF EdgesOf
  <2> HIDE DEF fs, es
  <2>4. {fs[i] : i \in DOMAIN fs} = {es[i] : i \in DOMAIN es} \cup {e}
    BY <1>2
  <2> QED BY <2>2, <2>3, <2>4
<1>7. ASSUME NEW n \in DOMAIN ns
      PROVE  /\ ms[n].id = ns[n].id /\ ms[n].dist = ns[n].dist
             /\ ms[n].known = ns[n].known /\ ms[n].prev = ns[n].prev
             /\ n # s => EdgesOf(ms, n) = EdgesOf(ns, n)
  BY <1>3, <1>5 DEF EdgesOf
<1> QED BY <1>5, <1>6, <1>7

\* What there was before stays, and what is new has no edges and no distance.
Extends(ns, ks) == /\ ks \in Seq(NodeType) /\ DOMAIN ns \subseteq DOMAIN ks
                   /\ \A m \in DOMAIN ns : /\ ks[m] = ns[m]
                                           /\ m \in Firsts(ks) <=> m \in Firsts(ns)
                   /\ \A m \in DOMAIN ks \ DOMAIN ns : ks[m] = NewNode(ks[m].id)

\* The two ends of an edge, looked up before a node is created.
EndsAre(ks, from, to, s, t) == /\ s \in Firsts(ks) /\ ks[s].id = from
                               /\ ks[t].id = to /\ (t \in Firsts(ks) \/ to = from)

LEMMA ExtendsOne ==
  ASSUME NEW ns \in Seq(NodeType), NEW v \in Keys, NEW ks, ks = Append(ns, NewNode(v))
  PROVE  /\ Extends(ns, ks) /\ Len(ks) = Len(ns) + 1 /\ DOMAIN ks = DOMAIN ns \cup {Len(ks)}
         /\ Len(ks) \notin DOMAIN ns /\ ks[Len(ks)].id = v
         /\ Len(ks) \in Firsts(ks) <=> \A m \in DOMAIN ns : ns[m].id # v
<1> DEFINE x == NewNode(v)
<1>1. x \in NodeType /\ x.id = v
  BY NewNodeIs
<1> HIDE DEF x
<1>2. /\ Append(ns, x) \in Seq(NodeType)
      /\ Len(Append(ns, x)) = Len(ns) + 1
      /\ DOMAIN Append(ns, x) = DOMAIN ns \cup {Len(ns) + 1}
      /\ Len(ns) + 1 \notin DOMAIN ns
      /\ \A m \in DOMAIN ns : Append(ns, x)[m] = ns[m]
      /\ Append(ns, x)[Len(ns) + 1] = x
      /\ \A m \in DOMAIN ns : m \in Firsts(Append(ns, x)) <=> m \in Firsts(ns)
      /\ Len(ns) + 1 \in Firsts(Append(ns, x)) <=> \A m \in DOMAIN ns : ns[m].id # x.id
  BY <1>1, AppendIs
<1>3. ks = Append(ns, x)
  BY DEF x
<1>4. ks[Len(ks)] = NewNode(ks[Len(ks)].id) /\ ks[Len(ks)].id = v
  <2>1. ks[Len(ks)] = x
    BY <1>2, <1>3
  <2> QED BY <1>1, <2>1 DEF x
<1>5. /\ ks \in Seq(NodeType) /\ Len(ks) = Len(ns) + 1 /\ DOMAIN ks = DOMAIN ns \cup {Len(ks)}
      /\ Len(ks) \notin DOMAIN ns
      /\ \A m \in DOMAIN ns : ks[m] = ns[m] /\ (m \in Firsts(ks) <=> m \in Firsts(ns))
      /\ Len(ks) \in Firsts(ks) <=> \A m \in DOMAIN ns : ns[m].id # v
  BY <1>1, <1>2, <1>3
<1>6. \A m \in DOMAIN ks \ DOMAIN ns : m = Len(ks)
  BY <1>5
<1> QED BY <1>4, <1>5, <1>6 DEF Extends

LEMMA ExtendsSelf ==
  ASSUME NEW ns \in Seq(NodeType)
  PROVE  Extends(ns, ns)
BY DEF Extends

LEMMA ExtendsTwice ==
  ASSUME NEW ns, NEW hs, NEW ks, Extends(ns, hs), Extends(hs, ks)
  PROVE  Extends(ns, ks)
<1>1. \A m \in DOMAIN ns : m \in DOMAIN hs /\ ks[m] = ns[m] /\ (m \in Firsts(ks) <=> m \in Firsts(ns))
  BY DEF Extends
<1>2. ASSUME NEW m \in DOMAIN ks \ DOMAIN ns PROVE ks[m] = NewNode(ks[m].id)
  <2>1. CASE m \in DOMAIN hs
    BY <1>2, <2>1 DEF Extends
  <2>2. CASE m \notin DOMAIN hs
    BY <1>2, <2>2 DEF Extends
  <2> QED BY <2>1, <2>2
<1> QED BY <1>1, <1>2 DEF Extends

\* One line of the file.
LEMMA InsertEffect ==
  ASSUME nodes \in Seq(NodeType), TableFor(nodes, mapping), Len(nodes) + 2 <= 2 * MaxEdges,
         grown \in BOOLEAN,
         NEW from \in Keys, NEW to \in Keys, NEW cost \in Costs, NEW memory \in BOOLEAN,
         InsertEdge(from, to, cost, memory)
  PROVE  \E ks : \E s, t \in DOMAIN ks :
            /\ Extends(nodes, ks) /\ Len(ks) <= Len(nodes) + 2
            /\ nodes' = EdgeAdded(ks, s, [dest |-> t, cost |-> cost])
            /\ TableFor(ks, mapping')
            /\ grown' \in BOOLEAN
            /\ ~grown' => ~grown
            /\ ~grown' /\ Named(nodes, mapping) =>
                  Named(ks, mapping') /\ EndsAre(ks, from, to, s, t)
<1> DEFINE b == FindNode(from)
           d == FindNode(to)
           g == [nodes |-> nodes, mapping |-> mapping, grown |-> grown]
           h == IF b = Null THEN Add(g, from, memory) ELSE g
           k == IF d = Null THEN Add(h, to, memory) ELSE h
           s == IF b = Null THEN Len(h.nodes) ELSE b
           t == IF d = Null THEN Len(k.nodes) ELSE d
<1>1. /\ nodes' = [k.nodes EXCEPT ![s].edges = Append(@, [dest |-> t, cost |-> cost])]
      /\ mapping' = k.mapping
      /\ grown' = k.grown
  BY DEF InsertEdge
<1>2. /\ b = Val(mapping, from) /\ (b = Null \/ b \in DOMAIN nodes)
      /\ d = Val(mapping, to) /\ (d = Null \/ d \in DOMAIN nodes)
  BY FoundIs DEF FindNode, Val
<1>3. Len(nodes) \in Nat /\ MaxEdges \in Nat /\ DOMAIN nodes = 1 .. Len(nodes)
  BY CostAssumption
<1>4. Null \notin DOMAIN nodes
  <2>1. DOMAIN nodes \subseteq 1 .. 2 * MaxEdges
    BY <1>3
  <2> QED BY <2>1, CostAssumption, PointerAssumption
<1> DEFINE Known(v, x) == \/ x = Null /\ \A n \in DOMAIN nodes : nodes[n].id # v
                          \/ x # Null /\ x \in Firsts(nodes) /\ nodes[x].id = v
<1>5. Named(nodes, mapping) => Known(from, b) /\ Known(to, d)
  BY <1>2, <1>4 DEF Named, Firsts
<1> HIDE DEF b, d
<1>6. /\ Extends(nodes, h.nodes) /\ Len(h.nodes) <= Len(nodes) + 1 /\ Len(h.nodes) \in Nat
      /\ TableFor(h.nodes, h.mapping) /\ s \in DOMAIN h.nodes
      /\ h.grown \in BOOLEAN /\ (~h.grown => ~grown)
      /\ ~h.grown /\ Named(nodes, mapping) =>
            /\ Named(h.nodes, h.mapping) /\ s \in Firsts(h.nodes) /\ h.nodes[s].id = from
            /\ \A m \in DOMAIN h.nodes : m \in DOMAIN nodes \/ h.nodes[m].id = from
  <2>1. CASE b = Null
    <3>1. h = Add(g, from, memory) /\ s = Len(h.nodes)
      BY <2>1
    <3> HIDE DEF h, s
    <3>2. /\ h.nodes = Append(nodes, NewNode(from)) /\ TableFor(h.nodes, h.mapping)
          /\ h.grown = (grown \/ Crowded(mapping))
          /\ ~Crowded(mapping) /\ Named(nodes, mapping) => Named(h.nodes, h.mapping)
      <4>1. Len(nodes) < 2 * MaxEdges
        BY <1>3
      <4> QED BY <3>1, <4>1, AddEffect
    <3> DEFINE hs == h.nodes
    <3>3. hs = Append(nodes, NewNode(from))
      BY <3>2
    <3> HIDE DEF hs
    <3>4. /\ Extends(nodes, hs) /\ Len(hs) = Len(nodes) + 1 /\ DOMAIN hs = DOMAIN nodes \cup {Len(hs)}
          /\ Len(hs) \notin DOMAIN nodes /\ hs[Len(hs)].id = from
          /\ Len(hs) \in Firsts(hs) <=> \A m \in DOMAIN nodes : nodes[m].id # from
      BY <3>3, ExtendsOne
    <3>5. Named(nodes, mapping) => \A m \in DOMAIN nodes : nodes[m].id # from
      BY <1>5, <2>1
    <3>6. Crowded(mapping) \in BOOLEAN
      BY DEF Crowded
    <3>7. h.grown \in BOOLEAN /\ (~h.grown => ~grown /\ ~Crowded(mapping))
      BY <3>2, <3>6
    <3>8. s = Len(hs)
      BY <3>1 DEF hs
    <3>9. /\ Extends(nodes, hs) /\ Len(hs) <= Len(nodes) + 1 /\ Len(hs) \in Nat /\ s \in DOMAIN hs
      BY <1>3, <3>4, <3>8
    <3>10. TableFor(hs, h.mapping) /\ (~h.grown /\ Named(nodes, mapping) => Named(hs, h.mapping))
      BY <3>2, <3>7 DEF hs
    <3>11. Named(nodes, mapping) => /\ s \in Firsts(hs) /\ hs[s].id = from
                                    /\ \A m \in DOMAIN hs : m \in DOMAIN nodes \/ hs[m].id = from
      BY <3>4, <3>5, <3>8
    <3> QED BY <3>7, <3>9, <3>10, <3>11 DEF hs
  <2>2. CASE b # Null
    <3>1. h = g /\ s = b
      BY <2>2
    <3>2. h.nodes = nodes /\ h.mapping = mapping /\ h.grown = grown
      BY <3>1
    <3> HIDE DEF h, s
    <3>3. Extends(nodes, h.nodes)
      BY <3>2, ExtendsSelf
    <3>4. Named(nodes, mapping) => b \in Firsts(nodes) /\ nodes[b].id = from
      BY <1>5, <2>2
    <3> QED BY <1>2, <1>3, <2>2, <3>1, <3>2, <3>3, <3>4
  <2> QED BY <2>1, <2>2
<1> DEFINE hs == h.nodes
           ks == k.nodes
<1>7. hs \in Seq(NodeType)
  BY <1>6 DEF Extends
<1>8. /\ Extends(hs, ks) /\ Len(ks) <= Len(hs) + 1
      /\ TableFor(ks, k.mapping) /\ t \in DOMAIN ks
      /\ k.grown \in BOOLEAN /\ (~k.grown => ~h.grown)
      /\ ~k.grown /\ Named(nodes, mapping) =>
            Named(ks, k.mapping) /\ ks[t].id = to /\ (t \in Firsts(ks) \/ to = from)
  <2>1. CASE d = Null
    <3>1. k = Add(h, to, memory) /\ t = Len(k.nodes)
      BY <2>1
    <3>2. h = [nodes |-> hs, mapping |-> h.mapping, grown |-> h.grown]
      <4>1. CASE b = Null
        BY <4>1 DEF Add
      <4>2. CASE b # Null
        BY <4>2
      <4> QED BY <4>1, <4>2
    <3> DEFINE hm == h.mapping
               hg == h.grown
    <3>3. k = Add([nodes |-> hs, mapping |-> hm, grown |-> hg], to, memory)
      BY <3>1, <3>2
    <3>4. Len(hs) < 2 * MaxEdges
      <4> DEFINE l == Len(hs)
      <4>1. l \in Nat /\ l <= Len(nodes) + 1
        BY <1>6
      <4> HIDE DEF l
      <4>2. l < 2 * MaxEdges
        BY <1>3, <4>1
      <4> QED BY <4>2 DEF l
    <3>5. TableFor(hs, hm)
      BY <1>6
    <3> HIDE DEF hs, hm, hg, k, t, ks
    <3>6. /\ k.nodes = Append(hs, NewNode(to)) /\ TableFor(k.nodes, k.mapping)
          /\ k.grown = (hg \/ Crowded(hm))
          /\ ~Crowded(hm) /\ Named(hs, hm) => Named(k.nodes, k.mapping)
      BY <1>7, <3>3, <3>4, <3>5, AddEffect
    <3>7. ks = Append(hs, NewNode(to))
      BY <3>6 DEF ks
    <3>8. /\ Extends(hs, ks) /\ Len(ks) = Len(hs) + 1 /\ DOMAIN ks = DOMAIN hs \cup {Len(ks)}
          /\ Len(ks) \notin DOMAIN hs /\ ks[Len(ks)].id = to
          /\ Len(ks) \in Firsts(ks) <=> \A m \in DOMAIN hs : hs[m].id # to
      BY <1>7, <3>7, ExtendsOne
    <3>9. hg \in BOOLEAN /\ Crowded(hm) \in BOOLEAN
      BY <1>6 DEF Crowded, hg
    <3>10. k.grown \in BOOLEAN /\ (~k.grown => ~hg /\ ~Crowded(hm))
      BY <3>6, <3>9
    <3>11. t = Len(ks)
      BY <3>1 DEF ks
    <3>12. ~hg /\ Named(nodes, mapping) /\ to # from => \A m \in DOMAIN hs : hs[m].id # to
      <4>1. ~hg /\ Named(nodes, mapping) => \A m \in DOMAIN hs : m \in DOMAIN nodes \/ hs[m].id = from
        BY <1>6 DEF hs, hg
      <4>2. Named(nodes, mapping) => \A m \in DOMAIN nodes : nodes[m].id # to
        BY <1>5, <2>1
      <4>3. \A m \in DOMAIN nodes : hs[m] = nodes[m]
        BY <1>6 DEF hs, Extends
      <4> QED BY <4>1, <4>2, <4>3
    <3>13. ~hg /\ Named(nodes, mapping) => Named(hs, hm)
      BY <1>6 DEF hs, hm, hg
    <3>14. ~k.grown /\ Named(nodes, mapping) =>
              Named(ks, k.mapping) /\ ks[t].id = to /\ (t \in Firsts(ks) \/ to = from)
      BY <3>6, <3>8, <3>10, <3>11, <3>12, <3>13 DEF ks
    <3>15. TableFor(ks, k.mapping)
      BY <3>6 DEF ks
    <3>16. Len(ks) <= Len(hs) + 1 /\ t \in DOMAIN ks
      BY <1>7, <3>8, <3>11
    <3> QED BY <3>8, <3>10, <3>14, <3>15, <3>16 DEF hg
  <2>2. CASE d # Null
    <3>1. k = h /\ t = d
      BY <2>2
    <3>2. Extends(hs, hs)
      BY <1>7, ExtendsSelf
    <3>3. d \in DOMAIN nodes /\ d \in DOMAIN hs
      BY <1>2, <1>6, <2>2 DEF Extends
    <3>4. ~h.grown /\ Named(nodes, mapping) => hs[d].id = to /\ d \in Firsts(hs)
      <4>1. Named(nodes, mapping) => d \in Firsts(nodes) /\ nodes[d].id = to
        BY <1>5, <2>2
      <4> QED BY <1>6, <3>3, <4>1 DEF Extends
    <3> HIDE DEF h, k, t
    <3>5. Len(hs) <= Len(hs) + 1
      BY <1>6
    <3> QED BY <1>6, <3>1, <3>2, <3>3, <3>4, <3>5
  <2> QED BY <2>1, <2>2
<1> HIDE DEF h, k, s, t
<1>9. Extends(nodes, ks)
  BY <1>6, <1>8, ExtendsTwice
<1>10. s \in DOMAIN ks /\ (s \in Firsts(hs) => s \in Firsts(ks)) /\ ks[s] = hs[s]
  BY <1>6, <1>8 DEF Extends
<1>11. Len(ks) <= Len(nodes) + 2
  <2>1. Len(ks) \in Nat
    BY <1>8 DEF Extends
  <2> HIDE DEF hs, ks
  <2>2. Len(hs) \in Nat /\ Len(hs) <= Len(nodes) + 1
    BY <1>6 DEF hs
  <2> QED BY <1>3, <1>8, <2>1, <2>2
<1>12. ~k.grown => ~grown
  BY <1>6, <1>8
<1>13. ~k.grown /\ Named(nodes, mapping) => Named(ks, k.mapping) /\ EndsAre(ks, from, to, s, t)
  BY <1>6, <1>8, <1>10 DEF EndsAre
<1>14. nodes' = EdgeAdded(ks, s, [dest |-> t, cost |-> cost])
  BY <1>1 DEF EdgeAdded
<1> HIDE DEF ks
<1> QED BY <1>1, <1>8, <1>9, <1>10, <1>11, <1>12, <1>13, <1>14

(***************************************************************************)
(* dijkstra() changes distances, marks and ways back, and nothing else.    *)
(***************************************************************************)
Kept(ns, ms) == /\ ms \in Seq(NodeType) /\ DOMAIN ms = DOMAIN ns
                /\ \A m \in DOMAIN ns : ms[m].id = ns[m].id /\ ms[m].edges = ns[m].edges

LEMMA KeptSame ==
  ASSUME NEW ns \in Seq(NodeType), NEW ms, Kept(ns, ms)
  PROVE  /\ Firsts(ms) = Firsts(ns) /\ Len(ms) = Len(ns) /\ Firsts(ns) \subseteq DOMAIN ns
         /\ \A m \in DOMAIN ns : EdgesOf(ms, m) = EdgesOf(ns, m)
         /\ Inside(ns) => Inside(ms)
         /\ \A t : TableFor(ns, t) => TableFor(ms, t)
         /\ \A t : Named(ns, t) => Named(ms, t)
<1>1. Firsts(ms) = Firsts(ns)
  <2>1. \A n \in DOMAIN ns : ns[n].id = ms[n].id
    BY DEF Kept
  <2>2. ms \in Seq(NodeType) /\ DOMAIN ms = DOMAIN ns
    BY DEF Kept
  <2> QED BY <2>1, <2>2, FirstsSame
<1>2. Len(ms) = Len(ns)
  <2> DEFINE a == Len(ms)
             b == Len(ns)
  <2>1. DOMAIN ms = 1 .. a /\ DOMAIN ns = 1 .. b /\ a \in Nat /\ b \in Nat /\ DOMAIN ms = DOMAIN ns
    BY DEF Kept
  <2> HIDE DEF a, b
  <2>2. ~(a < b)
    <3>1. a < b => b \in 1 .. b /\ ~(b \in 1 .. a)
      BY <2>1
    <3> QED BY <2>1, <3>1
  <2>3. ~(b < a)
    <3>1. b < a => a \in 1 .. a /\ ~(a \in 1 .. b)
      BY <2>1
    <3> QED BY <2>1, <3>1
  <2>4. a = b
    BY <2>1, <2>2, <2>3
  <2> QED BY <2>4 DEF a, b
<1>3. \A m \in DOMAIN ns : EdgesOf(ms, m) = EdgesOf(ns, m)
  BY DEF Kept, EdgesOf
<1>4. Inside(ns) => Inside(ms)
  BY <1>3 DEF Inside, Kept
<1>5. \A t : TableFor(ns, t) => TableFor(ms, t)
  BY <1>2 DEF TableFor, Kept
<1>6. Firsts(ns) \subseteq DOMAIN ns
  BY DEF Firsts
<1>7. \A t : Named(ns, t) => Named(ms, t)
  BY <1>1, <1>6 DEF Named, Kept
<1> QED BY <1>1, <1>2, <1>3, <1>4, <1>5, <1>6, <1>7

LEMMA KeptTwice ==
  ASSUME NEW ns, NEW ms, NEW ls, Kept(ns, ms), Kept(ms, ls)
  PROVE  Kept(ns, ls)
BY DEF Kept

Elsewhere(ns, d, ms) == \A m \in DOMAIN ns : m # d => ms[m] = ns[m]
Lowered(ns, d, x, p) == [ns EXCEPT ![d].dist = x, ![d].prev = p]
MarkedAt(ns, n)      == [ns EXCEPT ![n].known = TRUE]

LEMMA LoweredIs ==
  ASSUME NEW ns \in Seq(NodeType), NEW d \in DOMAIN ns, NEW x \in Nat, NEW p \in Nat \cup {Null},
         NEW ms, ms = Lowered(ns, d, x, p)
  PROVE  /\ Kept(ns, ms)
         /\ Elsewhere(ns, d, ms)
         /\ ms[d].dist = x /\ ms[d].prev = p /\ ms[d].known = ns[d].known
<1> DEFINE y == [ns[d] EXCEPT !.dist = x, !.prev = p]
<1>1. ns[d] \in NodeType
  BY NodeAt
<1>2. y \in NodeType /\ y.dist = x /\ y.prev = p /\ y.known = ns[d].known
      /\ y.id = ns[d].id /\ y.edges = ns[d].edges
  BY <1>1 DEF NodeType
<1>3. ms = [ns EXCEPT ![d] = y]
  BY DEF Lowered
<1> HIDE DEF y
<1>4. /\ ms \in Seq(NodeType) /\ DOMAIN ms = DOMAIN ns
      /\ \A m \in DOMAIN ns : ms[m] = IF m = d THEN y ELSE ns[m]
  BY <1>2, <1>3
<1> QED BY <1>2, <1>4 DEF Kept, Elsewhere

LEMMA MarkedIs ==
  ASSUME NEW ns \in Seq(NodeType), NEW n \in DOMAIN ns, NEW ms, ms = MarkedAt(ns, n)
  PROVE  /\ Kept(ns, ms)
         /\ \A m \in DOMAIN ns : /\ ms[m].dist = ns[m].dist /\ ms[m].prev = ns[m].prev
                                 /\ ms[m].known <=> ns[m].known \/ m = n
<1> DEFINE y == [ns[n] EXCEPT !.known = TRUE]
<1>1. ns[n] \in NodeType
  BY NodeAt
<1>2. y \in NodeType /\ y.dist = ns[n].dist /\ y.prev = ns[n].prev /\ y.known = TRUE
      /\ y.id = ns[n].id /\ y.edges = ns[n].edges
  BY <1>1 DEF NodeType
<1>3. ms = [ns EXCEPT ![n] = y]
  BY DEF MarkedAt
<1> HIDE DEF y
<1>4. /\ ms \in Seq(NodeType) /\ DOMAIN ms = DOMAIN ns
      /\ \A m \in DOMAIN ns : ms[m] = IF m = n THEN y ELSE ns[m]
  BY <1>2, <1>3
<1>5. Kept(ns, ms)
  BY <1>2, <1>4 DEF Kept
<1> QED BY <1>2, <1>4, <1>5

(***************************************************************************)
(* The heap.                                                               *)
(***************************************************************************)
\* What the heap should hold.
Waiting(ns) == {[node |-> m, key |-> ns[m].dist] : m \in {x \in Firsts(ns) : ~ns[x].known}}

HeapOf(ns) == [node : Firsts(ns), key : Nat]

LEMMA SetKeyKeeps ==
  ASSUME NEW ns, NEW q \in SUBSET HeapOf(ns), NEW v, NEW x \in Nat
  PROVE  SetKey(q, ns, v, x) \in SUBSET HeapOf(ns)
<1>1. \A h \in HeapOf(ns) : [h EXCEPT !.key = x] \in HeapOf(ns)
  BY DEF HeapOf
<1> QED BY <1>1 DEF SetKey

\* The node that gets a new key is the only one with its id, or none with its
\* id is in the heap.
LEMMA SetKeyAgrees ==
  ASSUME NEW ns \in Seq(NodeType), NEW d \in DOMAIN ns, NEW x \in Nat, NEW ms,
         Kept(ns, ms), ~ns[d].known,
         \A m \in DOMAIN ns : ms[m].known = ns[m].known /\ (m # d => ms[m].dist = ns[m].dist),
         ms[d].dist = x,
         d \in Firsts(ns) \/ \E m \in Firsts(ns) : ns[m].known /\ ns[m].id = ns[d].id
  PROVE  SetKey(Waiting(ns), ns, ns[d].id, x) = Waiting(ms)
<1> DEFINE U == {m \in Firsts(ns) : ~ns[m].known}
           q == SetKey(Waiting(ns), ns, ns[d].id, x)
<1>1. Firsts(ms) = Firsts(ns) /\ Firsts(ns) \subseteq DOMAIN ns
  BY KeptSame
<1>2. U = {m \in Firsts(ms) : ~ms[m].known}
  BY <1>1
<1>3. ASSUME NEW m \in U
      PROVE  (IF ns[m].id = ns[d].id THEN [[node |-> m, key |-> ns[m].dist] EXCEPT !.key = x]
                                      ELSE [node |-> m, key |-> ns[m].dist])
              = [node |-> m, key |-> ms[m].dist]
  <2>1. CASE m = d
    BY <2>1
  <2>2. CASE m # d
    <3>1. ns[m].id # ns[d].id
      <4>1. CASE d \in Firsts(ns)
        BY <2>2, <4>1, FirstsOnly
      <4>2. CASE d \notin Firsts(ns)
        <5>1. PICK l \in Firsts(ns) : ns[l].known /\ ns[l].id = ns[d].id
          BY <4>2
        <5>2. l # m
          BY <5>1
        <5> QED BY <5>1, <5>2, FirstsOnly
      <4> QED BY <4>1, <4>2
    <3> QED BY <1>1, <2>2, <3>1
  <2> QED BY <2>1, <2>2
<1> DEFINE Old(m) == [node |-> m, key |-> ns[m].dist]
           New1(m) == [node |-> m, key |-> ms[m].dist]
           Set(h) == IF ns[h.node].id = ns[d].id THEN [h EXCEPT !.key = x] ELSE h
<1>4. \A h : h \in Waiting(ns) <=> \E m \in U : h = Old(m)
  BY DEF Waiting
<1>5. \A h : h \in Waiting(ms) <=> \E m \in U : h = New1(m)
  BY <1>2 DEF Waiting
<1>6. \A h : h \in q <=> \E l \in Waiting(ns) : h = Set(l)
  BY DEF SetKey
<1>7. \A m \in U : Set(Old(m)) = New1(m)
  <2>1. \A m \in U : Old(m).node = m
    OBVIOUS
  <2> QED BY <1>3, <2>1
<1> HIDE DEF U, q, Old, New1, Set
<1>8. \A h : h \in q <=> h \in Waiting(ms)
  BY <1>4, <1>5, <1>6, <1>7
<1>9. q = Waiting(ms)
  BY <1>8
<1> QED BY <1>9 DEF q

(***************************************************************************)
(* The body of the loop for node n: what holds after some of its edges.    *)
(***************************************************************************)
Unmoved(ns, ms, m)     == ms[m].dist = ns[m].dist /\ ms[m].prev = ns[m].prev
Improved(ns, n, ms, m) == /\ ~ns[m].known /\ m # n /\ ms[m].dist < ns[m].dist /\ ms[m].prev = n
                          /\ \E e \in EdgesOf(ns, n) : e.dest = m /\ ms[m].dist = ns[n].dist + e.cost

Advanced(ns, n, ms) == \A m \in DOMAIN ns : /\ ms[m].known <=> ns[m].known \/ m = n
                                            /\ Unmoved(ns, ms, m) \/ Improved(ns, n, ms, m)

Served(ns, n, ms, e) == ms[e.dest].known \/ ms[e.dest].dist <= ns[n].dist + e.cost

Alone(ns, n) == /\ n \in Firsts(ns)
                /\ \A e \in EdgesOf(ns, n) : e.dest \in Firsts(ns) \/ ns[e.dest].id = ns[n].id

VisitedTo(ns, n, E, g, agree) == /\ Kept(ns, g.nodes) /\ Advanced(ns, n, g.nodes)
                                 /\ \A e \in E : Served(ns, n, g.nodes, e)
                                 /\ g.heap \in SUBSET HeapOf(ns)
                                 /\ agree => g.heap = Waiting(g.nodes)

LEMMA EdgeAt ==
  ASSUME NEW ns \in Seq(NodeType), Inside(ns), NEW n \in DOMAIN ns, NEW e \in EdgesOf(ns, n)
  PROVE  e.dest \in DOMAIN ns /\ e.dest \in Nat /\ e.cost \in Costs /\ e.cost \in Nat \ {0}
<1>1. e.dest \in Nat /\ e.cost \in Costs
  BY NodeAt DEF EdgesOf
<1> QED BY <1>1, CostAssumption DEF Inside

LEMMA RelaxStep ==
  ASSUME NEW ns \in Seq(NodeType), Inside(ns), NEW n \in DOMAIN ns, NEW e \in EdgesOf(ns, n),
         NEW E \in SUBSET EdgesOf(ns, n), NEW g, NEW agree \in BOOLEAN, agree => Alone(ns, n),
         VisitedTo(ns, n, E, g, agree)
  PROVE  VisitedTo(ns, n, E \cup {e}, Relax(n, ns[n].dist, g, e), agree)
<1> DEFINE d == e.dest
           ms == g.nodes
           x == ns[n].dist + e.cost
           r == Relax(n, ns[n].dist, g, e)
<1>1. n \in Nat /\ ns[n].dist \in Nat /\ \A m \in DOMAIN ns : ns[m].dist \in Nat /\ ns[m].known \in BOOLEAN
  BY NodeAt
<1>2. \A f \in EdgesOf(ns, n) : f.dest \in DOMAIN ns /\ f.cost \in Nat
  BY EdgeAt
<1>3. d \in DOMAIN ns /\ e.cost \in Nat /\ x \in Nat
  BY <1>1, <1>2
<1>4. /\ Kept(ns, ms) /\ Advanced(ns, n, ms) /\ ms \in Seq(NodeType) /\ DOMAIN ms = DOMAIN ns
      /\ \A f \in E : Served(ns, n, ms, f)
      /\ g.heap \in SUBSET HeapOf(ns)
      /\ agree => g.heap = Waiting(ms)
  BY DEF VisitedTo, Kept
<1>5. \A m \in DOMAIN ns : ms[m].dist \in Nat /\ ms[m].known \in BOOLEAN /\ ms[m].id = ns[m].id
  <2>1. \A m \in DOMAIN ms : ms[m].dist \in Nat /\ ms[m].known \in BOOLEAN
    BY <1>4, NodeAt
  <2> QED BY <1>4, <2>1 DEF Kept
<1>7. CASE ~(~ms[d].known /\ x < ms[d].dist)
  <2>1. r = g
    BY <1>7 DEF Relax
  <2>2. Served(ns, n, ms, e)
    BY <1>1, <1>3, <1>5, <1>7 DEF Served
  <2> HIDE DEF r
  <2>3. VisitedTo(ns, n, E \cup {e}, r, agree)
    BY <1>4, <2>1, <2>2 DEF VisitedTo
  <2> QED BY <2>3 DEF r
<1>8. CASE ~ms[d].known /\ x < ms[d].dist
  <2> DEFINE ls == Lowered(ms, d, x, n)
  <2>1. r.nodes = ls /\ r.heap = SetKey(g.heap, ms, ms[d].id, x)
    BY <1>8 DEF Relax, Lowered
  <2> HIDE DEF r, d, x, ls, ms
  <2>2. /\ Kept(ms, ls)
        /\ \A m \in DOMAIN ms : m # d => ls[m] = ms[m]
        /\ ls[d].dist = x /\ ls[d].prev = n /\ ls[d].known = ms[d].known
    <3>1. ms \in Seq(NodeType) /\ d \in DOMAIN ms /\ x \in Nat /\ n \in Nat \cup {Null}
      BY <1>1, <1>3, <1>4
    <3>2. ls = Lowered(ms, d, x, n)
      BY DEF ls
    <3>3. /\ Kept(ms, ls) /\ Elsewhere(ms, d, ls)
          /\ ls[d].dist = x /\ ls[d].prev = n /\ ls[d].known = ms[d].known
      BY <3>1, <3>2, LoweredIs
    <3> QED BY <3>3 DEF Elsewhere
  <2>3. Kept(ns, ls)
    BY <1>4, <2>2, KeptTwice
  <2>4. ~ns[d].known /\ d # n /\ ms[d].dist <= ns[d].dist
    BY <1>1, <1>3, <1>4, <1>5, <1>8 DEF Advanced, Unmoved, Improved
  <2>5. Advanced(ns, n, ls)
    <3> SUFFICES ASSUME NEW m \in DOMAIN ns
                 PROVE  /\ ls[m].known <=> ns[m].known \/ m = n
                        /\ Unmoved(ns, ls, m) \/ Improved(ns, n, ls, m)
      BY DEF Advanced
    <3>1. CASE m # d
      BY <1>4, <2>2, <3>1 DEF Advanced, Unmoved, Improved
    <3>2. CASE m = d
      <4>1. ls[m].known <=> ns[m].known \/ m = n
        BY <1>4, <2>2, <3>2 DEF Advanced
      <4>2. ls[d].dist < ns[d].dist
        BY <1>1, <1>3, <1>5, <1>8, <2>2, <2>4
      <4>3. e.dest = d /\ x = ns[n].dist + e.cost
        BY DEF d, x
      <4>4. Improved(ns, n, ls, m)
        BY <1>3, <2>2, <2>4, <3>2, <4>2, <4>3 DEF Improved
      <4> QED BY <4>1, <4>4
    <3> QED BY <3>1, <3>2
  <2>6. ASSUME NEW f \in E \cup {e} PROVE Served(ns, n, ls, f)
    <3>1. f \in EdgesOf(ns, n) /\ f.dest \in DOMAIN ms /\ f.cost \in Nat
      BY <1>2, <1>4
    <3>2. CASE f = e
      <4>1. f.dest = d /\ x <= ns[n].dist + f.cost
        BY <1>3, <3>2 DEF d, x
      <4> QED BY <2>2, <4>1 DEF Served
    <3>3. CASE f # e /\ f.dest = d
      <4> DEFINE y == ns[n].dist + f.cost
      <4>1. y \in Nat /\ ms[d].dist \in Nat
        BY <1>1, <1>3, <1>5, <3>1
      <4>2. ms[d].dist <= y
        BY <1>4, <1>8, <3>3 DEF Served
      <4> HIDE DEF y
      <4>3. x <= y
        BY <1>3, <1>8, <4>1, <4>2
      <4> QED BY <2>2, <3>3, <4>3 DEF Served, y
    <3>4. CASE f # e /\ f.dest # d
      <4>1. Served(ns, n, ms, f)
        BY <1>4, <3>4
      <4>2. ls[f.dest] = ms[f.dest]
        BY <2>2, <3>1, <3>4
      <4> QED BY <4>1, <4>2 DEF Served
    <3> QED BY <3>2, <3>3, <3>4
  <2>7. HeapOf(ms) = HeapOf(ns) /\ Firsts(ms) = Firsts(ns)
    <3>1. Firsts(ms) = Firsts(ns)
      BY <1>4, KeptSame
    <3> QED BY <3>1 DEF HeapOf
  <2>8. r.heap \in SUBSET HeapOf(ns)
    <3>1. SetKey(g.heap, ms, ms[d].id, x) \in SUBSET HeapOf(ms)
      BY <1>3, <1>4, <2>7, SetKeyKeeps
    <3> QED BY <2>1, <2>7, <3>1
  <2>9. ASSUME agree PROVE r.heap = Waiting(ls)
    <3>1. d \in Firsts(ms) \/ \E m \in Firsts(ms) : ms[m].known /\ ms[m].id = ms[d].id
      <4>1. n \in Firsts(ns) /\ (d \in Firsts(ns) \/ ns[d].id = ns[n].id)
        BY <1>3, <2>9 DEF Alone, d
      <4>2. n \in Firsts(ms) /\ ms[n].known /\ ms[n].id = ns[n].id /\ ms[d].id = ns[d].id
        BY <1>3, <1>4, <1>5, <2>7, <4>1 DEF Advanced
      <4> QED BY <2>7, <4>1, <4>2
    <3>2. \A m \in DOMAIN ms : ls[m].known = ms[m].known /\ (m # d => ls[m].dist = ms[m].dist)
      BY <2>2
    <3>3. SetKey(Waiting(ms), ms, ms[d].id, x) = Waiting(ls)
      BY <1>3, <1>4, <1>8, <2>2, <3>1, <3>2, SetKeyAgrees
    <3> QED BY <1>4, <2>1, <2>9, <3>3
  <2>10. VisitedTo(ns, n, E \cup {e}, r, agree)
    BY <2>1, <2>3, <2>5, <2>6, <2>8, <2>9 DEF VisitedTo
  <2> QED BY <2>10 DEF r
<1> QED BY <1>7, <1>8

\* All edges of node n.
LEMMA VisitEffect ==
  ASSUME nodes \in Seq(NodeType), Inside(nodes), NEW n \in DOMAIN nodes,
         NEW q \in SUBSET HeapOf(nodes), NEW agree \in BOOLEAN,
         agree => Alone(nodes, n) /\ q = Waiting(MarkedAt(nodes, n)), Visit(n, q)
  PROVE  /\ Kept(nodes, nodes') /\ Advanced(nodes, n, nodes')
         /\ \A e \in EdgesOf(nodes, n) : Served(nodes, n, nodes', e)
         /\ heap' \in SUBSET HeapOf(nodes)
         /\ agree => heap' = Waiting(nodes')
<1> DEFINE edges == nodes[n].edges
           L == Len(edges)
           S == [nodes |-> MarkedAt(nodes, n), heap |-> q]
           Do(g, k) == Relax(n, nodes[n].dist, g, edges[k])
           Steps(f, m) == f = [k \in 0 .. m |-> IF k = 0 THEN S ELSE Do(f[k - 1], k)]
           T == {m \in Nat : \E f : Steps(f, m)}
<1>1. 0 \in T
  <2>1. Steps([k \in 0 .. 0 |-> S], 0)
    OBVIOUS
  <2> QED BY <2>1
<1>2. ASSUME NEW m \in Nat, m \in T PROVE m + 1 \in T
  <2> HIDE DEF S, Do
  <2>1. PICK f : Steps(f, m)
    BY <1>2
  <2> DEFINE g == [k \in 0 .. m + 1 |-> IF k = m + 1 THEN Do(f[m], m + 1) ELSE f[k]]
  <2>2. \A k \in 0 .. m : f[k] = IF k = 0 THEN S ELSE Do(f[k - 1], k)
    BY <2>1
  <2>3. \A k \in 0 .. m + 1 : g[k] = IF k = 0 THEN S ELSE Do(g[k - 1], k)
    <3> SUFFICES ASSUME NEW k \in 0 .. m + 1
                 PROVE  g[k] = IF k = 0 THEN S ELSE Do(g[k - 1], k)
      OBVIOUS
    <3>1. CASE k = m + 1
      <4>1. k # 0 /\ k - 1 = m /\ m \in 0 .. m + 1 /\ m # m + 1
        BY <3>1
      <4>2. g[k - 1] = f[m] /\ g[k] = Do(f[m], m + 1)
        BY <3>1, <4>1
      <4> QED BY <3>1, <4>1, <4>2
    <3>2. CASE k # m + 1
      <4>1. k \in 0 .. m
        BY <3>2
      <4>2. g[k] = f[k] /\ (k # 0 => g[k - 1] = f[k - 1])
        BY <3>2, <4>1
      <4> QED BY <2>2, <4>1, <4>2
    <3> QED BY <3>1, <3>2
  <2>4. g = [k \in 0 .. m + 1 |-> g[k]]
    OBVIOUS
  <2>5. Steps(g, m + 1)
    <3> HIDE DEF g
    <3>1. [k \in 0 .. m + 1 |-> g[k]]
             = [k \in 0 .. m + 1 |-> IF k = 0 THEN S ELSE Do(g[k - 1], k)]
      BY <2>3, Zenon
    <3> QED BY <2>4, <3>1, Zenon
  <2> HIDE DEF g, Steps
  <2>6. m + 1 \in Nat
    OBVIOUS
  <2> QED BY <2>5, <2>6, Zenon
<1>3. L \in Nat
  BY NodeAt
<1>4. L \in T
  <2> HIDE DEF T, L
  <2>1. Nat \subseteq T
    BY <1>1, <1>2, Induct
  <2> QED BY <1>3, <2>1
<1>5. PICK f : Steps(f, L)
  BY <1>4
<1> DEFINE after == CHOOSE h : Steps(h, L)
<1>6. nodes' = after[L].nodes /\ heap' = after[L].heap
  BY DEF Visit, MarkedAt
<1>7. Steps(after, L)
  BY <1>5, Zenon
<1>8. after[0] = S /\ \A k \in 1 .. L : after[k] = Do(after[k - 1], k)
  <2> HIDE DEF S, Do, after, L
  <2> QED BY <1>3, <1>7
<1> HIDE DEF after
<1> DEFINE E(k) == {nodes[n].edges[i] : i \in 1 .. k}
           R == {k \in Nat : k <= L => VisitedTo(nodes, n, E(k), after[k], agree)}
<1>9. 0 \in R
  <2> DEFINE ms == MarkedAt(nodes, n)
  <2>1. /\ Kept(nodes, ms)
        /\ \A m \in DOMAIN nodes : /\ ms[m].dist = nodes[m].dist /\ ms[m].prev = nodes[m].prev
                                   /\ ms[m].known <=> nodes[m].known \/ m = n
    BY MarkedIs
  <2>2. after[0].nodes = ms /\ after[0].heap = q
    BY <1>8
  <2> HIDE DEF ms
  <2>3. Advanced(nodes, n, ms)
    BY <2>1 DEF Advanced, Unmoved
  <2>4. agree => q = Waiting(ms)
    BY DEF ms
  <2>5. E(0) = {}
    OBVIOUS
  <2> HIDE DEF E
  <2>6. VisitedTo(nodes, n, E(0), after[0], agree)
    BY <2>1, <2>2, <2>3, <2>4, <2>5 DEF VisitedTo
  <2> QED BY <2>6
<1>10. DOMAIN nodes[n].edges = 1 .. L
  BY NodeAt
<1>11. ASSUME NEW k \in Nat, k \in R PROVE k + 1 \in R
  <2> SUFFICES ASSUME k + 1 <= L PROVE VisitedTo(nodes, n, E(k + 1), after[k + 1], agree)
    OBVIOUS
  <2> DEFINE e == nodes[n].edges[k + 1]
  <2>1. k + 1 \in 1 .. L /\ (k + 1) - 1 = k
    BY <1>3
  <2>2. VisitedTo(nodes, n, E(k), after[k], agree)
    BY <1>3, <1>11
  <2>3. after[k + 1] = Relax(n, nodes[n].dist, after[k], e)
    BY <1>8, <2>1
  <2>4. E(k) \in SUBSET EdgesOf(nodes, n) /\ e \in EdgesOf(nodes, n)
    BY <1>3, <1>10, <2>1 DEF EdgesOf
  <2>5. E(k + 1) = E(k) \cup {e}
    <3>1. \A i \in 1 .. k + 1 : i \in 1 .. k \/ i = k + 1
      OBVIOUS
    <3>2. \A i \in 1 .. k : i \in 1 .. k + 1
      OBVIOUS
    <3> QED BY <2>1, <3>1, <3>2
  <2> HIDE DEF e, E, R
  <2>6. VisitedTo(nodes, n, E(k) \cup {e}, Relax(n, nodes[n].dist, after[k], e), agree)
    BY <2>2, <2>4, RelaxStep
  <2> QED BY <2>3, <2>5, <2>6
<1> HIDE DEF E, R
<1>12. Nat \subseteq R
  BY <1>9, <1>11, Induct
<1>13. VisitedTo(nodes, n, E(L), after[L], agree)
  <2> HIDE DEF L
  <2> QED BY <1>3, <1>12 DEF R
<1>14. E(L) = EdgesOf(nodes, n)
  <2> HIDE DEF L
  <2> QED BY <1>10 DEF EdgesOf, E
<1> HIDE DEF L
<1> QED BY <1>6, <1>13, <1>14 DEF VisitedTo

(***************************************************************************)
(* The paths.  This much holds also when mapping has been rehashed.        *)
(***************************************************************************)
Records == [from : Keys, to : Keys, cost : Costs]

Graph == /\ nodes \in Seq(NodeType) /\ Inside(nodes) /\ TableFor(nodes, mapping)
         /\ lines \in 0 .. MaxEdges /\ Len(nodes) <= 2 * lines
         /\ file \in SUBSET Records /\ IsFiniteSet(file) /\ Cardinality(file) <= lines
         /\ grown \in BOOLEAN /\ phase \in {"reading", "running", "done"}

Untouched(ns, n) == ns[n].dist = MAX /\ ~ns[n].known /\ ns[n].prev = Null

Fresh == phase = "reading" => /\ heap = {} /\ current = Null
                              /\ \A n \in DOMAIN nodes : Untouched(nodes, n)

Underway == phase # "reading" =>
               /\ source \in Keys /\ FindNode(source) \in DOMAIN nodes
               /\ nodes[FindNode(source)].dist = 0
               /\ heap \in SUBSET HeapOf(nodes)
               /\ current = Null => heap # {}
               /\ current # Null => current \in DOMAIN nodes /\ nodes[current].known

\* The way to node n, if there is one, comes by an edge from a known node.
Way(ns, s, n) == /\ ns[n].dist <= MAX
                 /\ IF ns[n].prev = Null THEN ns[n].dist = IF n = s THEN 0 ELSE MAX
                    ELSE /\ ns[n].prev \in DOMAIN ns /\ ns[ns[n].prev].known
                         /\ \E e \in EdgesOf(ns, ns[n].prev) :
                               e.dest = n /\ ns[n].dist = ns[ns[n].prev].dist + e.cost

Ways == phase # "reading" => \A n \in DOMAIN nodes : Way(nodes, FindNode(source), n)

PathInv == Graph /\ Fresh /\ Underway /\ Ways

LEMMA NullIsNone ==
  ASSUME Graph
  PROVE  Null \notin DOMAIN nodes /\ DOMAIN nodes = 1 .. Len(nodes) /\ Len(nodes) \in Nat
<1>1. /\ DOMAIN nodes = 1 .. Len(nodes) /\ Len(nodes) \in Nat /\ MaxEdges \in Nat
      /\ lines \in 0 .. MaxEdges /\ Len(nodes) <= 2 * lines
  BY CostAssumption DEF Graph
<1>2. DOMAIN nodes \subseteq 1 .. 2 * MaxEdges
  BY <1>1
<1> QED BY <1>1, <1>2, CostAssumption, PointerAssumption

LEMMA InitPaths ==
  ASSUME Init
  PROVE  PathInv
<1>1. nodes = <<>> /\ nodes \in Seq(NodeType) /\ DOMAIN nodes = {} /\ Len(nodes) = 0
  BY DEF Init
<1>2. TableFor(nodes, mapping)
  <2> DEFINE t == New(0)
  <2>1. GoodTable(t)
    <3>1. 0 \in Nat /\ GetPrime(0) > 1
      BY TableAssumption
    <3> QED BY <3>1, NewSound DEF Sound
  <2>2. t.filled = 0 /\ \A i \in DOMAIN t.item : ~Occupied(t, i)
    BY DEF New, Blank, Empty, Occupied
  <2>3. mapping = t
    BY DEF Init
  <2> HIDE DEF t
  <2> QED BY <1>1, <2>1, <2>2, <2>3 DEF TableFor, PointsInto
<1>3. IsFiniteSet({}) /\ Cardinality({}) = 0
  BY FS_EmptySet
<1>4. 0 \in 0 .. MaxEdges
  BY CostAssumption
<1>5. Graph
  <2>1. lines = 0 /\ file = {} /\ grown = FALSE /\ phase = "reading"
    BY DEF Init
  <2>2. Len(nodes) <= 2 * lines
    BY <1>1, <2>1
  <2>3. Cardinality(file) <= lines /\ IsFiniteSet(file)
    BY <1>3, <2>1
  <2>4. Inside(nodes)
    BY <1>1 DEF Inside
  <2> QED BY <1>1, <1>2, <1>4, <2>1, <2>2, <2>3, <2>4 DEF Graph
<1>6. Fresh /\ Underway /\ Ways
  BY <1>1 DEF Init, Fresh, Underway, Ways
<1> QED BY <1>5, <1>6 DEF PathInv

\* A line of the file.
LEMMA ReadPaths ==
  ASSUME PathInv, NEW from \in Keys, NEW to \in Keys, NEW cost \in Costs, NEW memory \in BOOLEAN,
         ReadLine(from, to, cost, memory)
  PROVE  PathInv'
<1> DEFINE f == [from |-> from, to |-> to, cost |-> cost]
<1>1. /\ phase = "reading" /\ lines < MaxEdges /\ lines' = lines + 1
      /\ InsertEdge(from, to, cost, memory) /\ file' = file \cup {f}
      /\ UNCHANGED <<heap, current, phase, source>>
  BY DEF ReadLine
<1>2. /\ nodes \in Seq(NodeType) /\ Inside(nodes) /\ TableFor(nodes, mapping) /\ grown \in BOOLEAN
      /\ lines \in 0 .. MaxEdges /\ Len(nodes) <= 2 * lines
      /\ file \in SUBSET Records /\ IsFiniteSet(file) /\ Cardinality(file) <= lines
  BY DEF PathInv, Graph
<1>3. Len(nodes) \in Nat /\ MaxEdges \in Nat /\ lines \in Nat
  BY <1>2, CostAssumption
<1>4. Len(nodes) + 2 <= 2 * MaxEdges
  BY <1>1, <1>2, <1>3
<1>5. \E ks : \E s, t \in DOMAIN ks :
            /\ Extends(nodes, ks) /\ Len(ks) <= Len(nodes) + 2
            /\ nodes' = EdgeAdded(ks, s, [dest |-> t, cost |-> cost])
            /\ TableFor(ks, mapping')
            /\ grown' \in BOOLEAN
            /\ ~grown' => ~grown
            /\ ~grown' /\ Named(nodes, mapping) =>
                  Named(ks, mapping') /\ EndsAre(ks, from, to, s, t)
  BY <1>1, <1>2, <1>4, InsertEffect
<1>6. PICK ks : \E s, t \in DOMAIN ks :
            /\ Extends(nodes, ks) /\ Len(ks) <= Len(nodes) + 2
            /\ nodes' = EdgeAdded(ks, s, [dest |-> t, cost |-> cost])
            /\ TableFor(ks, mapping')
            /\ grown' \in BOOLEAN
  BY <1>5
<1>7. PICK s \in DOMAIN ks, t \in DOMAIN ks :
            /\ Extends(nodes, ks) /\ Len(ks) <= Len(nodes) + 2
            /\ nodes' = EdgeAdded(ks, s, [dest |-> t, cost |-> cost])
            /\ TableFor(ks, mapping')
            /\ grown' \in BOOLEAN
  BY <1>6
<1> DEFINE e == [dest |-> t, cost |-> cost]
           ns == nodes'
<1>8. ks \in Seq(NodeType) /\ e \in EdgeType /\ e.dest = t /\ t \in DOMAIN ks
  <2>1. ks \in Seq(NodeType)
    BY <1>7 DEF Extends
  <2>2. t \in Nat
    BY <2>1
  <2> QED BY <2>1, <2>2 DEF EdgeType
<1>9. ns = EdgeAdded(ks, s, e)
  BY <1>7
<1> HIDE DEF e, ns
<1>10. /\ ns \in Seq(NodeType) /\ DOMAIN ns = DOMAIN ks /\ Len(ns) = Len(ks)
       /\ \A n \in DOMAIN ks : /\ ns[n].id = ks[n].id /\ ns[n].dist = ks[n].dist
                               /\ ns[n].known = ks[n].known /\ ns[n].prev = ks[n].prev
                               /\ n # s => EdgesOf(ns, n) = EdgesOf(ks, n)
       /\ EdgesOf(ns, s) = EdgesOf(ks, s) \cup {e}
  BY <1>8, <1>9, EdgeAddedIs
<1>11. \A n \in DOMAIN ks : Untouched(ks, n)
  <2>1. ASSUME NEW n \in DOMAIN ks PROVE Untouched(ks, n)
    <3>1. CASE n \in DOMAIN nodes
      BY <1>1, <1>7, <3>1 DEF Extends, PathInv, Fresh, Untouched
    <3>2. CASE n \notin DOMAIN nodes
      <4>1. ks[n] = NewNode(ks[n].id)
        BY <1>7, <3>2 DEF Extends
      <4>2. ks[n].id \in Keys
        BY <1>8, NodeAt
      <4>3. NewNode(ks[n].id).dist = MAX /\ ~NewNode(ks[n].id).known /\ NewNode(ks[n].id).prev = Null
        BY <4>2, NewNodeIs
      <4> QED BY <4>1, <4>3 DEF Untouched
    <3> QED BY <3>1, <3>2
  <2> QED BY <2>1
<1>12. \A n \in DOMAIN ks : \A x \in EdgesOf(ks, n) : x.dest \in DOMAIN ks
  <2>1. ASSUME NEW n \in DOMAIN ks, NEW x \in EdgesOf(ks, n) PROVE x.dest \in DOMAIN ks
    <3>1. CASE n \in DOMAIN nodes
      <4>1. ks[n] = nodes[n] /\ DOMAIN nodes \subseteq DOMAIN ks
        BY <1>7, <3>1 DEF Extends
      <4>2. x \in EdgesOf(nodes, n)
        BY <2>1, <4>1 DEF EdgesOf
      <4> QED BY <1>2, <3>1, <4>1, <4>2 DEF Inside
    <3>2. CASE n \notin DOMAIN nodes
      <4>1. ks[n] = NewNode(ks[n].id)
        BY <1>7, <3>2 DEF Extends
      <4>2. ks[n].edges = <<>>
        BY <4>1 DEF NewNode
      <4> QED BY <2>1, <4>2 DEF EdgesOf
    <3> QED BY <3>1, <3>2
  <2> QED BY <2>1
<1>13. Inside(ns)
  <2>1. ASSUME NEW n \in DOMAIN ns, NEW x \in EdgesOf(ns, n) PROVE x.dest \in DOMAIN ns
    <3>1. x \in EdgesOf(ks, n) \/ x = e
      BY <1>10, <2>1
    <3> QED BY <1>8, <1>10, <1>12, <2>1, <3>1
  <2> QED BY <2>1 DEF Inside
<1>14. TableFor(ns, mapping')
  BY <1>7, <1>10 DEF TableFor
<1>15. file' \in SUBSET Records /\ IsFiniteSet(file') /\ Cardinality(file') <= lines'
  <2>1. f \in Records
    BY DEF Records
  <2> HIDE DEF f
  <2>2. /\ IsFiniteSet(file \cup {f}) /\ Cardinality(file) \in Nat
        /\ Cardinality(file \cup {f}) = Cardinality(file) \/ Cardinality(file \cup {f}) = Cardinality(file) + 1
    BY <1>2, FS_AddElement, FS_CardinalityType
  <2> QED BY <1>1, <1>2, <1>3, <2>1, <2>2
<1>16. lines' \in 0 .. MaxEdges /\ Len(ns) <= 2 * lines'
  <2>1. Len(ns) <= Len(nodes) + 2 /\ Len(ns) \in Nat
    BY <1>7, <1>10
  <2> QED BY <1>1, <1>2, <1>3, <2>1
<1>17. Graph'
  BY <1>1, <1>7, <1>10, <1>13, <1>14, <1>15, <1>16 DEF Graph, ns
<1>18. Fresh'
  <2>1. \A n \in DOMAIN ns : Untouched(ns, n)
    BY <1>10, <1>11 DEF Untouched
  <2>2. phase = "reading" /\ heap = {} /\ current = Null
    BY <1>1 DEF PathInv, Fresh
  <2> QED BY <1>1, <2>1, <2>2 DEF Fresh, ns
<1>19. Underway' /\ Ways'
  BY <1>1 DEF Underway, Ways
<1> QED BY <1>17, <1>18, <1>19 DEF PathInv

\* What a step that only changes distances, marks and ways keeps.
LEMMA GraphKept ==
  ASSUME PathInv, Kept(nodes, nodes'), UNCHANGED <<mapping, lines, file, grown>>,
         phase' \in {"reading", "running", "done"}
  PROVE  Graph'
<1>1. /\ nodes \in Seq(NodeType) /\ Inside(nodes) /\ TableFor(nodes, mapping)
      /\ lines \in 0 .. MaxEdges /\ Len(nodes) <= 2 * lines
      /\ file \in SUBSET Records /\ IsFiniteSet(file) /\ Cardinality(file) <= lines
      /\ grown \in BOOLEAN
  BY DEF PathInv, Graph
<1> DEFINE ns == nodes'
<1>2. Kept(nodes, ns)
  OBVIOUS
<1> HIDE DEF ns
<1>3. Len(ns) = Len(nodes) /\ Inside(ns) /\ TableFor(ns, mapping) /\ ns \in Seq(NodeType)
  BY <1>1, <1>2, KeptSame DEF Kept
<1>4. /\ Len(nodes') = Len(nodes) /\ Inside(nodes') /\ TableFor(nodes', mapping)
      /\ nodes' \in Seq(NodeType)
  BY <1>3 DEF ns
<1> QED BY <1>1, <1>4 DEF Graph

\* dijkstra() up to its loop.
LEMMA StartPaths ==
  ASSUME PathInv, NEW v \in Keys, Start(v)
  PROVE  PathInv'
<1> DEFINE x == FindNode(v)
           ns == nodes'
           q == {[node |-> n, key |-> MAX] : n \in Firsts(nodes)}
<1>1. /\ phase = "reading" /\ x # Null /\ source' = v /\ phase' = "running"
      /\ ns = Lowered(nodes, x, 0, Null) /\ heap' = SetKey(q, nodes, v, 0)
      /\ UNCHANGED <<mapping, current, lines, file, grown>>
  BY DEF Start, Lowered
<1>2. nodes \in Seq(NodeType) /\ TableFor(nodes, mapping) /\ DOMAIN nodes = 1 .. Len(nodes)
  BY NodeAt DEF PathInv, Graph
<1>3. x = Val(mapping, v) /\ x \in DOMAIN nodes
  BY <1>1, <1>2, FoundIs DEF FindNode, Val
<1>4. FindNode(source)' = x
  BY <1>1 DEF FindNode
<1>5. current = Null /\ \A n \in DOMAIN nodes : Untouched(nodes, n)
  BY <1>1 DEF PathInv, Fresh
<1> HIDE DEF x, ns
<1>6. /\ Kept(nodes, ns) /\ Elsewhere(nodes, x, ns)
      /\ ns[x].dist = 0 /\ ns[x].prev = Null /\ ns[x].known = nodes[x].known
  <2> DEFINE p == Null
  <2>1. 0 \in Nat /\ p \in Nat \cup {Null} /\ nodes \in Seq(NodeType) /\ x \in DOMAIN nodes
    BY <1>2, <1>3
  <2>2. ns = Lowered(nodes, x, 0, p)
    BY <1>1
  <2> HIDE DEF p
  <2>3. /\ Kept(nodes, ns) /\ Elsewhere(nodes, x, ns)
        /\ ns[x].dist = 0 /\ ns[x].prev = p /\ ns[x].known = nodes[x].known
    BY <2>1, <2>2, LoweredIs
  <2> QED BY <2>3 DEF p
<1>7. Graph'
  BY <1>1, <1>6, GraphKept DEF ns
<1>8. heap' \in SUBSET HeapOf(ns)
  <2>1. MAX \in Nat
    BY CostAssumption
  <2>2. q \in SUBSET HeapOf(nodes)
    BY <2>1 DEF HeapOf
  <2> HIDE DEF q
  <2>3. SetKey(q, nodes, v, 0) \in SUBSET HeapOf(nodes)
    <3>1. 0 \in Nat
      OBVIOUS
    <3> QED BY <2>2, <3>1, SetKeyKeeps
  <2>4. Firsts(ns) = Firsts(nodes)
    BY <1>2, <1>6, KeptSame
  <2> QED BY <1>1, <2>3, <2>4 DEF HeapOf
<1>9. heap' # {}
  <2>1. 1 \in Firsts(nodes)
    <3>1. 1 \in DOMAIN nodes /\ 1 .. 1 - 1 = {}
      BY <1>2, <1>3
    <3> QED BY <3>1 DEF Firsts
  <2>2. [node |-> 1, key |-> MAX] \in q
    BY <2>1
  <2> HIDE DEF q
  <2>3. PICK h : h \in q
    BY <2>2
  <2>4. (IF nodes[h.node].id = v THEN [h EXCEPT !.key = 0] ELSE h) \in SetKey(q, nodes, v, 0)
    BY <2>3 DEF SetKey
  <2> QED BY <1>1, <2>4
<1>10. Underway'
  <2>1. DOMAIN ns = DOMAIN nodes
    BY <1>6 DEF Kept
  <2> QED BY <1>1, <1>3, <1>4, <1>5, <1>6, <1>8, <1>9, <2>1 DEF Underway, ns
<1>11. Fresh'
  BY <1>1 DEF Fresh
<1>12. \A n \in DOMAIN ns : Way(ns, x, n)
  <2>1. MAX \in Nat
    BY CostAssumption
  <2>2. ASSUME NEW n \in DOMAIN ns PROVE Way(ns, x, n)
    <3>1. CASE n = x
      BY <1>6, <2>1, <3>1 DEF Way
    <3>2. CASE n # x
      <4>1. n \in DOMAIN nodes
        BY <2>2, <1>6 DEF Kept
      <4>2. ns[n] = nodes[n]
        BY <1>6, <3>2, <4>1 DEF Elsewhere
      <4>3. ns[n].dist = MAX /\ ns[n].prev = Null
        BY <1>5, <4>1, <4>2 DEF Untouched
      <4> QED BY <2>1, <3>2, <4>3 DEF Way
    <3> QED BY <3>1, <3>2
  <2> QED BY <2>2
<1>13. Ways'
  BY <1>4, <1>12 DEF Ways, ns
<1> QED BY <1>7, <1>10, <1>11, <1>13 DEF PathInv

\* One pass of the loop, or the last one after it.
LEMMA VisitPaths ==
  ASSUME PathInv, phase = "running", NEW n \in DOMAIN nodes, NEW q \in SUBSET HeapOf(nodes),
         Visit(n, q), UNCHANGED <<mapping, history>>, current' = n, phase' \in {"running", "done"}
  PROVE  PathInv'
<1> DEFINE ns == nodes'
           x == FindNode(source)
<1>1. nodes \in Seq(NodeType) /\ Inside(nodes) /\ TableFor(nodes, mapping)
  BY DEF PathInv, Graph
<1>2. /\ source \in Keys /\ x \in DOMAIN nodes /\ nodes[x].dist = 0
      /\ \A m \in DOMAIN nodes : Way(nodes, x, m)
  BY DEF PathInv, Underway, Ways
<1>3. /\ UNCHANGED <<lines, file, grown>> /\ source' = source /\ FindNode(source)' = x
      /\ phase' # "reading" /\ phase' \in {"reading", "running", "done"}
  BY DEF history, FindNode
<1>4. /\ Kept(nodes, nodes') /\ Advanced(nodes, n, nodes')
      /\ \A e \in EdgesOf(nodes, n) : Served(nodes, n, nodes', e)
      /\ heap' \in SUBSET HeapOf(nodes)
  <2> DEFINE agree == FALSE
  <2>1. agree \in BOOLEAN /\ (agree => Alone(nodes, n) /\ q = Waiting(MarkedAt(nodes, n)))
    OBVIOUS
  <2> HIDE DEF agree
  <2> QED BY <1>1, <2>1, VisitEffect
<1>5. Graph'
  BY <1>3, <1>4, GraphKept
<1>6. Null \notin DOMAIN nodes
  BY NullIsNone DEF PathInv
<1>7. Kept(nodes, ns) /\ Advanced(nodes, n, ns)
  BY <1>4
<1> HIDE DEF ns, x
<1>8. /\ ns \in Seq(NodeType) /\ DOMAIN ns = DOMAIN nodes
      /\ Firsts(ns) = Firsts(nodes)
      /\ \A m \in DOMAIN nodes : EdgesOf(ns, m) = EdgesOf(nodes, m)
  BY <1>1, <1>7, KeptSame DEF Kept
<1>9. \A m \in DOMAIN nodes : ns[m].dist \in Nat /\ nodes[m].dist \in Nat
  BY <1>1, <1>8, NodeAt
<1>10. ns[x].dist = 0
  BY <1>2, <1>7, <1>9 DEF Advanced, Unmoved, Improved
<1>11. Underway'
  <2>1. heap' \in SUBSET HeapOf(ns)
    BY <1>4, <1>8 DEF HeapOf
  <2>2. ns[n].known
    BY <1>7 DEF Advanced
  <2>3. current' # Null
    BY <1>6
  <2> QED BY <1>2, <1>3, <1>8, <1>10, <2>1, <2>2, <2>3 DEF Underway, ns
<1>12. Fresh'
  BY <1>3 DEF Fresh
<1>13. ASSUME NEW m \in DOMAIN ns PROVE Way(ns, x, m)
  <2>1. m \in DOMAIN nodes /\ Way(nodes, x, m) /\ MAX \in Nat
    BY <1>2, <1>8, <1>13, CostAssumption
  <2>2. \A l \in DOMAIN nodes : nodes[l].known => ns[l].known /\ Unmoved(nodes, ns, l)
    BY <1>7 DEF Advanced, Improved
  <2>3. CASE Unmoved(nodes, ns, m)
    <3>1. CASE nodes[m].prev = Null
      BY <2>1, <2>3, <3>1 DEF Unmoved, Way
    <3>2. CASE nodes[m].prev # Null
      <4> DEFINE l == nodes[m].prev
      <4>1. /\ l \in DOMAIN nodes /\ nodes[l].known
            /\ nodes[m].dist <= MAX
            /\ \E e \in EdgesOf(nodes, l) : e.dest = m /\ nodes[m].dist = nodes[l].dist + e.cost
        BY <2>1, <3>2 DEF Way
      <4>2. ns[m].prev = l /\ ns[m].dist = nodes[m].dist /\ ns[l].dist = nodes[l].dist /\ ns[l].known
        BY <2>2, <2>3, <4>1 DEF Unmoved
      <4>3. l # Null
        BY <3>2
      <4> HIDE DEF l
      <4> QED BY <1>8, <4>1, <4>2, <4>3 DEF Way
    <3> QED BY <3>1, <3>2
  <2>4. CASE Improved(nodes, n, ns, m)
    <3>1. ns[m].dist < nodes[m].dist /\ ns[m].prev = n
      BY <2>4 DEF Improved
    <3>2. PICK e \in EdgesOf(nodes, n) : e.dest = m /\ ns[m].dist = nodes[n].dist + e.cost
      BY <2>4 DEF Improved
    <3>3. ns[n].dist = nodes[n].dist /\ ns[n].known
      BY <1>7 DEF Advanced, Unmoved, Improved
    <3>4. ns[m].dist <= MAX
      BY <1>9, <2>1, <3>1 DEF Way
    <3>5. e \in EdgesOf(ns, n) /\ n # Null /\ n \in DOMAIN ns
      BY <1>6, <1>8
    <3>6. ns[m].dist = ns[n].dist + e.cost
      BY <3>2, <3>3
    <3> QED BY <3>1, <3>2, <3>3, <3>4, <3>5, <3>6 DEF Way
  <2> QED BY <1>7, <2>1, <2>3, <2>4 DEF Advanced
<1>14. Ways'
  BY <1>3, <1>13 DEF Ways, ns
<1> QED BY <1>5, <1>11, <1>12, <1>14 DEF PathInv

LEMMA NextPaths ==
  ASSUME PathInv, [Next]_vars
  PROVE  PathInv'
<1>1. ASSUME NEW from \in Keys, NEW to \in Keys, NEW cost \in Costs, NEW memory \in BOOLEAN,
             ReadLine(from, to, cost, memory)
      PROVE  PathInv'
  BY <1>1, ReadPaths
<1>2. ASSUME NEW v \in Keys, Start(v) PROVE PathInv'
  BY <1>2, StartPaths
<1>3. ASSUME VisitNext PROVE PathInv'
  <2>1. PICK h \in MinNodes : Visit(h.node, heap \ {h}) /\ current' = h.node
    BY <1>3 DEF VisitNext
  <2>2. phase = "running" /\ UNCHANGED <<mapping, phase, history>>
    BY <1>3 DEF VisitNext
  <2>3. heap \in SUBSET HeapOf(nodes) /\ h \in heap
    BY <2>1, <2>2 DEF PathInv, Underway, MinNodes
  <2>4. h.node \in DOMAIN nodes /\ heap \ {h} \in SUBSET HeapOf(nodes)
    BY <2>3 DEF HeapOf, Firsts
  <2> QED BY <2>1, <2>2, <2>4, VisitPaths
<1>4. ASSUME VisitAgain PROVE PathInv'
  <2>1. /\ phase = "running" /\ heap = {} /\ Visit(current, heap) /\ phase' = "done"
        /\ UNCHANGED <<mapping, current, history>>
    BY <1>4 DEF VisitAgain
  <2>2. current \in DOMAIN nodes /\ heap \in SUBSET HeapOf(nodes)
    BY <2>1 DEF PathInv, Underway
  <2> QED BY <2>1, <2>2, VisitPaths
<1>5. ASSUME UNCHANGED vars PROVE PathInv'
  <2>1. /\ UNCHANGED <<nodes, mapping, heap, current, phase, source, lines, file, grown>>
    BY <1>5 DEF vars, history
  <2> QED BY <2>1 DEF PathInv, Graph, Fresh, Underway, Ways, FindNode
<1> QED BY <1>1, <1>2, <1>3, <1>4, <1>5 DEF Next

LEMMA PathsMeant ==
  ASSUME PathInv
  PROVE  PathsReal
<1> SUFFICES ASSUME phase # "reading", NEW n \in DOMAIN nodes, nodes[n].prev # Null
             PROVE  \E i \in DOMAIN nodes[nodes[n].prev].edges :
                       LET e == nodes[nodes[n].prev].edges[i]
                       IN  e.dest = n /\ nodes[n].dist = nodes[nodes[n].prev].dist + e.cost
  BY DEF PathInv, Ways, Way, PathsReal
<1>1. Way(nodes, FindNode(source), n)
  BY DEF PathInv, Ways
<1>2. PICK e \in EdgesOf(nodes, nodes[n].prev) :
         e.dest = n /\ nodes[n].dist = nodes[nodes[n].prev].dist + e.cost
  BY <1>1 DEF Way
<1>3. PICK i \in DOMAIN nodes[nodes[n].prev].edges : e = nodes[nodes[n].prev].edges[i]
  BY DEF EdgesOf
<1> QED BY <1>2, <1>3

\* Whatever the file, the hash values and the memory, out() can follow prev
\* from every node with a distance back to the source, and what the steps cost
\* adds up (graph.cpp:102-106, 127-131).
THEOREM PathsAreReal == Spec => []PathsReal
<1>1. Init => PathInv
  BY InitPaths
<1>2. PathInv /\ [Next]_vars => PathInv'
  BY NextPaths
<1>3. PathInv => PathsReal
  BY PathsMeant
<1> QED BY <1>1, <1>2, <1>3, PTL DEF Spec

(***************************************************************************)
(* The graph is what the file says, as long as mapping was not rehashed.   *)
(***************************************************************************)
Line(ns, n, e) == [from |-> ns[n].id, to |-> ns[e.dest].id, cost |-> e.cost]

\* An edge leaves the first node of its id, and leads to the first node of
\* its id or, on a line with one new id twice, to the second.
Backed(ns, fs) == \A n \in DOMAIN ns : \A e \in EdgesOf(ns, n) :
                     /\ n \in Firsts(ns) /\ Line(ns, n, e) \in fs
                     /\ e.dest \in Firsts(ns) \/ ns[e.dest].id = ns[n].id

Covered(ns, fs) == \A f \in fs : \E n \in Firsts(ns) : \E e \in EdgesOf(ns, n) : f = Line(ns, n, e)

Drawn(ns, fs) == Backed(ns, fs) /\ Covered(ns, fs)

Mapped == ~grown => Named(nodes, mapping) /\ Drawn(nodes, file)

LEMMA DrawnKept ==
  ASSUME NEW ns \in Seq(NodeType), Inside(ns), NEW ms, Kept(ns, ms), NEW fs, Drawn(ns, fs)
  PROVE  Drawn(ms, fs)
<1>1. /\ Firsts(ms) = Firsts(ns) /\ Firsts(ns) \subseteq DOMAIN ns /\ DOMAIN ms = DOMAIN ns
      /\ \A m \in DOMAIN ns : EdgesOf(ms, m) = EdgesOf(ns, m) /\ ms[m].id = ns[m].id
  BY KeptSame DEF Kept
<1>2. \A n \in DOMAIN ns : \A e \in EdgesOf(ns, n) :
         e.dest \in DOMAIN ns /\ Line(ms, n, e) = Line(ns, n, e)
  BY <1>1 DEF Inside, Line
<1>3. Backed(ms, fs)
  BY <1>1, <1>2 DEF Drawn, Backed
<1>4. Covered(ms, fs)
  <2>1. ASSUME NEW f \in fs
        PROVE  \E n \in Firsts(ms) : \E e \in EdgesOf(ms, n) : f = Line(ms, n, e)
    <3>0. PICK n \in Firsts(ns) : \E e \in EdgesOf(ns, n) : f = Line(ns, n, e)
      BY DEF Drawn, Covered
    <3>1. PICK e \in EdgesOf(ns, n) : f = Line(ns, n, e)
      BY <3>0
    <3>2. n \in Firsts(ms) /\ e \in EdgesOf(ms, n) /\ f = Line(ms, n, e)
      BY <1>1, <1>2, <3>1
    <3> QED BY <3>2
  <2> QED BY <2>1 DEF Covered
<1> QED BY <1>3, <1>4 DEF Drawn

LEMMA DrawnMore ==
  ASSUME NEW ns \in Seq(NodeType), Inside(ns), NEW fs, Drawn(ns, fs), NEW ks, Extends(ns, ks),
         NEW s \in DOMAIN ks, NEW x \in EdgeType, x.dest \in DOMAIN ks, NEW from, NEW to,
         EndsAre(ks, from, to, s, x.dest), NEW ms, ms = EdgeAdded(ks, s, x)
  PROVE  /\ Drawn(ms, fs \cup {[from |-> from, to |-> to, cost |-> x.cost]})
         /\ \A u : Named(ks, u) => Named(ms, u)
<1> DEFINE t == x.dest
           f == [from |-> from, to |-> to, cost |-> x.cost]
           gs == fs \cup {f}
<1>1. ks \in Seq(NodeType) /\ DOMAIN ns \subseteq DOMAIN ks
      /\ \A m \in DOMAIN ns : ks[m] = ns[m] /\ (m \in Firsts(ks) <=> m \in Firsts(ns))
  BY DEF Extends
<1>2. x.dest = t /\ t \in DOMAIN ks
  OBVIOUS
<1> HIDE DEF t
<1>4. /\ ms \in Seq(NodeType) /\ DOMAIN ms = DOMAIN ks
      /\ \A n \in DOMAIN ks : ms[n].id = ks[n].id /\ (n # s => EdgesOf(ms, n) = EdgesOf(ks, n))
      /\ EdgesOf(ms, s) = EdgesOf(ks, s) \cup {x}
  <2>1. /\ ms \in Seq(NodeType) /\ DOMAIN ms = DOMAIN ks /\ Len(ms) = Len(ks)
        /\ \A n \in DOMAIN ks : /\ ms[n].id = ks[n].id /\ ms[n].dist = ks[n].dist
                                /\ ms[n].known = ks[n].known /\ ms[n].prev = ks[n].prev
                                /\ n # s => EdgesOf(ms, n) = EdgesOf(ks, n)
        /\ EdgesOf(ms, s) = EdgesOf(ks, s) \cup {x}
    BY <1>1, EdgeAddedIs
  <2> QED BY <2>1
<1>5. Firsts(ms) = Firsts(ks) /\ Firsts(ks) \subseteq DOMAIN ks
  <2>1. Firsts(ms) = Firsts(ks)
    BY <1>1, <1>4, FirstsSame
  <2> QED BY <2>1 DEF Firsts
<1>6. \A n \in DOMAIN ks : \A e \in EdgesOf(ks, n) : n \in DOMAIN ns /\ e \in EdgesOf(ns, n)
  <2>1. ASSUME NEW n \in DOMAIN ks, NEW e \in EdgesOf(ks, n), n \notin DOMAIN ns PROVE FALSE
    <3>1. ks[n] = NewNode(ks[n].id)
      BY <2>1 DEF Extends
    <3>2. ks[n].edges = <<>>
      BY <3>1 DEF NewNode
    <3> QED BY <2>1, <3>2 DEF EdgesOf
  <2> QED BY <1>1, <2>1 DEF EdgesOf
<1>7. \A n \in DOMAIN ns : EdgesOf(ks, n) = EdgesOf(ns, n)
  BY <1>1 DEF EdgesOf
<1>8. \A n \in DOMAIN ns : \A e \in EdgesOf(ns, n) :
         e.dest \in DOMAIN ns /\ Line(ms, n, e) = Line(ns, n, e)
  BY <1>1, <1>4 DEF Inside, Line
<1>9. Line(ms, s, x) = f /\ ms[s].id = from /\ ms[t].id = to
      /\ s \in Firsts(ms) /\ (t \in Firsts(ms) \/ to = from)
  BY <1>2, <1>4, <1>5 DEF Line, EndsAre, t
<1> HIDE DEF f
<1>10. Backed(ms, gs)
  <2>1. ASSUME NEW n \in DOMAIN ms, NEW e \in EdgesOf(ms, n)
        PROVE  /\ n \in Firsts(ms) /\ Line(ms, n, e) \in gs
               /\ e.dest \in Firsts(ms) \/ ms[e.dest].id = ms[n].id
    <3>1. CASE n = s /\ e = x
      BY <1>2, <1>9, <3>1
    <3>2. CASE e \in EdgesOf(ks, n)
      <4>1. n \in DOMAIN ns /\ e \in EdgesOf(ns, n)
        BY <1>4, <1>6, <2>1, <3>2
      <4>2. e.dest \in DOMAIN ns /\ Line(ms, n, e) = Line(ns, n, e)
        BY <1>8, <4>1
      <4>3. /\ n \in Firsts(ns) /\ Line(ns, n, e) \in fs
            /\ e.dest \in Firsts(ns) \/ ns[e.dest].id = ns[n].id
        BY <4>1 DEF Drawn, Backed
      <4>4. ms[n].id = ns[n].id /\ ms[e.dest].id = ns[e.dest].id
        BY <1>1, <1>4, <4>1, <4>2
      <4> QED BY <1>1, <1>5, <4>1, <4>2, <4>3, <4>4
    <3> QED BY <1>4, <2>1, <3>1, <3>2
  <2> QED BY <2>1 DEF Backed
<1>11. Covered(ms, gs)
  <2>1. ASSUME NEW l \in gs
        PROVE  \E n \in Firsts(ms) : \E e \in EdgesOf(ms, n) : l = Line(ms, n, e)
    <3>1. CASE l = f
      BY <1>4, <1>9, <3>1
    <3>2. CASE l \in fs
      <4>0. PICK n \in Firsts(ns) : \E e \in EdgesOf(ns, n) : l = Line(ns, n, e)
        BY <3>2 DEF Drawn, Covered
      <4>1. PICK e \in EdgesOf(ns, n) : l = Line(ns, n, e)
        BY <4>0
      <4>2. n \in DOMAIN ns
        BY DEF Firsts
      <4>3. n \in Firsts(ms) /\ e \in EdgesOf(ks, n) /\ l = Line(ms, n, e)
        BY <1>1, <1>5, <1>7, <1>8, <4>1, <4>2
      <4>4. e \in EdgesOf(ms, n)
        BY <1>1, <1>4, <4>2, <4>3
      <4> QED BY <4>3, <4>4
    <3> QED BY <2>1, <3>1, <3>2
  <2> QED BY <2>1 DEF Covered
<1>12. \A u : Named(ks, u) => Named(ms, u)
  BY <1>4, <1>5 DEF Named
<1> QED BY <1>10, <1>11, <1>12 DEF Drawn, f

LEMMA ReadMapped ==
  ASSUME PathInv, Mapped,
         NEW from \in Keys, NEW to \in Keys, NEW cost \in Costs, NEW memory \in BOOLEAN,
         ReadLine(from, to, cost, memory)
  PROVE  Mapped'
<1> DEFINE f == [from |-> from, to |-> to, cost |-> cost]
<1>1. lines < MaxEdges /\ InsertEdge(from, to, cost, memory) /\ file' = file \cup {f}
  BY DEF ReadLine
<1>2. /\ nodes \in Seq(NodeType) /\ Inside(nodes) /\ TableFor(nodes, mapping) /\ grown \in BOOLEAN
      /\ lines \in 0 .. MaxEdges /\ Len(nodes) <= 2 * lines
  BY DEF PathInv, Graph
<1>3. Len(nodes) + 2 <= 2 * MaxEdges
  <2>1. Len(nodes) \in Nat /\ MaxEdges \in Nat /\ lines \in Nat
    BY <1>2, CostAssumption
  <2> QED BY <1>1, <1>2, <2>1
<1>4. \E ks : \E s, t \in DOMAIN ks :
            /\ Extends(nodes, ks)
            /\ nodes' = EdgeAdded(ks, s, [dest |-> t, cost |-> cost])
            /\ ~grown' => ~grown
            /\ ~grown' /\ Named(nodes, mapping) =>
                  Named(ks, mapping') /\ EndsAre(ks, from, to, s, t)
  BY <1>1, <1>2, <1>3, InsertEffect
<1>5. PICK ks : \E s, t \in DOMAIN ks :
            /\ Extends(nodes, ks)
            /\ nodes' = EdgeAdded(ks, s, [dest |-> t, cost |-> cost])
            /\ ~grown' => ~grown
            /\ ~grown' /\ Named(nodes, mapping) =>
                  Named(ks, mapping') /\ EndsAre(ks, from, to, s, t)
  BY <1>4
<1>6. PICK s \in DOMAIN ks, t \in DOMAIN ks :
            /\ Extends(nodes, ks)
            /\ nodes' = EdgeAdded(ks, s, [dest |-> t, cost |-> cost])
            /\ ~grown' => ~grown
            /\ ~grown' /\ Named(nodes, mapping) =>
                  Named(ks, mapping') /\ EndsAre(ks, from, to, s, t)
  BY <1>5
<1> SUFFICES ASSUME ~grown' PROVE Named(nodes', mapping') /\ Drawn(nodes', file')
  BY DEF Mapped
<1>7. Named(nodes, mapping) /\ Drawn(nodes, file) /\ Named(ks, mapping') /\ EndsAre(ks, from, to, s, t)
  BY <1>6 DEF Mapped
<1> DEFINE ns == nodes'
           x == [dest |-> t, cost |-> cost]
<1>8. ns = EdgeAdded(ks, s, x) /\ x \in EdgeType /\ x.dest = t /\ x.cost = cost
  <2>1. t \in Nat
    BY <1>6 DEF Extends
  <2> QED BY <1>6, <2>1 DEF EdgeType
<1> HIDE DEF ns, x
<1>9. Drawn(ns, file \cup {f}) /\ \A u : Named(ks, u) => Named(ns, u)
  <2>1. /\ Drawn(ns, file \cup {[from |-> from, to |-> to, cost |-> x.cost]})
        /\ \A u : Named(ks, u) => Named(ns, u)
    BY <1>2, <1>6, <1>7, <1>8, DrawnMore
  <2> QED BY <1>8, <2>1
<1> HIDE DEF f
<1> QED BY <1>1, <1>7, <1>9 DEF ns

LEMMA KeptMapped ==
  ASSUME PathInv, Mapped, Kept(nodes, nodes'), UNCHANGED <<mapping, lines, file, grown>>
  PROVE  Mapped'
<1> DEFINE ns == nodes'
<1>1. nodes \in Seq(NodeType) /\ Inside(nodes) /\ Kept(nodes, ns)
  BY DEF PathInv, Graph
<1> HIDE DEF ns
<1>2. Drawn(nodes, file) => Drawn(ns, file)
  BY <1>1, DrawnKept
<1>3. Named(nodes, mapping) => Named(ns, mapping)
  BY <1>1, KeptSame
<1> QED BY <1>2, <1>3 DEF Mapped, ns

(***************************************************************************)
(* The heap agrees with the nodes, as long as mapping was not rehashed.    *)
(***************************************************************************)
Agreed == ~grown => /\ phase = "running" =>
                          /\ heap = Waiting(nodes)
                          /\ \A n \in DOMAIN nodes : \A h \in heap :
                                nodes[n].known => nodes[n].dist <= h.key
                    /\ phase = "done" => \A n \in Firsts(nodes) : nodes[n].known

HeapInv == PathInv /\ Mapped /\ Agreed

\* Node n, which leaves the heap, is no farther than those that stay there,
\* and no nearer than those that left it before.
Nearest(ns, n) == /\ n \in Firsts(ns) /\ ~ns[n].known
                  /\ \A m \in Firsts(ns) : ~ns[m].known => ns[n].dist <= ns[m].dist
                  /\ \A m \in DOMAIN ns : ns[m].known => ns[m].dist <= ns[n].dist

Visited(ns, n, ms) == /\ Kept(ns, ms) /\ Advanced(ns, n, ms)
                      /\ \A e \in EdgesOf(ns, n) : Served(ns, n, ms, e)

\* Without a rehash the source is the first node of its id.
LEMMA SourceFirst ==
  ASSUME PathInv, Mapped, ~grown, phase # "reading"
  PROVE  FindNode(source) \in Firsts(nodes) /\ nodes[FindNode(source)].id = source
<1>1. source \in Keys /\ FindNode(source) \in DOMAIN nodes /\ Named(nodes, mapping)
  BY DEF PathInv, Underway, Mapped
<1>2. FindNode(source) = Val(mapping, source)
  BY DEF FindNode, Val
<1>3. Null \notin DOMAIN nodes
  BY NullIsNone DEF PathInv
<1>4. Val(mapping, source) # Null
  BY <1>1, <1>2, <1>3
<1>5. Val(mapping, source) \in Firsts(nodes) /\ nodes[Val(mapping, source)].id = source
  BY <1>1, <1>4 DEF Named
<1> QED BY <1>2, <1>5

LEMMA StartAgreed ==
  ASSUME PathInv, Mapped, ~grown, NEW v \in Keys, Start(v)
  PROVE  /\ heap' = Waiting(nodes')
         /\ \A n \in DOMAIN nodes : ~nodes'[n].known /\ (n # FindNode(v) => nodes'[n].dist = MAX)
         /\ Kept(nodes, nodes')
<1> DEFINE x == FindNode(v)
           ns == nodes'
           q == {[node |-> n, key |-> MAX] : n \in Firsts(nodes)}
<1>1. /\ phase = "reading" /\ x # Null
      /\ ns = Lowered(nodes, x, 0, Null) /\ heap' = SetKey(q, nodes, v, 0)
  BY DEF Start, Lowered
<1>2. nodes \in Seq(NodeType) /\ TableFor(nodes, mapping)
  BY DEF PathInv, Graph
<1>3. x = Val(mapping, v) /\ x \in DOMAIN nodes
  BY <1>1, <1>2, FoundIs DEF FindNode, Val
<1>4. x \in Firsts(nodes) /\ nodes[x].id = v
  BY <1>1, <1>3 DEF Mapped, Named
<1>5. \A n \in DOMAIN nodes : Untouched(nodes, n)
  BY <1>1 DEF PathInv, Fresh
<1> HIDE DEF x, ns
<1>6. /\ Kept(nodes, ns) /\ Elsewhere(nodes, x, ns)
      /\ ns[x].dist = 0 /\ ns[x].known = nodes[x].known
  <2> DEFINE p == Null
  <2>1. 0 \in Nat /\ p \in Nat \cup {Null} /\ nodes \in Seq(NodeType) /\ x \in DOMAIN nodes
    BY <1>2, <1>3
  <2>2. ns = Lowered(nodes, x, 0, p)
    BY <1>1
  <2> HIDE DEF p
  <2>3. /\ Kept(nodes, ns) /\ Elsewhere(nodes, x, ns)
        /\ ns[x].dist = 0 /\ ns[x].prev = p /\ ns[x].known = nodes[x].known
    BY <2>1, <2>2, LoweredIs
  <2> QED BY <2>3
<1>7. q = Waiting(nodes)
  <2>1. {m \in Firsts(nodes) : ~nodes[m].known} = Firsts(nodes)
    BY <1>5 DEF Firsts, Untouched
  <2>2. Waiting(nodes) = {[node |-> m, key |-> nodes[m].dist] : m \in Firsts(nodes)}
    BY <2>1 DEF Waiting
  <2>3. \A m \in Firsts(nodes) : nodes[m].dist = MAX
    BY <1>5 DEF Firsts, Untouched
  <2> QED BY <2>2, <2>3
<1> HIDE DEF q
<1>8. /\ \A m \in DOMAIN nodes : ns[m].known = nodes[m].known /\ (m # x => ns[m].dist = nodes[m].dist)
      /\ ~nodes[x].known
  BY <1>3, <1>5, <1>6 DEF Elsewhere, Untouched
<1>9. SetKey(Waiting(nodes), nodes, nodes[x].id, 0) = Waiting(ns)
  <2> DEFINE z == 0
  <2>1. z \in Nat /\ ns[x].dist = z
    BY <1>6
  <2> HIDE DEF z
  <2>2. SetKey(Waiting(nodes), nodes, nodes[x].id, z) = Waiting(ns)
    BY <1>2, <1>3, <1>4, <1>6, <1>8, <2>1, SetKeyAgrees
  <2> QED BY <2>2 DEF z
<1>10. heap' = Waiting(ns)
  BY <1>1, <1>4, <1>7, <1>9
<1>11. \A n \in DOMAIN nodes : ~ns[n].known /\ (n # x => ns[n].dist = MAX)
  BY <1>5, <1>8 DEF Untouched
<1> QED BY <1>6, <1>10, <1>11 DEF x, ns

\* One pass of the loop.
LEMMA VisitAgreed ==
  ASSUME HeapInv, ~grown, VisitNext
  PROVE  \E n \in Firsts(nodes) : Nearest(nodes, n) /\ Visited(nodes, n, nodes')
                                     /\ heap' = Waiting(nodes')
<1>1. PICK h \in MinNodes : Visit(h.node, heap \ {h})
  BY DEF VisitNext
<1>2. phase = "running" /\ heap = Waiting(nodes) /\ h \in heap /\ \A l \in heap : h.key <= l.key
  BY <1>1 DEF VisitNext, HeapInv, Agreed, MinNodes
<1>3. /\ nodes \in Seq(NodeType) /\ Inside(nodes) /\ heap \in SUBSET HeapOf(nodes)
      /\ Drawn(nodes, file)
      /\ \A n \in DOMAIN nodes : \A l \in heap : nodes[n].known => nodes[n].dist <= l.key
  BY <1>2 DEF HeapInv, PathInv, Graph, Underway, Mapped, Agreed
<1> DEFINE n == h.node
           q == heap \ {h}
           ns == nodes'
           Old(m) == [node |-> m, key |-> nodes[m].dist]
           U == {m \in Firsts(nodes) : ~nodes[m].known}
<1>4. \A l : l \in heap <=> \E m \in U : l = Old(m)
  BY <1>2 DEF Waiting
<1>5. n \in U /\ h = Old(n) /\ h.key = nodes[n].dist
  <2>1. PICK m \in U : h = Old(m)
    BY <1>2, <1>4
  <2> QED BY <2>1
<1>6. n \in Firsts(nodes) /\ n \in DOMAIN nodes /\ ~nodes[n].known
  BY <1>5 DEF Firsts
<1>7. Nearest(nodes, n)
  <2>1. ASSUME NEW m \in Firsts(nodes), ~nodes[m].known PROVE nodes[n].dist <= nodes[m].dist
    <3>1. Old(m) \in heap
      BY <1>4, <2>1
    <3>2. h.key <= Old(m).key
      BY <1>2, <3>1
    <3> QED BY <1>5, <3>2
  <2>2. ASSUME NEW m \in DOMAIN nodes, nodes[m].known PROVE nodes[m].dist <= nodes[n].dist
    BY <1>2, <1>3, <1>5, <2>2
  <2> QED BY <1>6, <2>1, <2>2 DEF Nearest
<1>8. Alone(nodes, n)
  BY <1>3, <1>6 DEF Alone, Drawn, Backed
<1>9. q = Waiting(MarkedAt(nodes, n))
  <2> DEFINE ms == MarkedAt(nodes, n)
             New1(m) == [node |-> m, key |-> ms[m].dist]
             W == {m \in Firsts(ms) : ~ms[m].known}
  <2> HIDE DEF n
  <2>1. /\ Kept(nodes, ms)
        /\ \A m \in DOMAIN nodes : /\ ms[m].dist = nodes[m].dist /\ ms[m].prev = nodes[m].prev
                                   /\ ms[m].known <=> nodes[m].known \/ m = n
    BY <1>3, <1>6, MarkedIs
  <2> HIDE DEF ms
  <2>2. Firsts(ms) = Firsts(nodes) /\ Firsts(nodes) \subseteq DOMAIN nodes
    BY <1>3, <2>1, KeptSame
  <2>3. \A m : m \in W <=> m \in U /\ m # n
    BY <2>1, <2>2
  <2>4. \A m \in U : New1(m) = Old(m)
    BY <2>1, <2>2
  <2>5. \A l : l \in Waiting(ms) <=> \E m \in W : l = New1(m)
    BY DEF Waiting
  <2>6. \A m \in U : Old(m) = h => m = n
    BY <1>5
  <2> HIDE DEF W, U, New1, Old
  <2>7. \A l : l \in q <=> l \in Waiting(ms)
    BY <1>4, <1>5, <2>3, <2>4, <2>5, <2>6
  <2>8. q = Waiting(ms)
    BY <2>7
  <2> QED BY <2>8 DEF ms
<1>10. /\ Kept(nodes, nodes') /\ Advanced(nodes, n, nodes')
       /\ \A e \in EdgesOf(nodes, n) : Served(nodes, n, nodes', e)
       /\ heap' = Waiting(nodes')
  <2> DEFINE agree == TRUE
  <2>1. /\ agree \in BOOLEAN /\ q \in SUBSET HeapOf(nodes) /\ Visit(n, q)
        /\ agree => Alone(nodes, n) /\ q = Waiting(MarkedAt(nodes, n))
    BY <1>1, <1>3, <1>8, <1>9
  <2> HIDE DEF agree, n, q
  <2>2. /\ Kept(nodes, nodes') /\ Advanced(nodes, n, nodes')
        /\ \A e \in EdgesOf(nodes, n) : Served(nodes, n, nodes', e)
        /\ heap' \in SUBSET HeapOf(nodes)
        /\ agree => heap' = Waiting(nodes')
    BY <1>3, <1>6, <2>1, VisitEffect
  <2> QED BY <2>2 DEF agree
<1> HIDE DEF n
<1> QED BY <1>6, <1>7, <1>10 DEF Visited

\* The pass after the loop.
LEMMA AgainAgreed ==
  ASSUME HeapInv, ~grown, VisitAgain
  PROVE  /\ \A n \in Firsts(nodes) : nodes[n].known
         /\ current \in DOMAIN nodes /\ nodes[current].known
         /\ Visited(nodes, current, nodes')
<1>1. phase = "running" /\ heap = {} /\ Visit(current, heap)
  BY DEF VisitAgain
<1>2. /\ nodes \in Seq(NodeType) /\ Inside(nodes)
      /\ current \in DOMAIN nodes /\ nodes[current].known
  BY <1>1 DEF HeapInv, PathInv, Graph, Underway
<1>3. ASSUME NEW n \in Firsts(nodes), ~nodes[n].known PROVE FALSE
  <2>1. [node |-> n, key |-> nodes[n].dist] \in Waiting(nodes)
    BY <1>3 DEF Waiting
  <2> QED BY <1>1, <2>1 DEF HeapInv, Agreed
<1>4. /\ Kept(nodes, nodes') /\ Advanced(nodes, current, nodes')
      /\ \A e \in EdgesOf(nodes, current) : Served(nodes, current, nodes', e)
  <2> DEFINE agree == FALSE
  <2>1. /\ agree \in BOOLEAN /\ heap \in SUBSET HeapOf(nodes)
        /\ agree => Alone(nodes, current) /\ heap = Waiting(MarkedAt(nodes, current))
    BY <1>1
  <2> HIDE DEF agree
  <2> QED BY <1>1, <1>2, <2>1, VisitEffect
<1> QED BY <1>2, <1>3, <1>4 DEF Visited

\* After a pass the distances in the heap are still no less than the others.
LEMMA OrderKept ==
  ASSUME NEW ns \in Seq(NodeType), NEW n \in DOMAIN ns, NEW ms, Nearest(ns, n), Visited(ns, n, ms)
  PROVE  \A m \in DOMAIN ms : \A h \in Waiting(ms) : ms[m].known => ms[m].dist <= h.key
<1> SUFFICES ASSUME NEW m \in DOMAIN ms, NEW h \in Waiting(ms), ms[m].known
             PROVE  ms[m].dist <= h.key
  OBVIOUS
<1>1. /\ Kept(ns, ms) /\ Advanced(ns, n, ms) /\ DOMAIN ms = DOMAIN ns /\ ms \in Seq(NodeType)
      /\ Firsts(ms) = Firsts(ns) /\ Firsts(ns) \subseteq DOMAIN ns
  BY KeptSame DEF Visited, Kept
<1>2. \A l \in DOMAIN ns : ns[l].dist \in Nat /\ ms[l].dist \in Nat
  BY <1>1, NodeAt
<1>3. PICK l \in Firsts(ms) : ~ms[l].known /\ h = [node |-> l, key |-> ms[l].dist]
  BY DEF Waiting
<1>4. ms[m].dist <= ns[n].dist
  <2>1. (ns[m].known \/ m = n) /\ Unmoved(ns, ms, m)
    BY <1>1 DEF Advanced, Improved
  <2>2. ms[m].dist = ns[m].dist
    BY <2>1 DEF Unmoved
  <2>3. ns[m].dist <= ns[n].dist
    <3>1. ns[m].known => ns[m].dist <= ns[n].dist
      BY <1>1 DEF Nearest
    <3> QED BY <1>1, <1>2, <2>1, <3>1
  <2> QED BY <2>2, <2>3
<1>5. ns[n].dist <= ms[l].dist
  <2>1. l \in Firsts(ns) /\ l \in DOMAIN ns /\ ~ns[l].known /\ l # n
    BY <1>1, <1>3 DEF Advanced
  <2>2. ns[n].dist <= ns[l].dist
    BY <2>1 DEF Nearest
  <2>3. CASE Unmoved(ns, ms, l)
    BY <2>2, <2>3 DEF Unmoved
  <2>4. CASE Improved(ns, n, ms, l)
    <3>1. PICK e \in EdgesOf(ns, n) : ms[l].dist = ns[n].dist + e.cost
      BY <2>4 DEF Improved
    <3>2. e.cost \in Nat
      <4>1. PICK i \in DOMAIN ns[n].edges : e = ns[n].edges[i]
        BY DEF EdgesOf
      <4>2. e.cost \in Costs
        BY <4>1, NodeAt
      <4> QED BY <4>2, CostAssumption
    <3> QED BY <1>2, <3>1, <3>2
  <2> QED BY <1>1, <2>1, <2>3, <2>4 DEF Advanced
<1>6. n \in DOMAIN ns /\ l \in DOMAIN ns /\ m \in DOMAIN ns
  BY <1>1, <1>3
<1>7. h.key = ms[l].dist
  BY <1>3
<1> QED BY <1>2, <1>4, <1>5, <1>6, <1>7

LEMMA VisitKeeps ==
  ASSUME HeapInv, [Next]_vars
  PROVE  Mapped'
<1>0. PathInv /\ Mapped
  BY DEF HeapInv
<1>1. ASSUME NEW from \in Keys, NEW to \in Keys, NEW cost \in Costs, NEW memory \in BOOLEAN,
             ReadLine(from, to, cost, memory)
      PROVE  Mapped'
  BY <1>0, <1>1, ReadMapped
<1>2. ASSUME Kept(nodes, nodes'), UNCHANGED <<mapping, lines, file, grown>> PROVE Mapped'
  BY <1>0, <1>2, KeptMapped
<1>3. ASSUME NEW v \in Keys, Start(v) PROVE Mapped'
  <2>1. CASE grown
    BY <1>3, <2>1 DEF Start, Mapped
  <2>2. CASE ~grown
    BY <1>0, <1>2, <1>3, <2>2, StartAgreed DEF Start
  <2> QED BY <2>1, <2>2
<1>4. ASSUME VisitNext PROVE Mapped'
  <2>1. UNCHANGED <<mapping, lines, file, grown>>
    BY <1>4 DEF VisitNext, history
  <2>2. CASE grown
    BY <2>1, <2>2 DEF Mapped
  <2>3. CASE ~grown
    <3>1. PICK n \in Firsts(nodes) : Visited(nodes, n, nodes')
      BY <1>4, <2>3, VisitAgreed
    <3> QED BY <1>2, <2>1, <3>1 DEF Visited
  <2> QED BY <2>2, <2>3
<1>5. ASSUME VisitAgain PROVE Mapped'
  <2>1. UNCHANGED <<mapping, lines, file, grown>>
    BY <1>5 DEF VisitAgain, history
  <2>2. CASE grown
    BY <2>1, <2>2 DEF Mapped
  <2>3. CASE ~grown
    BY <1>2, <1>5, <2>1, <2>3, AgainAgreed DEF Visited
  <2> QED BY <2>2, <2>3
<1>6. ASSUME UNCHANGED vars PROVE Mapped'
  BY <1>0, <1>6 DEF vars, history, Mapped
<1> QED BY <1>1, <1>3, <1>4, <1>5, <1>6 DEF Next

LEMMA NextAgreed ==
  ASSUME HeapInv, [Next]_vars
  PROVE  Agreed'
<1>0. PathInv /\ Mapped /\ Agreed
  BY DEF HeapInv
<1>1. ASSUME NEW from \in Keys, NEW to \in Keys, NEW cost \in Costs, NEW memory \in BOOLEAN,
             ReadLine(from, to, cost, memory)
      PROVE  Agreed'
  BY <1>1 DEF ReadLine, Agreed
<1>2. ASSUME NEW v \in Keys, Start(v) PROVE Agreed'
  <2>1. phase' = "running" /\ grown' = grown
    BY <1>2 DEF Start
  <2>2. ASSUME ~grown PROVE heap' = Waiting(nodes') /\ \A n \in DOMAIN nodes' : ~nodes'[n].known
    <3>1. /\ heap' = Waiting(nodes') /\ Kept(nodes, nodes')
          /\ \A n \in DOMAIN nodes : ~nodes'[n].known
      BY <1>0, <1>2, <2>2, StartAgreed
    <3> QED BY <3>1 DEF Kept
  <2> QED BY <2>1, <2>2 DEF Agreed
<1>3. ASSUME VisitNext PROVE Agreed'
  <2>1. phase' = "running" /\ grown' = grown
    BY <1>3 DEF VisitNext, history
  <2>2. ASSUME ~grown
        PROVE  /\ heap' = Waiting(nodes')
               /\ \A n \in DOMAIN nodes' : \A h \in heap' : nodes'[n].known => nodes'[n].dist <= h.key
    <3>1. PICK n \in Firsts(nodes) : /\ Nearest(nodes, n) /\ Visited(nodes, n, nodes')
                                     /\ heap' = Waiting(nodes')
      BY <1>3, <2>2, VisitAgreed
    <3>2. n \in DOMAIN nodes /\ nodes \in Seq(NodeType)
      BY <1>0 DEF Firsts, PathInv, Graph
    <3> DEFINE ns == nodes'
    <3>3. Visited(nodes, n, ns)
      BY <3>1
    <3> HIDE DEF ns
    <3>4. \A m \in DOMAIN ns : \A h \in Waiting(ns) : ns[m].known => ns[m].dist <= h.key
      BY <3>1, <3>2, <3>3, OrderKept
    <3> QED BY <3>1, <3>4 DEF ns
  <2> QED BY <2>1, <2>2 DEF Agreed
<1>4. ASSUME VisitAgain PROVE Agreed'
  <2>1. phase' = "done" /\ grown' = grown
    BY <1>4 DEF VisitAgain, history
  <2>2. ASSUME ~grown, NEW n \in Firsts(nodes') PROVE nodes'[n].known
    <3>1. Visited(nodes, current, nodes') /\ \A m \in Firsts(nodes) : nodes[m].known
      BY <1>4, <2>2, AgainAgreed
    <3> DEFINE ns == nodes'
    <3>2. Kept(nodes, ns) /\ Advanced(nodes, current, ns) /\ nodes \in Seq(NodeType) /\ n \in Firsts(ns)
      BY <1>0, <2>2, <3>1 DEF Visited, PathInv, Graph
    <3> HIDE DEF ns
    <3>3. n \in Firsts(nodes) /\ n \in DOMAIN nodes
      BY <3>2, KeptSame
    <3>4. ns[n].known
      BY <3>1, <3>2, <3>3 DEF Advanced
    <3> QED BY <3>4 DEF ns
  <2> QED BY <2>1, <2>2 DEF Agreed
<1>5. ASSUME UNCHANGED vars PROVE Agreed'
  BY <1>0, <1>5 DEF vars, history, Agreed
<1> QED BY <1>1, <1>2, <1>3, <1>4, <1>5 DEF Next

LEMMA InitMapped ==
  ASSUME Init
  PROVE  Mapped
<1>1. nodes = <<>> /\ DOMAIN nodes = {} /\ file = {} /\ mapping = New(0)
  BY DEF Init
<1>2. Findable(mapping) /\ \A k \in Keys : Val(mapping, k) = Null
  <2>1. 0 \in Nat /\ GetPrime(0) > 1
    BY TableAssumption
  <2> QED BY <1>1, <2>1, NewSound DEF Sound
<1>3. Named(nodes, mapping)
  BY <1>1, <1>2 DEF Named
<1>4. Drawn(nodes, file)
  BY <1>1 DEF Drawn, Backed, Covered
<1> QED BY <1>3, <1>4 DEF Mapped

LEMMA InitHeap ==
  ASSUME Init
  PROVE  HeapInv
<1>1. PathInv /\ Mapped
  BY InitPaths, InitMapped
<1>2. Agreed
  BY DEF Init, Agreed
<1> QED BY <1>1, <1>2 DEF HeapInv

LEMMA NextHeap ==
  ASSUME HeapInv, [Next]_vars
  PROVE  HeapInv'
<1>1. PathInv'
  BY NextPaths DEF HeapInv
<1> QED BY <1>1, VisitKeeps, NextAgreed DEF HeapInv

LEMMA HeapMeant ==
  ASSUME HeapInv
  PROVE  HeapAgrees
<1> SUFFICES ASSUME phase = "running", ~grown
             PROVE  /\ heap = {[node |-> n, key |-> nodes[n].dist] :
                                  n \in {m \in Firsts(nodes) : ~nodes[m].known}}
                    /\ \A n \in DOMAIN nodes, h \in heap : nodes[n].known => nodes[n].dist <= h.key
  BY DEF HeapAgrees
<1>1. /\ heap = Waiting(nodes)
      /\ \A n \in DOMAIN nodes : \A h \in heap : nodes[n].known => nodes[n].dist <= h.key
  BY DEF HeapInv, Agreed
<1> QED BY <1>1 DEF Waiting

\* While the loop runs, the heap holds the nodes that are not known with their
\* distances as keys, and no known node is farther than one of them: setKey,
\* which goes by the id, never hits another node (graph.cpp:94-105).  This is
\* up to the first rehash of mapping, and says nothing of what comes after it.
THEOREM HeapIsAgreed == Spec => []HeapAgrees
<1>1. Init => HeapInv
  BY InitHeap
<1>2. HeapInv /\ [Next]_vars => HeapInv'
  BY NextHeap
<1>3. HeapInv => HeapAgrees
  BY HeapMeant
<1> QED BY <1>1, <1>2, <1>3, PTL DEF Spec

(***************************************************************************)
(* The costs of the cheapest walks.                                        *)
(***************************************************************************)
FirstRow(s)              == [v \in Keys |-> IF v = s THEN 0 ELSE MAX]
Choices(edges, row, v)   == {row[v]} \cup {row[e.from] + e.cost : e \in {x \in edges : x.to = v}}
NextRow(edges, row)      == [v \in Keys |-> Sets!Min(Choices(edges, row, v))]

\* What one more edge does to the costs.
Longer(edges, row, next) ==
    /\ row \in [Keys -> Nat] /\ next \in [Keys -> Nat]
    /\ \A v \in Keys : next[v] <= row[v]
    /\ \A e \in edges : next[e.to] <= row[e.from] + e.cost
    /\ \A v \in Keys : next[v] = row[v] \/ \E e \in edges : e.to = v /\ next[v] = row[e.from] + e.cost

LEMMA CheapestSteps ==
  ASSUME NEW edges, NEW s
  PROVE  /\ Cheapest(edges, s)[0] = FirstRow(s)
         /\ \A n \in 1 .. MaxEdges :
               Cheapest(edges, s)[n] = NextRow(edges, Cheapest(edges, s)[n - 1])
<1> DEFINE S == FirstRow(s)
           Do(row) == NextRow(edges, row)
           Steps(f, m) == f = [n \in 0 .. m |-> IF n = 0 THEN S ELSE Do(f[n - 1])]
           T == {m \in Nat : \E f : Steps(f, m)}
<1>0. MaxEdges \in Nat
  BY CostAssumption
<1>1. 0 \in T
  <2>1. Steps([n \in 0 .. 0 |-> S], 0)
    OBVIOUS
  <2> QED BY <2>1
<1>2. ASSUME NEW m \in Nat, m \in T PROVE m + 1 \in T
  <2> HIDE DEF S, Do
  <2>1. PICK f : Steps(f, m)
    BY <1>2
  <2> DEFINE g == [n \in 0 .. m + 1 |-> IF n = m + 1 THEN Do(f[m]) ELSE f[n]]
  <2>2. \A n \in 0 .. m : f[n] = IF n = 0 THEN S ELSE Do(f[n - 1])
    BY <2>1
  <2>3. \A n \in 0 .. m + 1 : g[n] = IF n = 0 THEN S ELSE Do(g[n - 1])
    <3> SUFFICES ASSUME NEW n \in 0 .. m + 1 PROVE g[n] = IF n = 0 THEN S ELSE Do(g[n - 1])
      OBVIOUS
    <3>1. CASE n = m + 1
      <4>1. n # 0 /\ n - 1 = m /\ m \in 0 .. m + 1 /\ m # m + 1
        BY <3>1
      <4>2. g[n - 1] = f[m] /\ g[n] = Do(f[m])
        BY <3>1, <4>1
      <4> QED BY <3>1, <4>1, <4>2
    <3>2. CASE n # m + 1
      <4>1. n \in 0 .. m
        BY <3>2
      <4>2. g[n] = f[n] /\ (n # 0 => g[n - 1] = f[n - 1])
        BY <3>2, <4>1
      <4> QED BY <2>2, <4>1, <4>2
    <3> QED BY <3>1, <3>2
  <2>4. g = [n \in 0 .. m + 1 |-> g[n]]
    OBVIOUS
  <2>5. Steps(g, m + 1)
    <3> HIDE DEF g
    <3>1. [n \in 0 .. m + 1 |-> g[n]] = [n \in 0 .. m + 1 |-> IF n = 0 THEN S ELSE Do(g[n - 1])]
      BY <2>3, Zenon
    <3> QED BY <2>4, <3>1, Zenon
  <2> HIDE DEF g, Steps
  <2>6. m + 1 \in Nat
    OBVIOUS
  <2> QED BY <2>5, <2>6, Zenon
<1>3. MaxEdges \in T
  <2> HIDE DEF T
  <2>1. Nat \subseteq T
    BY <1>1, <1>2, Induct
  <2> QED BY <1>0, <2>1
<1>4. PICK f : Steps(f, MaxEdges)
  BY <1>3
<1>5. Cheapest(edges, s) = CHOOSE h : Steps(h, MaxEdges)
  BY DEF Cheapest, FirstRow, NextRow, Choices
<1>6. Steps(Cheapest(edges, s), MaxEdges)
  BY <1>4, <1>5, Zenon
<1> HIDE DEF S, Do
<1>7. /\ Cheapest(edges, s)[0] = S
      /\ \A n \in 1 .. MaxEdges : Cheapest(edges, s)[n] = Do(Cheapest(edges, s)[n - 1])
  BY <1>0, <1>6
<1> QED BY <1>7 DEF S, Do

LEMMA NextRowIs ==
  ASSUME NEW edges \in SUBSET Records, NEW row \in [Keys -> Nat]
  PROVE  Longer(edges, row, NextRow(edges, row))
<1> DEFINE next == NextRow(edges, row)
<1>1. \A e \in edges : e.from \in Keys /\ e.to \in Keys /\ e.cost \in Nat
  BY CostAssumption DEF Records
<1>2. ASSUME NEW v \in Keys
      PROVE  /\ next[v] \in Choices(edges, row, v) /\ next[v] \in Nat
             /\ \A x \in Choices(edges, row, v) : next[v] <= x
  <2> DEFINE C == Choices(edges, row, v)
  <2>1. C \in SUBSET Nat /\ C # {}
    BY <1>1 DEF Choices
  <2>2. next[v] = Sets!Min(C)
    BY DEF NextRow
  <2> HIDE DEF C, next
  <2>3. \E x \in C : \A y \in C : x <= y
    BY <2>1, Least
  <2>4. next[v] \in C /\ \A y \in C : next[v] <= y
    BY <2>2, <2>3 DEF Sets!Min
  <2> QED BY <2>1, <2>4 DEF C
<1>3. next \in [Keys -> Nat]
  <2>1. next = [v \in Keys |-> next[v]]
    BY DEF NextRow
  <2> HIDE DEF next
  <2> QED BY <1>2, <2>1
<1> HIDE DEF next
<1>4. \A v \in Keys : next[v] <= row[v]
  BY <1>2 DEF Choices
<1>5. \A e \in edges : next[e.to] <= row[e.from] + e.cost
  <2>1. ASSUME NEW e \in edges PROVE next[e.to] <= row[e.from] + e.cost
    <3>1. row[e.from] + e.cost \in Choices(edges, row, e.to)
      BY DEF Choices
    <3> QED BY <1>1, <1>2, <3>1
  <2> QED BY <2>1
<1>6. \A v \in Keys : next[v] = row[v] \/ \E e \in edges : e.to = v /\ next[v] = row[e.from] + e.cost
  BY <1>2 DEF Choices
<1> QED BY <1>3, <1>4, <1>5, <1>6 DEF Longer, next

LEMMA CheapestIs ==
  ASSUME NEW edges \in SUBSET Records, NEW s
  PROVE  LET c == Cheapest(edges, s)
         IN  /\ c[0] = FirstRow(s) /\ \A n \in 0 .. MaxEdges : c[n] \in [Keys -> Nat]
             /\ \A n \in 1 .. MaxEdges : Longer(edges, c[n - 1], c[n])
<1> DEFINE c == Cheapest(edges, s)
           T == {n \in Nat : n <= MaxEdges => c[n] \in [Keys -> Nat]}
<1>0. MaxEdges \in Nat /\ MAX \in Nat
  BY CostAssumption
<1>1. c[0] = FirstRow(s) /\ \A n \in 1 .. MaxEdges : c[n] = NextRow(edges, c[n - 1])
  BY CheapestSteps
<1> HIDE DEF c
<1>2. 0 \in T
  <2>1. FirstRow(s) \in [Keys -> Nat]
    BY <1>0 DEF FirstRow
  <2> QED BY <1>1, <2>1
<1>3. ASSUME NEW n \in Nat, n \in T PROVE n + 1 \in T
  <2> SUFFICES ASSUME n + 1 <= MaxEdges PROVE c[n + 1] \in [Keys -> Nat]
    OBVIOUS
  <2> DEFINE m == n + 1
  <2>1. m \in 1 .. MaxEdges /\ m - 1 = n /\ n <= MaxEdges
    BY <1>0
  <2>2. c[m] = NextRow(edges, c[n]) /\ c[n] \in [Keys -> Nat]
    BY <1>1, <1>3, <2>1
  <2> HIDE DEF m
  <2>3. Longer(edges, c[n], c[m])
    BY <2>2, NextRowIs
  <2> QED BY <2>3 DEF Longer, m
<1> HIDE DEF T
<1>4. Nat \subseteq T
  BY <1>2, <1>3, Induct
<1>5. \A n \in 0 .. MaxEdges : c[n] \in [Keys -> Nat]
  BY <1>0, <1>4 DEF T
<1>6. ASSUME NEW n \in 1 .. MaxEdges PROVE Longer(edges, c[n - 1], c[n])
  <2>1. n - 1 \in 0 .. MaxEdges
    BY <1>0
  <2>2. c[n - 1] \in [Keys -> Nat] /\ c[n] = NextRow(edges, c[n - 1])
    BY <1>1, <1>5, <2>1
  <2> QED BY <2>2, NextRowIs
<1> QED BY <1>1, <1>5, <1>6 DEF c

\* More edges make no walk more expensive.
LEMMA CheapestFalls ==
  ASSUME NEW edges \in SUBSET Records, NEW s, NEW m \in 0 .. MaxEdges, NEW n \in 0 .. MaxEdges,
         m <= n, NEW v \in Keys
  PROVE  /\ Cheapest(edges, s)[n][v] <= Cheapest(edges, s)[m][v]
         /\ Cheapest(edges, s)[n][v] \in Nat
<1> DEFINE c == Cheapest(edges, s)
           T == {k \in Nat : m + k <= MaxEdges => c[m + k][v] <= c[m][v]}
<1>0. MaxEdges \in Nat /\ m \in Nat
  BY CostAssumption
<1>1. /\ \A k \in 0 .. MaxEdges : c[k] \in [Keys -> Nat]
      /\ \A k \in 1 .. MaxEdges : Longer(edges, c[k - 1], c[k])
  BY CheapestIs
<1> HIDE DEF c
<1>2. 0 \in T
  <2>1. m + 0 = m /\ c[m][v] \in Nat
    BY <1>0, <1>1
  <2> QED BY <2>1
<1>3. ASSUME NEW k \in Nat, k \in T PROVE k + 1 \in T
  <2> SUFFICES ASSUME m + (k + 1) <= MaxEdges PROVE c[m + (k + 1)][v] <= c[m][v]
    OBVIOUS
  <2> DEFINE l == m + (k + 1)
  <2>1. l \in 1 .. MaxEdges /\ l - 1 = m + k /\ l - 1 \in 0 .. MaxEdges /\ l \in 0 .. MaxEdges
        /\ m + k <= MaxEdges
    BY <1>0
  <2>2. c[l - 1][v] <= c[m][v]
    BY <1>3, <2>1
  <2> HIDE DEF l
  <2>3. c[l][v] <= c[l - 1][v]
    BY <1>1, <2>1 DEF Longer
  <2>4. c[l][v] \in Nat /\ c[l - 1][v] \in Nat /\ c[m][v] \in Nat
    BY <1>1, <2>1
  <2>5. c[l][v] <= c[m][v]
    BY <2>2, <2>3, <2>4
  <2> QED BY <2>5 DEF l
<1> HIDE DEF T
<1>4. Nat \subseteq T
  BY <1>2, <1>3, Induct
<1>5. n - m \in Nat /\ m + (n - m) = n /\ n <= MaxEdges
  BY <1>0
<1>6. c[n][v] <= c[m][v]
  <2>1. n - m \in T
    BY <1>4, <1>5
  <2> QED BY <1>5, <2>1 DEF T
<1>7. c[n][v] \in Nat
  BY <1>1
<1> QED BY <1>6, <1>7 DEF c

(***************************************************************************)
(* The distances are never too small: what a known node has costs at least *)
(* the cheapest walk with as many edges as there are known nodes.          *)
(***************************************************************************)
Walks(c, fs, src) ==
    /\ \A k \in 0 .. MaxEdges : \A v \in Keys : c[k][v] \in Nat
    /\ \A v \in Keys : c[0][v] = IF v = src THEN 0 ELSE MAX
    /\ \A i, j \in 0 .. MaxEdges : i <= j => \A v \in Keys : c[j][v] <= c[i][v]
    /\ \A j \in 1 .. MaxEdges : \A e \in fs : c[j][e.to] <= c[j - 1][e.from] + e.cost
    /\ \A j \in 1 .. MaxEdges : \A v \in Keys :
          \/ c[j][v] = c[j - 1][v]
          \/ \E e \in fs : e.to = v /\ c[j][v] = c[j - 1][e.from] + e.cost

LEMMA CheapestWalks ==
  ASSUME NEW fs \in SUBSET Records, NEW src
  PROVE  Walks(Cheapest(fs, src), fs, src)
<1> DEFINE c == Cheapest(fs, src)
<1>1. /\ c[0] = FirstRow(src) /\ \A n \in 0 .. MaxEdges : c[n] \in [Keys -> Nat]
      /\ \A n \in 1 .. MaxEdges : Longer(fs, c[n - 1], c[n])
  BY CheapestIs
<1>2. \A i, j \in 0 .. MaxEdges : i <= j => \A v \in Keys : c[j][v] <= c[i][v]
  BY CheapestFalls
<1> HIDE DEF c
<1>3. \A v \in Keys : c[0][v] = IF v = src THEN 0 ELSE MAX
  BY <1>1 DEF FirstRow
<1>4. \A k \in 0 .. MaxEdges : \A v \in Keys : c[k][v] \in Nat
  BY <1>1
<1>5. \A j \in 1 .. MaxEdges : \A e \in fs : c[j][e.to] <= c[j - 1][e.from] + e.cost
  BY <1>1 DEF Longer
<1>6. \A j \in 1 .. MaxEdges : \A v \in Keys :
          \/ c[j][v] = c[j - 1][v]
          \/ \E e \in fs : e.to = v /\ c[j][v] = c[j - 1][e.from] + e.cost
  BY <1>1 DEF Longer
<1> QED BY <1>2, <1>3, <1>4, <1>5, <1>6 DEF Walks, c

\* The vertices other than the source with a distance, and the known ones.
Hit(ns, s)  == {n \in Firsts(ns) : n # s /\ ns[n].dist < MAX}
Past(ns, s) == {n \in Hit(ns, s) : ns[n].known}

\* Each of them has a line of the file that leads to it.
LEMMA HitFew ==
  ASSUME NEW ns \in Seq(NodeType), NEW s, NEW fs, IsFiniteSet(fs), Drawn(ns, fs),
         \A n \in DOMAIN ns : Way(ns, s, n)
  PROVE  IsFiniteSet(Hit(ns, s)) /\ Cardinality(Hit(ns, s)) <= Cardinality(fs)
<1> DEFINE B == Hit(ns, s)
           f == [n \in B |-> CHOOSE l \in fs : l.to = ns[n].id]
<1>1. ASSUME NEW n \in B PROVE f[n] \in fs /\ f[n].to = ns[n].id
  <2>1. n \in DOMAIN ns /\ n # s /\ ns[n].dist < MAX /\ Way(ns, s, n)
    BY DEF Hit, Firsts
  <2>2. ns[n].prev # Null
    <3>1. MAX \in Nat
      BY CostAssumption
    <3> QED BY <2>1, <3>1 DEF Way
  <2>3. ns[n].prev \in DOMAIN ns /\ \E e \in EdgesOf(ns, ns[n].prev) : e.dest = n
    BY <2>1, <2>2 DEF Way
  <2>4. PICK e \in EdgesOf(ns, ns[n].prev) : e.dest = n
    BY <2>3
  <2>5. Line(ns, ns[n].prev, e) \in fs /\ Line(ns, ns[n].prev, e).to = ns[n].id
    BY <2>3, <2>4 DEF Drawn, Backed, Line
  <2>6. \E l \in fs : l.to = ns[n].id
    BY <2>5
  <2> QED BY <2>6
<1>2. \A m, n \in B : f[m] = f[n] => m = n
  <2>1. ASSUME NEW m \in B, NEW n \in B, f[m] = f[n] PROVE m = n
    <3>1. ns[m].id = ns[n].id
      BY <1>1, <2>1
    <3>2. m \in Firsts(ns) /\ n \in Firsts(ns)
      BY DEF Hit
    <3> QED BY <3>1, <3>2, FirstsOnly
  <2> QED BY <2>1
<1>3. f \in [B -> fs]
  BY <1>1
<1> HIDE DEF f, B
<1>4. f \in Injection(B, fs)
  BY <1>2, <1>3 DEF Injection, IsInjective
<1>5. IsFiniteSet(B) /\ Cardinality(B) <= Cardinality(fs)
  BY <1>4, FS_Injection
<1> QED BY <1>5 DEF B

\* The bound for the nodes that are known, and for those that are not.
NearKnown(ns, s, c) == \A d \in Hit(ns, s) : ns[d].known =>
                          c[Cardinality(Past(ns, s))][ns[d].id] <= ns[d].dist
NearOther(ns, s, c) == \A d \in Hit(ns, s) : ~ns[d].known =>
                          c[Cardinality(Past(ns, s)) + 1][ns[d].id] <= ns[d].dist
Near(ns, s, c)      == NearKnown(ns, s, c) /\ NearOther(ns, s, c)

\* The known nodes are some of the others.
LEMMA PastFew ==
  ASSUME NEW ns \in Seq(NodeType), NEW s, IsFiniteSet(Hit(ns, s)), Cardinality(Hit(ns, s)) <= MaxEdges
  PROVE  /\ IsFiniteSet(Past(ns, s)) /\ Cardinality(Past(ns, s)) \in 0 .. MaxEdges
         /\ \A d \in Hit(ns, s) : ~ns[d].known => Cardinality(Past(ns, s)) + 1 \in 0 .. MaxEdges
<1> DEFINE B == Hit(ns, s)
           P == Past(ns, s)
<1>0. MaxEdges \in Nat
  BY CostAssumption
<1>1. P \in SUBSET B /\ \A d \in P : ns[d].known
  BY DEF Past
<1> HIDE DEF B, P
<1>2. IsFiniteSet(B) /\ Cardinality(B) <= MaxEdges /\ Cardinality(B) \in Nat
  BY FS_CardinalityType DEF B
<1>3. IsFiniteSet(P) /\ Cardinality(P) <= Cardinality(B) /\ Cardinality(P) \in Nat
      /\ (Cardinality(P) = Cardinality(B) => B = P)
  BY <1>1, <1>2, FS_Subset, FS_CardinalityType
<1>4. Cardinality(P) \in 0 .. MaxEdges
  BY <1>0, <1>2, <1>3
<1>5. ASSUME NEW d \in B, ~ns[d].known PROVE Cardinality(P) + 1 \in 0 .. MaxEdges
  <2>1. Cardinality(P) # Cardinality(B)
    BY <1>1, <1>3, <1>5
  <2> QED BY <1>0, <1>2, <1>3, <2>1
<1> QED BY <1>3, <1>4, <1>5 DEF B, P

LEMMA PassCounts ==
  ASSUME NEW ns \in Seq(NodeType), NEW s, NEW n \in Firsts(ns), ~ns[n].known, NEW ms,
         Visited(ns, n, ms), IsFiniteSet(Past(ns, s))
  PROVE  /\ n \in Hit(ns, s) => /\ Past(ms, s) = Past(ns, s) \cup {n}
                                /\ Cardinality(Past(ms, s)) = Cardinality(Past(ns, s)) + 1
         /\ n \notin Hit(ns, s) => Past(ms, s) = Past(ns, s)
<1>1. /\ Kept(ns, ms) /\ Advanced(ns, n, ms) /\ Firsts(ms) = Firsts(ns) /\ Firsts(ns) \subseteq DOMAIN ns
  BY KeptSame DEF Visited
<1>2. \A m \in Firsts(ns) : /\ ms[m].known <=> ns[m].known \/ m = n
                            /\ ns[m].known \/ m = n => ms[m].dist = ns[m].dist
  BY <1>1 DEF Advanced, Unmoved, Improved
<1>3. ASSUME NEW m
      PROVE  m \in Past(ms, s) <=> m \in Past(ns, s) \/ (m = n /\ n \in Hit(ns, s))
  BY <1>1, <1>2 DEF Past, Hit
<1>4. n \notin Past(ns, s)
  BY DEF Past
<1>5. CASE n \in Hit(ns, s)
  <2>1. Past(ms, s) = Past(ns, s) \cup {n}
    BY <1>3, <1>5
  <2>2. Cardinality(Past(ns, s) \cup {n}) = Cardinality(Past(ns, s)) + 1
    BY <1>4, FS_AddElement
  <2> QED BY <1>5, <2>1, <2>2
<1>6. CASE n \notin Hit(ns, s)
  <2>1. Past(ms, s) = Past(ns, s)
    BY <1>3, <1>6
  <2> QED BY <1>6, <2>1
<1> QED BY <1>5, <1>6

\* One pass keeps the bounds.
LEMMA NearPass ==
  ASSUME NEW ns \in Seq(NodeType), Inside(ns), NEW s \in Firsts(ns), ns[s].dist = 0,
         \A m \in DOMAIN ns : ns[m].dist <= MAX,
         NEW fs, Drawn(ns, fs), NEW c, Walks(c, fs, ns[s].id),
         IsFiniteSet(Hit(ns, s)), Cardinality(Hit(ns, s)) <= MaxEdges, Near(ns, s, c),
         NEW n \in Firsts(ns), ~ns[n].known, NEW ms, Visited(ns, n, ms),
         IsFiniteSet(Hit(ms, s)), Cardinality(Hit(ms, s)) <= MaxEdges
  PROVE  Near(ms, s, c)
<1> DEFINE k == Cardinality(Past(ns, s))
           l == Cardinality(Past(ms, s))
<1>0. MaxEdges \in Nat /\ MAX \in Nat
  BY CostAssumption
<1>1. /\ Kept(ns, ms) /\ Advanced(ns, n, ms) /\ Firsts(ms) = Firsts(ns) /\ Firsts(ns) \subseteq DOMAIN ns
      /\ ms \in Seq(NodeType) /\ DOMAIN ms = DOMAIN ns
      /\ \A m \in DOMAIN ns : ms[m].id = ns[m].id
  BY KeptSame DEF Visited, Kept
<1>2. \A m \in DOMAIN ns : ns[m].dist \in Nat /\ ms[m].dist \in Nat /\ ns[m].id \in Keys
  BY <1>1, NodeAt
<1>3. /\ IsFiniteSet(Past(ns, s)) /\ k \in 0 .. MaxEdges
      /\ \A d \in Hit(ns, s) : ~ns[d].known => k + 1 \in 0 .. MaxEdges
  BY PastFew
<1>4. l \in 0 .. MaxEdges /\ \A d \in Hit(ms, s) : ~ms[d].known => l + 1 \in 0 .. MaxEdges
  BY <1>1, PastFew
<1>5. /\ n \in Hit(ns, s) => l = k + 1
      /\ n \notin Hit(ns, s) => l = k
  BY <1>3, PassCounts
<1>6. /\ \A d \in Hit(ns, s) : ns[d].known => c[k][ns[d].id] <= ns[d].dist
      /\ \A d \in Hit(ns, s) : ~ns[d].known => c[k + 1][ns[d].id] <= ns[d].dist
  BY DEF Near, NearKnown, NearOther
<1> HIDE DEF k, l
<1>7. k <= l
  BY <1>3, <1>5
<1>8. /\ \A i \in 0 .. MaxEdges : \A v \in Keys : c[i][v] \in Nat
      /\ c[0][ns[s].id] = 0
      /\ \A i, j \in 0 .. MaxEdges : i <= j => \A v \in Keys : c[j][v] <= c[i][v]
      /\ \A j \in 1 .. MaxEdges : \A e \in fs : c[j][e.to] <= c[j - 1][e.from] + e.cost
  BY <1>1, <1>2 DEF Walks
<1>9. ASSUME NEW d \in Hit(ms, s), ms[d].known PROVE c[l][ns[d].id] <= ms[d].dist
  <2>1. d \in DOMAIN ns /\ d \in Firsts(ns) /\ d # s /\ ms[d].dist < MAX
    BY <1>1 DEF Hit
  <2>2. (ns[d].known \/ d = n) /\ ms[d].dist = ns[d].dist
    BY <1>1, <1>9, <2>1 DEF Advanced, Unmoved, Improved
  <2>3. d \in Hit(ns, s)
    BY <2>1, <2>2 DEF Hit
  <2>4. CASE d = n
    <3>1. l = k + 1 /\ ~ns[d].known
      BY <1>5, <2>3, <2>4
    <3> QED BY <1>6, <2>2, <2>3, <3>1
  <2>5. CASE ns[d].known
    <3>1. c[k][ns[d].id] <= ns[d].dist
      BY <1>6, <2>3, <2>5
    <3>2. c[l][ns[d].id] <= c[k][ns[d].id]
      BY <1>2, <1>3, <1>4, <1>7, <1>8, <2>1
    <3>3. c[l][ns[d].id] \in Nat /\ c[k][ns[d].id] \in Nat /\ ns[d].dist \in Nat
      BY <1>2, <1>3, <1>4, <1>8, <2>1
    <3> QED BY <2>2, <3>1, <3>2, <3>3
  <2> QED BY <2>2, <2>4, <2>5
<1>10. ASSUME NEW d \in Hit(ms, s), ~ms[d].known PROVE c[l + 1][ns[d].id] <= ms[d].dist
  <2>1. d \in DOMAIN ns /\ d \in Firsts(ns) /\ d # s /\ ms[d].dist < MAX /\ ~ns[d].known
    BY <1>1, <1>10 DEF Hit, Advanced
  <2>2. l + 1 \in 0 .. MaxEdges /\ l + 1 \in 1 .. MaxEdges /\ (l + 1) - 1 = l
    <3>1. l + 1 \in 0 .. MaxEdges
      BY <1>4, <1>10
    <3> QED BY <1>0, <1>4, <3>1
  <2>3. CASE Unmoved(ns, ms, d)
    <3>1. ms[d].dist = ns[d].dist /\ d \in Hit(ns, s)
      BY <2>1, <2>3 DEF Unmoved, Hit
    <3>2. c[k + 1][ns[d].id] <= ns[d].dist /\ k + 1 \in 0 .. MaxEdges
      BY <1>3, <1>6, <2>1, <3>1
    <3> DEFINE i == k + 1
               j == l + 1
    <3>3. i \in 0 .. MaxEdges /\ j \in 0 .. MaxEdges /\ i <= j
      BY <1>3, <1>4, <1>7, <2>2, <3>2
    <3> HIDE DEF i, j
    <3>4. c[j][ns[d].id] <= c[i][ns[d].id]
      BY <1>2, <1>8, <2>1, <3>3
    <3>5. c[j][ns[d].id] \in Nat /\ c[i][ns[d].id] \in Nat /\ ns[d].dist \in Nat
      BY <1>2, <1>8, <2>1, <3>3
    <3>6. c[i][ns[d].id] <= ns[d].dist
      BY <3>2 DEF i
    <3>7. c[j][ns[d].id] <= ns[d].dist
      BY <3>4, <3>5, <3>6
    <3> QED BY <3>1, <3>7 DEF j
  <2>4. CASE Improved(ns, n, ms, d)
    <3>1. PICK e \in EdgesOf(ns, n) : e.dest = d /\ ms[d].dist = ns[n].dist + e.cost
      BY <2>4 DEF Improved
    <3>2. n \in DOMAIN ns /\ Line(ns, n, e) \in fs
      BY <1>1 DEF Drawn, Backed
    <3>3. e.cost \in Nat \ {0}
      <4>1. PICK i \in DOMAIN ns[n].edges : e = ns[n].edges[i]
        BY DEF EdgesOf
      <4>2. e.cost \in Costs
        BY <3>2, <4>1, NodeAt
      <4> QED BY <4>2, CostAssumption
    <3> DEFINE f == Line(ns, n, e)
               j == l + 1
    <3>4. f \in fs /\ f.from = ns[n].id /\ f.to = ns[d].id /\ f.cost = e.cost
      BY <3>1, <3>2 DEF Line
    <3>5. j \in 1 .. MaxEdges /\ j - 1 = l /\ j \in 0 .. MaxEdges
      BY <2>2
    <3> HIDE DEF f, j
    <3>6. c[j][ns[d].id] <= c[l][ns[n].id] + e.cost
      <4>1. c[j][f.to] <= c[j - 1][f.from] + f.cost
        BY <1>8, <3>4, <3>5
      <4> QED BY <3>4, <3>5, <4>1
    <3>7. c[l][ns[n].id] <= ns[n].dist
      <4>1. CASE n = s
        <5>1. 0 \in 0 .. MaxEdges /\ 0 <= l
          BY <1>0, <1>4
        <5>2. c[l][ns[s].id] <= c[0][ns[s].id]
          BY <1>1, <1>2, <1>4, <1>8, <5>1
        <5> QED BY <1>8, <4>1, <5>2
      <4>2. CASE n # s
        <5>1. ms[n].known /\ ms[n].dist = ns[n].dist
          BY <1>1, <3>2 DEF Advanced, Unmoved, Improved
        <5>2. ns[n].dist < MAX
          BY <1>0, <1>2, <2>1, <3>1, <3>2, <3>3
        <5>3. n \in Hit(ms, s)
          BY <1>1, <4>2, <5>1, <5>2 DEF Hit
        <5> QED BY <1>9, <5>1, <5>3
      <4> QED BY <4>1, <4>2
    <3>8. c[j][ns[d].id] \in Nat /\ c[l][ns[n].id] \in Nat /\ ns[n].dist \in Nat
      BY <1>2, <1>4, <1>8, <2>1, <3>2, <3>5
    <3>9. c[j][ns[d].id] <= ns[n].dist + e.cost
      <4> DEFINE x == c[j][ns[d].id]
                 y == c[l][ns[n].id]
                 z == ns[n].dist
                 w == e.cost
      <4>1. x \in Nat /\ y \in Nat /\ z \in Nat /\ w \in Nat /\ x <= y + w /\ y <= z
        BY <3>3, <3>6, <3>7, <3>8
      <4> HIDE DEF x, y, z, w
      <4>2. x <= z + w
        BY <4>1
      <4> QED BY <4>2 DEF x, z, w
    <3> QED BY <3>1, <3>9 DEF j
  <2> QED BY <1>1, <2>1, <2>3, <2>4 DEF Advanced
<1>11. NearKnown(ms, s, c)
  <2>1. ASSUME NEW d \in Hit(ms, s), ms[d].known PROVE c[l][ms[d].id] <= ms[d].dist
    <3>1. ms[d].id = ns[d].id
      BY <1>1 DEF Hit
    <3> QED BY <1>9, <2>1, <3>1
  <2> QED BY <2>1 DEF NearKnown, l
<1>12. NearOther(ms, s, c)
  <2>1. ASSUME NEW d \in Hit(ms, s), ~ms[d].known PROVE c[l + 1][ms[d].id] <= ms[d].dist
    <3>1. ms[d].id = ns[d].id
      BY <1>1 DEF Hit
    <3> QED BY <1>10, <2>1, <3>1
  <2> QED BY <2>1 DEF NearOther, l
<1> QED BY <1>11, <1>12 DEF Near

(***************************************************************************)
(* The distances are never too large in the end: no edge of a known node   *)
(* could lower one.                                                        *)
(***************************************************************************)
Settled(ns) == \A n \in Firsts(ns) : ns[n].known =>
                  \A e \in EdgesOf(ns, n) :
                     e.dest \in Firsts(ns) => ns[e.dest].dist <= ns[n].dist + e.cost

LEMMA EdgeIs ==
  ASSUME NEW ns \in Seq(NodeType), NEW n \in DOMAIN ns, NEW e \in EdgesOf(ns, n)
  PROVE  e.dest \in Nat /\ e.cost \in Nat \ {0} /\ e.cost \in Costs
<1>1. PICK i \in DOMAIN ns[n].edges : e = ns[n].edges[i]
  BY DEF EdgesOf
<1>2. e.dest \in Nat /\ e.cost \in Costs
  BY <1>1, NodeAt
<1> QED BY <1>2, CostAssumption

LEMMA SettledPass ==
  ASSUME NEW ns \in Seq(NodeType), Settled(ns), NEW n \in Firsts(ns), Nearest(ns, n),
         NEW ms, Visited(ns, n, ms)
  PROVE  Settled(ms)
<1>1. /\ Kept(ns, ms) /\ Advanced(ns, n, ms) /\ Firsts(ms) = Firsts(ns) /\ Firsts(ns) \subseteq DOMAIN ns
      /\ ms \in Seq(NodeType) /\ DOMAIN ms = DOMAIN ns
      /\ \A m \in DOMAIN ns : EdgesOf(ms, m) = EdgesOf(ns, m)
      /\ \A e \in EdgesOf(ns, n) : Served(ns, n, ms, e)
  BY KeptSame DEF Visited, Kept
<1>2. \A m \in DOMAIN ns : ns[m].dist \in Nat /\ ms[m].dist \in Nat /\ ms[m].dist <= ns[m].dist
  <2>1. \A m \in DOMAIN ns : ns[m].dist \in Nat /\ ms[m].dist \in Nat
    BY <1>1, NodeAt
  <2> QED BY <1>1, <2>1 DEF Advanced, Unmoved, Improved
<1>3. \A m \in DOMAIN ns : ns[m].known \/ m = n => ms[m].dist = ns[m].dist
  BY <1>1 DEF Advanced, Unmoved, Improved
<1>4. ASSUME NEW m \in Firsts(ms), ms[m].known, NEW e \in EdgesOf(ms, m), e.dest \in Firsts(ms)
      PROVE  ms[e.dest].dist <= ms[m].dist + e.cost
  <2> DEFINE d == e.dest
             w == e.cost
  <2>1. /\ m \in Firsts(ns) /\ m \in DOMAIN ns /\ e \in EdgesOf(ns, m)
        /\ d \in Firsts(ns) /\ d \in DOMAIN ns
    BY <1>1, <1>4
  <2>2. w \in Nat
    BY <2>1, EdgeIs
  <2>3. (ns[m].known \/ m = n) /\ ms[m].dist = ns[m].dist
    BY <1>1, <1>3, <1>4, <2>1 DEF Advanced
  <2>4. CASE ns[m].known
    <3>1. ns[d].dist <= ns[m].dist + w
      BY <2>1, <2>4 DEF Settled
    <3> HIDE DEF d, w
    <3>2. ms[d].dist <= ns[d].dist /\ ms[d].dist \in Nat /\ ns[d].dist \in Nat /\ ns[m].dist \in Nat
      BY <1>2, <2>1
    <3>3. ms[d].dist <= ns[m].dist + w
      BY <2>2, <3>1, <3>2
    <3> QED BY <2>3, <3>3 DEF d, w
  <2>5. CASE m = n
    <3>1. ms[d].known \/ ms[d].dist <= ns[n].dist + w
      BY <1>1, <2>1, <2>5 DEF Served
    <3>2. ASSUME ms[d].known PROVE ms[d].dist <= ns[n].dist
      <4>1. (ns[d].known \/ d = n) /\ ms[d].dist = ns[d].dist
        BY <1>1, <1>3, <2>1, <3>2 DEF Advanced
      <4>2. ns[d].known => ns[d].dist <= ns[n].dist
        BY <2>1 DEF Nearest
      <4>3. ns[d].dist <= ns[n].dist
        BY <1>2, <2>1, <4>1, <4>2
      <4> QED BY <4>1, <4>3
    <3>3. ms[d].dist \in Nat /\ ns[n].dist \in Nat
      BY <1>2, <2>1, <2>5
    <3>4. ms[d].dist <= ns[n].dist + w
      <4> DEFINE x == ms[d].dist
                 y == ns[n].dist
      <4>1. x \in Nat /\ y \in Nat /\ (x <= y \/ x <= y + w)
        BY <3>1, <3>2, <3>3
      <4> HIDE DEF x, y, w
      <4>2. x <= y + w
        BY <2>2, <4>1
      <4> QED BY <4>2 DEF x, y
    <3> QED BY <2>3, <2>5, <3>4
  <2> QED BY <2>3, <2>4, <2>5
<1> QED BY <1>4 DEF Settled

\* When all first nodes are known, a pass changes no distance of theirs.
LEMMA QuietPass ==
  ASSUME NEW ns \in Seq(NodeType), \A m \in Firsts(ns) : ns[m].known,
         NEW n \in DOMAIN ns, NEW ms, Visited(ns, n, ms)
  PROVE  /\ Settled(ns) => Settled(ms)
         /\ \A s, c : Near(ns, s, c) => Near(ms, s, c)
<1>1. /\ Kept(ns, ms) /\ Advanced(ns, n, ms) /\ Firsts(ms) = Firsts(ns) /\ Firsts(ns) \subseteq DOMAIN ns
      /\ \A m \in DOMAIN ns : EdgesOf(ms, m) = EdgesOf(ns, m)
  BY KeptSame DEF Visited
<1>2. \A m \in Firsts(ns) : ms[m].dist = ns[m].dist /\ ms[m].known /\ ms[m].id = ns[m].id
  BY <1>1 DEF Kept, Advanced, Unmoved, Improved
<1>3. Settled(ns) => Settled(ms)
  BY <1>1, <1>2 DEF Settled
<1>4. ASSUME NEW s, NEW c, Near(ns, s, c) PROVE Near(ms, s, c)
  <2>1. Hit(ms, s) = Hit(ns, s) /\ Hit(ns, s) \subseteq Firsts(ns)
    BY <1>1, <1>2 DEF Hit
  <2>2. Past(ms, s) = Past(ns, s)
    BY <1>2, <2>1 DEF Past
  <2>3. NearKnown(ms, s, c)
    BY <1>2, <1>4, <2>1, <2>2 DEF Near, NearKnown
  <2>4. NearOther(ms, s, c)
    BY <1>2, <2>1 DEF NearOther
  <2> QED BY <2>3, <2>4 DEF Near
<1> QED BY <1>3, <1>4

\* In the end no distance is more than what a walk costs.
LEMMA NotTooFar ==
  ASSUME NEW ns \in Seq(NodeType), Inside(ns), NEW fs \in SUBSET Records, Drawn(ns, fs), Settled(ns),
         \A m \in Firsts(ns) : ns[m].known, \A m \in DOMAIN ns : ns[m].dist <= MAX,
         NEW s \in Firsts(ns), ns[s].dist = 0, NEW c, Walks(c, fs, ns[s].id)
  PROVE  \A d \in Firsts(ns) : ns[d].dist <= c[MaxEdges][ns[d].id]
<1> DEFINE T == {k \in Nat : k <= MaxEdges => \A d \in Firsts(ns) : ns[d].dist <= c[k][ns[d].id]}
<1>0. MaxEdges \in Nat /\ MAX \in Nat
  BY CostAssumption
<1>1. /\ Firsts(ns) \subseteq DOMAIN ns
      /\ \A m \in DOMAIN ns : ns[m].dist \in Nat /\ ns[m].id \in Keys
  BY NodeAt DEF Firsts
<1>2. \A k \in 0 .. MaxEdges : \A v \in Keys : c[k][v] \in Nat
  BY DEF Walks
<1>3. 0 \in T
  <2>1. ASSUME NEW d \in Firsts(ns) PROVE ns[d].dist <= c[0][ns[d].id]
    <3>1. c[0][ns[d].id] = IF ns[d].id = ns[s].id THEN 0 ELSE MAX
      BY <1>1 DEF Walks
    <3>2. CASE ns[d].id = ns[s].id
      <4>1. d = s
        BY <3>2, FirstsOnly
      <4> QED BY <3>1, <3>2, <4>1
    <3>3. CASE ns[d].id # ns[s].id
      BY <1>1, <3>1, <3>3
    <3> QED BY <3>2, <3>3
  <2> QED BY <2>1
<1>4. ASSUME NEW k \in Nat, k \in T PROVE k + 1 \in T
  <2> SUFFICES ASSUME k + 1 <= MaxEdges, NEW d \in Firsts(ns)
               PROVE  ns[d].dist <= c[k + 1][ns[d].id]
    OBVIOUS
  <2> DEFINE j == k + 1
             v == ns[d].id
  <2>1. j \in 1 .. MaxEdges /\ j - 1 = k /\ k \in 0 .. MaxEdges /\ k <= MaxEdges
    BY <1>0
  <2>2. \A m \in Firsts(ns) : ns[m].dist <= c[k][ns[m].id]
    BY <1>4, <2>1
  <2>3. v \in Keys
    BY <1>1
  <2> HIDE DEF j, v
  <2>4. c[j][v] = c[k][v] \/ \E f \in fs : f.to = v /\ c[j][v] = c[k][f.from] + f.cost
    BY <2>1, <2>3 DEF Walks
  <2>5. CASE c[j][v] = c[k][v]
    BY <2>2, <2>5 DEF j, v
  <2>6. CASE \E f \in fs : f.to = v /\ c[j][v] = c[k][f.from] + f.cost
    <3>1. PICK f \in fs : f.to = v /\ c[j][v] = c[k][f.from] + f.cost
      BY <2>6
    <3>2. PICK n \in Firsts(ns) : \E e \in EdgesOf(ns, n) : f = Line(ns, n, e)
      BY DEF Drawn, Covered
    <3>3. PICK e \in EdgesOf(ns, n) : f = Line(ns, n, e)
      BY <3>2
    <3>4. /\ f.from = ns[n].id /\ ns[e.dest].id = v /\ f.cost = e.cost /\ n \in DOMAIN ns
          /\ e.dest \in Firsts(ns) \/ ns[e.dest].id = ns[n].id
      <4>1. f.from = ns[n].id /\ f.to = ns[e.dest].id /\ f.cost = e.cost
        BY <3>3 DEF Line
      <4> QED BY <1>1, <3>1, <4>1 DEF Drawn, Backed
    <3> DEFINE w == e.cost
               y == c[k][ns[n].id]
               z == ns[n].dist
               x == ns[d].dist
    <3>5. /\ w \in Nat /\ y \in Nat /\ z \in Nat /\ x \in Nat /\ z <= y
      BY <1>1, <1>2, <2>1, <2>2, <3>4, EdgeIs
    <3>6. c[j][v] = y + w
      BY <3>1, <3>4
    <3>7. x <= z + w
      <4>1. CASE e.dest \in Firsts(ns)
        <5>1. e.dest = d
          BY <3>4, <4>1, FirstsOnly DEF v
        <5> QED BY <4>1, <5>1 DEF Settled
      <4>2. CASE ns[e.dest].id = ns[n].id
        <5>1. n = d
          BY <3>4, <4>2, FirstsOnly DEF v
        <5>2. x = z
          BY <5>1
        <5> HIDE DEF x, z, w
        <5> QED BY <3>5, <5>2
      <4> QED BY <3>4, <4>1, <4>2
    <3> HIDE DEF x, y, z, w
    <3>8. x <= y + w
      BY <3>5, <3>7
    <3> QED BY <3>6, <3>8 DEF x, j, v
  <2> QED BY <2>4, <2>5, <2>6
<1> HIDE DEF T
<1>5. Nat \subseteq T
  BY <1>3, <1>4, Induct
<1> QED BY <1>0, <1>5 DEF T

Measured == ~grown /\ phase # "reading" =>
               Settled(nodes) /\ Near(nodes, FindNode(source), Cheapest(file, source))

DijkstraInv == HeapInv /\ Measured

\* What the invariants say of a run that has begun, for the lemmas above.
LEMMA RunHolds ==
  ASSUME HeapInv, ~grown, phase # "reading"
  PROVE  LET s == FindNode(source)
         IN  /\ nodes \in Seq(NodeType) /\ Inside(nodes) /\ file \in SUBSET Records
             /\ Drawn(nodes, file)
             /\ s \in Firsts(nodes) /\ nodes[s].dist = 0 /\ nodes[s].id = source
             /\ \A m \in DOMAIN nodes : nodes[m].dist <= MAX
             /\ IsFiniteSet(Hit(nodes, s)) /\ Cardinality(Hit(nodes, s)) <= MaxEdges
             /\ Walks(Cheapest(file, source), file, nodes[s].id)
<1> DEFINE s == FindNode(source)
<1>1. PathInv /\ Mapped
  BY DEF HeapInv
<1>2. /\ nodes \in Seq(NodeType) /\ Inside(nodes) /\ file \in SUBSET Records /\ IsFiniteSet(file)
      /\ Cardinality(file) <= lines /\ lines \in 0 .. MaxEdges /\ Drawn(nodes, file)
      /\ nodes[s].dist = 0 /\ \A m \in DOMAIN nodes : Way(nodes, s, m)
  BY <1>1 DEF PathInv, Graph, Underway, Ways, Mapped
<1>3. s \in Firsts(nodes) /\ nodes[s].id = source
  BY <1>1, SourceFirst
<1> HIDE DEF s
<1>4. IsFiniteSet(Hit(nodes, s)) /\ Cardinality(Hit(nodes, s)) <= Cardinality(file)
  BY <1>2, HitFew
<1>5. Cardinality(Hit(nodes, s)) <= MaxEdges
  <2> DEFINE a == Cardinality(Hit(nodes, s))
             b == Cardinality(file)
  <2>1. a \in Nat /\ b \in Nat /\ lines \in Nat /\ MaxEdges \in Nat /\ lines <= MaxEdges
    BY <1>2, <1>4, FS_CardinalityType, CostAssumption
  <2>2. a <= b /\ b <= lines
    BY <1>2, <1>4
  <2> HIDE DEF a, b
  <2>3. a <= MaxEdges
    BY <2>1, <2>2
  <2> QED BY <2>3 DEF a
<1>6. \A m \in DOMAIN nodes : nodes[m].dist <= MAX
  BY <1>2 DEF Way
<1>7. Walks(Cheapest(file, source), file, source)
  BY <1>2, CheapestWalks
<1> QED BY <1>2, <1>3, <1>4, <1>5, <1>6, <1>7 DEF s

HitFits == HeapInv /\ ~grown /\ phase # "reading" =>
              /\ IsFiniteSet(Hit(nodes, FindNode(source)))
              /\ Cardinality(Hit(nodes, FindNode(source))) <= MaxEdges

LEMMA HitNow == HitFits
BY RunHolds DEF HitFits

LEMMA HitAfter == HitFits'
BY HitNow, PTL

LEMMA NextMeasured ==
  ASSUME DijkstraInv, [Next]_vars
  PROVE  Measured'
<1>0. HeapInv /\ HeapInv' /\ PathInv /\ Mapped
  BY NextHeap DEF DijkstraInv, HeapInv
<1>1. ASSUME NEW from \in Keys, NEW to \in Keys, NEW cost \in Costs, NEW memory \in BOOLEAN,
             ReadLine(from, to, cost, memory)
      PROVE  Measured'
  BY <1>1 DEF ReadLine, Measured
<1>2. ASSUME NEW v \in Keys, Start(v) PROVE Measured'
  <2> SUFFICES ASSUME ~grown PROVE /\ Settled(nodes')
                                   /\ Near(nodes', FindNode(source)', Cheapest(file, source)')
    BY <1>2 DEF Start, Measured
  <2> DEFINE ns == nodes'
             x == FindNode(v)
             c == Cheapest(file, source)'
  <2>1. Kept(nodes, ns) /\ \A n \in DOMAIN nodes : ~ns[n].known /\ (n # x => ns[n].dist = MAX)
    BY <1>0, <1>2, StartAgreed
  <2>2. FindNode(source)' = x
    BY <1>2 DEF Start, FindNode
  <2> HIDE DEF ns, x, c
  <2>3. Firsts(ns) \subseteq DOMAIN nodes
    BY <2>1 DEF Firsts, Kept
  <2>4. Settled(ns)
    BY <2>1, <2>3 DEF Settled
  <2>5. Hit(ns, x) = {}
    <3>1. MAX \in Nat
      BY CostAssumption
    <3> QED BY <2>1, <2>3, <3>1 DEF Hit
  <2>6. Near(ns, x, c)
    BY <2>5 DEF Near, NearKnown, NearOther
  <2> QED BY <2>2, <2>4, <2>6 DEF ns, c
<1>3. ASSUME UNCHANGED <<mapping, source, file, grown>>, phase = "running", phase' # "reading",
             ~grown,
             Settled(nodes'), Near(nodes', FindNode(source), Cheapest(file, source))
      PROVE  Measured'
  <2>1. FindNode(source)' = FindNode(source) /\ Cheapest(file, source)' = Cheapest(file, source)
    BY <1>3 DEF FindNode, Cheapest
  <2> QED BY <1>3, <2>1 DEF Measured
<1>4. ASSUME VisitNext PROVE Measured'
  <2>1. /\ phase = "running" /\ phase' = "running" /\ UNCHANGED <<mapping, source, file, grown>>
    BY <1>4 DEF VisitNext, history
  <2> SUFFICES ASSUME ~grown PROVE Measured'
    BY <2>1 DEF Measured
  <2> DEFINE s == FindNode(source)
             c == Cheapest(file, source)
             ns == nodes'
  <2>2. PICK n \in Firsts(nodes) : Nearest(nodes, n) /\ Visited(nodes, n, ns)
    BY <1>0, <1>4, VisitAgreed
  <2>3. /\ nodes \in Seq(NodeType) /\ Inside(nodes) /\ Drawn(nodes, file)
        /\ s \in Firsts(nodes) /\ nodes[s].dist = 0
        /\ \A m \in DOMAIN nodes : nodes[m].dist <= MAX
        /\ IsFiniteSet(Hit(nodes, s)) /\ Cardinality(Hit(nodes, s)) <= MaxEdges
        /\ Walks(c, file, nodes[s].id)
    BY <1>0, <2>1, RunHolds
  <2>4. Settled(nodes) /\ Near(nodes, s, c)
    BY <2>1 DEF DijkstraInv, Measured
  <2>5. IsFiniteSet(Hit(ns, s)) /\ Cardinality(Hit(ns, s)) <= MaxEdges
    <3>1. FindNode(source)' = FindNode(source)
      BY <2>1 DEF FindNode
    <3>2. IsFiniteSet(Hit(nodes', FindNode(source)')) /\ Cardinality(Hit(nodes', FindNode(source)')) <= MaxEdges
      BY <1>0, <2>1, HitAfter DEF HitFits
    <3> QED BY <3>1, <3>2
  <2>6. ~nodes[n].known
    BY <2>2 DEF Nearest
  <2> HIDE DEF s, c, ns
  <2>7. Settled(ns)
    BY <2>2, <2>3, <2>4, SettledPass
  <2>8. Near(ns, s, c)
    BY <2>2, <2>3, <2>4, <2>5, <2>6, NearPass
  <2> QED BY <1>3, <2>1, <2>7, <2>8 DEF s, c, ns
<1>5. ASSUME VisitAgain PROVE Measured'
  <2>1. /\ phase = "running" /\ phase' = "done" /\ UNCHANGED <<mapping, source, file, grown>>
    BY <1>5 DEF VisitAgain, history
  <2> SUFFICES ASSUME ~grown PROVE Measured'
    BY <2>1 DEF Measured
  <2> DEFINE ns == nodes'
  <2>2. /\ \A m \in Firsts(nodes) : nodes[m].known
        /\ current \in DOMAIN nodes /\ Visited(nodes, current, ns) /\ nodes \in Seq(NodeType)
    BY <1>0, <1>5, AgainAgreed DEF PathInv, Graph
  <2>3. Settled(nodes) /\ Near(nodes, FindNode(source), Cheapest(file, source))
    BY <2>1 DEF DijkstraInv, Measured
  <2> HIDE DEF ns
  <2>4. (Settled(nodes) => Settled(ns)) /\ \A s, c : Near(nodes, s, c) => Near(ns, s, c)
    BY <2>2, QuietPass
  <2>5. Settled(ns) /\ Near(ns, FindNode(source), Cheapest(file, source))
    BY <2>3, <2>4
  <2> QED BY <1>3, <2>1, <2>5 DEF ns
<1>6. ASSUME UNCHANGED vars PROVE Measured'
  <2>1. UNCHANGED <<nodes, mapping, phase, source, file, grown>>
    BY <1>6 DEF vars, history
  <2>2. FindNode(source)' = FindNode(source) /\ Cheapest(file, source)' = Cheapest(file, source)
    BY <2>1 DEF FindNode, Cheapest
  <2>3. Measured
    BY DEF DijkstraInv
  <2> QED BY <2>1, <2>2, <2>3 DEF Measured
<1> QED BY <1>1, <1>2, <1>4, <1>5, <1>6 DEF Next

LEMMA ShortestMeant ==
  ASSUME DijkstraInv
  PROVE  ShortestFound
<1> SUFFICES ASSUME phase = "done", ~grown, NEW v \in Keys, FindNode(v) # Null
             PROVE  nodes[FindNode(v)].dist = Cheapest(file, source)[MaxEdges][v]
  BY DEF ShortestFound
<1> DEFINE s == FindNode(source)
           c == Cheapest(file, source)
           d == FindNode(v)
<1>1. /\ nodes \in Seq(NodeType) /\ Inside(nodes) /\ file \in SUBSET Records /\ Drawn(nodes, file)
      /\ s \in Firsts(nodes) /\ nodes[s].dist = 0
      /\ \A m \in DOMAIN nodes : nodes[m].dist <= MAX
      /\ IsFiniteSet(Hit(nodes, s)) /\ Cardinality(Hit(nodes, s)) <= MaxEdges
      /\ Walks(c, file, nodes[s].id)
  BY RunHolds DEF DijkstraInv
<1>2. /\ \A m \in Firsts(nodes) : nodes[m].known
      /\ Settled(nodes) /\ Near(nodes, s, c) /\ Named(nodes, mapping)
  BY DEF DijkstraInv, HeapInv, Agreed, Measured, Mapped
<1>3. d \in Firsts(nodes) /\ nodes[d].id = v /\ d \in DOMAIN nodes
  <2>1. d = Val(mapping, v)
    BY DEF FindNode, Val
  <2>2. d \in Firsts(nodes) /\ nodes[d].id = v
    BY <1>2, <2>1 DEF Named
  <2> QED BY <2>2 DEF Firsts
<1> HIDE DEF s, c, d
<1>4. nodes[d].dist <= c[MaxEdges][v]
  <2>1. \A m \in Firsts(nodes) : nodes[m].dist <= c[MaxEdges][nodes[m].id]
    BY <1>1, <1>2, NotTooFar
  <2> QED BY <1>3, <2>1
<1>5. MaxEdges \in Nat /\ MAX \in Nat /\ nodes[d].dist \in Nat /\ nodes[d].dist <= MAX
      /\ MaxEdges \in 0 .. MaxEdges /\ 0 \in 0 .. MaxEdges
  BY <1>1, <1>3, NodeAt, CostAssumption
<1>6. /\ c[MaxEdges][v] \in Nat /\ c[0][v] \in Nat /\ c[MaxEdges][v] <= c[0][v]
      /\ c[0][v] = IF v = nodes[s].id THEN 0 ELSE MAX
  BY <1>1, <1>5 DEF Walks
<1>7. c[MaxEdges][v] <= nodes[d].dist
  <2>1. CASE d = s
    <3>1. c[0][v] = 0 /\ nodes[d].dist = 0
      BY <1>1, <1>3, <1>6, <2>1
    <3> QED BY <1>6, <3>1
  <2>2. CASE d # s /\ nodes[d].dist = MAX
    <3>1. c[0][v] <= MAX
      BY <1>5, <1>6
    <3> QED BY <1>5, <1>6, <2>2, <3>1
  <2>3. CASE d # s /\ nodes[d].dist # MAX
    <3> DEFINE k == Cardinality(Past(nodes, s))
    <3>1. d \in Hit(nodes, s)
      BY <1>3, <1>5, <2>3 DEF Hit
    <3>2. c[k][nodes[d].id] <= nodes[d].dist
      BY <1>2, <1>3, <3>1 DEF Near, NearKnown
    <3>3. k \in 0 .. MaxEdges
      BY <1>1, PastFew
    <3> HIDE DEF k
    <3>4. c[MaxEdges][v] <= c[k][v] /\ c[k][v] \in Nat
      BY <1>1, <1>5, <3>3 DEF Walks
    <3> QED BY <1>3, <1>5, <1>6, <3>2, <3>4
  <2> QED BY <2>1, <2>2, <2>3
<1>8. nodes[d].dist = c[MaxEdges][v]
  BY <1>4, <1>5, <1>6, <1>7
<1> QED BY <1>8 DEF c, d

\* When dijkstra returns, the distance of every vertex is the cost of a
\* cheapest path in the file, if that is below MAX, and MAX otherwise, up to
\* the first rehash of mapping (graph.cpp:92-109).
THEOREM ShortestIsFound == Spec => []ShortestFound
<1>1. Init => DijkstraInv
  <2>1. Init => Measured
    BY DEF Init, Measured
  <2> QED BY <2>1, InitHeap DEF DijkstraInv
<1>2. DijkstraInv /\ [Next]_vars => DijkstraInv'
  BY NextHeap, NextMeasured DEF DijkstraInv
<1>3. DijkstraInv => ShortestFound
  BY ShortestMeant
<1> QED BY <1>1, <1>2, <1>3, PTL DEF Spec
==============================================================================
