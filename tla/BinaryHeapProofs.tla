--------------------------- MODULE BinaryHeapProofs ---------------------------
(***************************************************************************)
(* What BinaryHeap.tla promises for any capacity, ids, keys, hash values   *)
(* and calls, up to the first rehash of its hash table: the heap is        *)
(* ordered, the table knows the place of every id and of no other, and     *)
(* every call does what heap.h says.                                       *)
(***************************************************************************)
EXTENDS BinaryHeap, HashTableProofs

(***************************************************************************)
(* The array and the table of ids.                                         *)
(***************************************************************************)
Node  == [id : Keys \cup {NoKey}, key : Int]
Datas == [Places -> Node]

\* The first n nodes of d and the table m agree.
Agree(d, n, m) ==
    /\ \A i \in 1 .. n : d[i].id \in Keys /\ Val(m, d[i].id) = i
    /\ \A k \in Keys : Val(m, k) # Null => Val(m, k) \in 1 .. n /\ d[Val(m, k)].id = k

\* Among the first n nodes of d there is one with id k and key v.
Has(d, n, k, v) == \E i \in 1 .. n : d[i].id = k /\ d[i].key = v

Ordered(d, n) == \A i \in 2 .. n : d[i \div 2].key <= d[i].key

\* Above and below node p the order is right; only p may be out of place: it
\* may be too small for its parent, or too large for its children.
Around(d, n, p) == \A i \in 2 .. n : i \div 2 = p /\ p > 1 => d[p \div 2].key <= d[i].key
TooHigh(d, n, p) == Around(d, n, p) /\ \A i \in 2 .. n : i # p => d[i \div 2].key <= d[i].key
TooLow(d, n, p)  == Around(d, n, p) /\ \A i \in 2 .. n : i \div 2 # p => d[i \div 2].key <= d[i].key

LEMMA Half ==
  ASSUME NEW i \in Nat, i >= 2
  PROVE  /\ i \div 2 \in Nat /\ 1 <= i \div 2 /\ i \div 2 < i
         /\ i = 2 * (i \div 2) \/ i = 2 * (i \div 2) + 1
OBVIOUS

LEMMA HalfIs ==
  ASSUME NEW p \in Nat, p >= 1
  PROVE  (2 * p) \div 2 = p /\ (2 * p + 1) \div 2 = p
OBVIOUS

\* A child has one of two places.
LEMMA ChildIs ==
  ASSUME NEW i \in Nat, i >= 2, NEW p \in Nat, i \div 2 = p
  PROVE  i = 2 * p \/ i = 2 * p + 1
BY Half

LEMMA Sizes ==
  /\ Capacity \in Nat /\ Capacity # 0 /\ Places = 0 .. Capacity
  /\ \A i \in 1 .. Capacity : i \in Pointers /\ i # Null
  /\ Null \notin Int /\ NoKey \notin Keys
BY CapacityAssumption, KeyAssumption DEF Places

LEMMA NodeAt ==
  ASSUME NEW d \in Datas, NEW i \in Places
  PROVE  d[i] \in Node /\ d[i].id \in Keys \cup {NoKey} /\ d[i].key \in Int
BY DEF Datas, Node

\* setPointer of the node at i, in terms of the map.
LEMMA PointEffect ==
  ASSUME NEW m, Sound(m), NEW d, NEW i \in 1 .. Capacity, d[i].id \in Keys
  PROVE  /\ Sound(Point(m, d, i))
         /\ \A k \in Keys : Val(Point(m, d, i), k) =
               IF k = d[i].id /\ Val(m, d[i].id) # Null THEN i ELSE Val(m, k)
<1> DEFINE r == SetPointer(m, d[i].id, i)
<1>1. i \in Pointers /\ d[i].id # NoKey
  BY Sizes
<1>2. Point(m, d, i) = r.table
  BY <1>1 DEF Point
<1>3. Sound(r.table) /\ \A k \in Keys : Val(r.table, k) =
          IF k = d[i].id /\ Val(m, d[i].id) # Null THEN i ELSE Val(m, k)
  BY <1>1, SetPointerCall
<1> HIDE DEF r
<1> QED BY <1>2, <1>3, Zenon

(***************************************************************************)
(* Swap.                                                                   *)
(***************************************************************************)
Swapped(d, p, i) == [d EXCEPT ![i] = d[p], ![p] = d[i]]

LEMMA SwappedIs ==
  ASSUME NEW d \in Datas, NEW p \in 1 .. Capacity, NEW i \in 1 .. Capacity, i # p
  PROVE  /\ Swapped(d, p, i) \in Datas
         /\ Swapped(d, p, i)[i] = d[p] /\ Swapped(d, p, i)[p] = d[i]
         /\ \A j \in Places : j # i /\ j # p => Swapped(d, p, i)[j] = d[j]
<1>1. p \in Places /\ i \in Places
  BY Sizes
<1> QED BY <1>1 DEF Swapped, Datas

\* What a heap h has kept of the data d it began with.
Same(h, n, d) == /\ h.data \in Datas /\ Sound(h.mapping) /\ Agree(h.data, n, h.mapping)
                 /\ h.pos \in 1 .. n
                 /\ \A k \in Keys, v \in Int : Has(h.data, n, k, v) <=> Has(d, n, k, v)

LEMMA SwapSame ==
  ASSUME NEW n \in 0 .. Capacity, NEW h, NEW d, Same(h, n, d), NEW i \in 1 .. n, i # h.pos
  PROVE  /\ Same(Swap(h, i), n, d)
         /\ Swap(h, i).data = Swapped(h.data, h.pos, i) /\ Swap(h, i).pos = i
<1> DEFINE p == h.pos
           c == h.data
           e == Swapped(c, p, i)
           m1 == Point(h.mapping, e, i)
           m2 == Point(m1, e, p)
<1>1. Swap(h, i) = [data |-> e, mapping |-> m2, pos |-> i]
  BY DEF Swap, Swapped
<1>2. /\ c \in Datas /\ Sound(h.mapping) /\ Agree(c, n, h.mapping) /\ p \in 1 .. n
      /\ p \in 1 .. Capacity /\ i \in 1 .. Capacity /\ 1 .. n \subseteq Places
      /\ \A k \in Keys, v \in Int : Has(c, n, k, v) <=> Has(d, n, k, v)
  BY Sizes DEF Same
<1>3. /\ e \in Datas /\ e[i] = c[p] /\ e[p] = c[i]
      /\ \A j \in Places : j # i /\ j # p => e[j] = c[j]
  BY <1>2, SwappedIs
<1> HIDE DEF p, c, e
<1>4. /\ \A j \in 1 .. n : c[j].id \in Keys /\ Val(h.mapping, c[j].id) = j
      /\ \A k \in Keys : Val(h.mapping, k) # Null =>
            Val(h.mapping, k) \in 1 .. n /\ c[Val(h.mapping, k)].id = k
  BY <1>2 DEF Agree
<1>5. e[i].id \in Keys /\ e[p].id \in Keys /\ e[i].id # e[p].id
  BY <1>2, <1>3, <1>4 DEF p
<1>6. /\ Sound(m1)
      /\ \A k \in Keys : Val(m1, k) = IF k = e[i].id /\ Val(h.mapping, e[i].id) # Null
                                      THEN i ELSE Val(h.mapping, k)
  BY <1>2, <1>5, PointEffect
<1> HIDE DEF m1
<1>7. /\ Sound(m2)
      /\ \A k \in Keys : Val(m2, k) = IF k = e[p].id /\ Val(m1, e[p].id) # Null
                                      THEN p ELSE Val(m1, k)
  BY <1>2, <1>5, <1>6, PointEffect
<1> HIDE DEF m2
<1>8. \A k \in Keys : Val(m2, k) = IF k = e[p].id THEN p
                                   ELSE IF k = e[i].id THEN i ELSE Val(h.mapping, k)
  <2>1. Val(h.mapping, e[i].id) # Null /\ Val(h.mapping, e[p].id) # Null
    <3>1. Val(h.mapping, e[i].id) = p /\ Val(h.mapping, e[p].id) = i
      BY <1>2, <1>3, <1>4
    <3> QED BY <1>2, <3>1, Sizes
  <2> QED BY <1>5, <1>6, <1>7, <2>1
<1>9. Agree(e, n, m2)
  <2>1. ASSUME NEW j \in 1 .. n PROVE e[j].id \in Keys /\ Val(m2, e[j].id) = j
    <3>1. CASE j = i
      BY <1>5, <1>8, <3>1
    <3>2. CASE j = p
      BY <1>5, <1>8, <3>2
    <3>3. CASE j # i /\ j # p
      <4>1. e[j] = c[j]
        BY <1>2, <1>3, <3>3
      <4>2. c[j].id # c[p].id /\ c[j].id # c[i].id
        BY <1>2, <1>4, <3>3
      <4> QED BY <1>3, <1>4, <1>8, <4>1, <4>2
    <3> QED BY <3>1, <3>2, <3>3
  <2>2. ASSUME NEW k \in Keys, Val(m2, k) # Null
        PROVE  Val(m2, k) \in 1 .. n /\ e[Val(m2, k)].id = k
    <3>1. CASE k = e[p].id
      BY <1>2, <1>8, <3>1
    <3>2. CASE k # e[p].id /\ k = e[i].id
      BY <1>2, <1>8, <3>2
    <3>3. CASE k # e[p].id /\ k # e[i].id
      <4> DEFINE j == Val(h.mapping, k)
      <4>1. Val(m2, k) = j
        BY <1>8, <3>3
      <4>2. j \in 1 .. n /\ c[j].id = k
        BY <1>4, <2>2, <4>1
      <4> HIDE DEF j
      <4>3. j # i /\ j # p
        BY <1>3, <3>3, <4>2
      <4> QED BY <1>2, <1>3, <4>1, <4>2, <4>3
    <3> QED BY <3>1, <3>2, <3>3
  <2> QED BY <2>1, <2>2 DEF Agree
<1>10. ASSUME NEW k \in Keys, NEW v \in Int PROVE Has(e, n, k, v) <=> Has(c, n, k, v)
  <2>1. ASSUME NEW j \in 1 .. n PROVE \E l \in 1 .. n : c[l] = e[j]
    BY <1>2, <1>3
  <2>2. ASSUME NEW j \in 1 .. n PROVE \E l \in 1 .. n : e[l] = c[j]
    BY <1>2, <1>3
  <2> QED BY <2>1, <2>2 DEF Has
<1>11. Same([data |-> e, mapping |-> m2, pos |-> i], n, d)
  BY <1>2, <1>3, <1>7, <1>9, <1>10 DEF Same
<1> QED BY <1>1, <1>11 DEF e, c, p

(***************************************************************************)
(* One step of percolateUp and of percolateDown.                           *)
(***************************************************************************)
LEMMA UpStepEffect ==
  ASSUME NEW n \in 0 .. Capacity, NEW h, NEW d, Same(h, n, d), TooHigh(h.data, n, h.pos)
  PROVE  LET g == UpStep(h) IN
            /\ Same(g, n, d) /\ TooHigh(g.data, n, g.pos)
            /\ \/ g = h /\ Ordered(g.data, n)
               \/ g.pos < h.pos
<1> DEFINE p == h.pos
           q == p \div 2
           c == h.data
           g == UpStep(h)
           e == Swapped(c, p, q)
<1>1. p \in 1 .. n /\ c \in Datas /\ n \in Nat /\ 1 .. n \subseteq Places /\ 1 .. n \subseteq 1 .. Capacity
  BY Sizes DEF Same
<1>2. /\ \A i \in 2 .. n : i \div 2 = p /\ p > 1 => c[q].key <= c[i].key
      /\ \A i \in 2 .. n : i # p => c[i \div 2].key <= c[i].key
  BY DEF TooHigh, Around
<1>3. \A i \in 1 .. n : c[i].key \in Int
  BY <1>1, NodeAt
<1>4. CASE p > 1 /\ c[p].key < c[q].key
  <2>1. q \in 1 .. n /\ q < p /\ q # p /\ (p = 2 * q \/ p = 2 * q + 1)
    <3>1. p \in Nat /\ p >= 2
      BY <1>1, <1>4
    <3> QED BY <1>1, <3>1, Half
  <2>2. g = Swap(h, q)
    BY <1>4 DEF UpStep
  <2>3. Same(g, n, d) /\ g.data = e /\ g.pos = q
    BY <2>1, <2>2, SwapSame
  <2>4. /\ e[q] = c[p] /\ e[p] = c[q]
        /\ \A j \in Places : j # q /\ j # p => e[j] = c[j]
    <3> HIDE DEF q, p, c
    <3> QED BY <1>1, <2>1, SwappedIs
  <2> HIDE DEF g, e, c, p, q
  <2>5. \A i \in 2 .. n : i \in 1 .. n /\ i \div 2 \in 1 .. n /\ i \div 2 # i
    <3> SUFFICES ASSUME NEW i \in 2 .. n PROVE i \in 1 .. n /\ i \div 2 \in 1 .. n /\ i \div 2 # i
      OBVIOUS
    <3>1. i \in Nat /\ i >= 2 /\ i <= n
      BY <1>1
    <3> QED BY <1>1, <3>1, Half
  <2>6. ASSUME NEW i \in 2 .. n, i # q PROVE e[i \div 2].key <= e[i].key
    <3> DEFINE r == i \div 2
    <3>1. i \in 1 .. n /\ r \in 1 .. n /\ r # i
      BY <2>5
    <3>2. i # p => c[r].key <= c[i].key
      BY <1>2
    <3>3. r = p => c[q].key <= c[i].key
      BY <1>2, <1>4
    <3>4. i = p => r = q
      BY DEF q
    <3> HIDE DEF r
    <3>5. CASE i = p
      BY <1>1, <1>3, <1>4, <2>1, <2>4, <3>4, <3>5
    <3>6. CASE i # p /\ r = p
      <4>1. e[r] = c[q] /\ e[i] = c[i]
        BY <1>1, <2>4, <2>6, <3>1, <3>6
      <4> QED BY <3>3, <3>6, <4>1 DEF r
    <3>7. CASE i # p /\ r = q
      <4>1. e[r] = c[p] /\ e[i] = c[i]
        BY <1>1, <2>4, <2>6, <3>1, <3>7
      <4>2. c[p].key \in Int /\ c[q].key \in Int /\ c[i].key \in Int
        BY <1>1, <1>3, <2>1, <3>1
      <4> QED BY <1>4, <3>2, <3>7, <4>1, <4>2 DEF r
    <3>8. CASE i # p /\ r # p /\ r # q
      <4>1. e[r] = c[r] /\ e[i] = c[i]
        BY <1>1, <2>4, <2>6, <3>1, <3>8
      <4> QED BY <3>2, <3>8, <4>1 DEF r
    <3> QED BY <3>5, <3>6, <3>7, <3>8 DEF r
  <2>7. ASSUME NEW i \in 2 .. n, i \div 2 = q, q > 1 PROVE e[q \div 2].key <= e[i].key
    <3> DEFINE s == q \div 2
    <3>1. q \in 2 .. n
      BY <1>1, <2>1, <2>7
    <3>2. s \in 1 .. n /\ s # q /\ c[s].key <= c[q].key
      BY <1>2, <2>1, <2>5, <3>1
    <3>3. s < q
      BY <2>1, <3>1, Half
    <3>4. s # p
      BY <1>1, <2>1, <3>2, <3>3
    <3> HIDE DEF s
    <3>5. e[s] = c[s] /\ i \in 1 .. n /\ i # q
      BY <1>1, <2>4, <2>5, <2>7, <3>2, <3>4
    <3>6. c[s].key \in Int /\ c[q].key \in Int /\ c[i].key \in Int
      BY <1>3, <2>1, <3>2, <3>5
    <3>7. CASE i = p
      BY <2>4, <3>2, <3>5, <3>7 DEF s
    <3>8. CASE i # p
      <4>1. e[i] = c[i] /\ c[q].key <= c[i].key
        BY <1>1, <1>2, <2>4, <2>7, <3>5, <3>8
      <4> QED BY <3>2, <3>5, <3>6, <4>1 DEF s
    <3> QED BY <3>7, <3>8
  <2>8. TooHigh(e, n, q)
    BY <2>6, <2>7 DEF TooHigh, Around
  <2> QED BY <2>1, <2>3, <2>8 DEF g, p
<1>5. CASE ~(p > 1 /\ c[p].key < c[q].key)
  <2>1. g = h
    BY <1>5 DEF UpStep
  <2>2. Ordered(c, n)
    <3> SUFFICES ASSUME NEW i \in 2 .. n PROVE c[i \div 2].key <= c[i].key
      BY DEF Ordered
    <3>1. CASE i # p
      BY <1>2, <3>1
    <3>2. CASE i = p
      <4>1. p \in Nat /\ p >= 2
        BY <1>1, <3>2
      <4>2. q \in 1 .. n
        BY <1>1, <4>1, Half
      <4>3. c[p].key \in Int /\ c[q].key \in Int
        BY <1>1, <1>3, <4>2
      <4> HIDE DEF c, q
      <4>4. c[q].key <= c[p].key
        BY <1>1, <1>5, <4>1, <4>3
      <4> QED BY <3>2, <4>4 DEF q
    <3> QED BY <3>1, <3>2
  <2> QED BY <2>1, <2>2
<1> QED BY <1>4, <1>5

\* In an ordered heap percolateUp stops at once, also at a place behind its end
\* whose key is not too small.
LEMMA UpStepStops ==
  ASSUME NEW h, h.pos \in 1 .. Capacity, h.data \in Datas,
         h.pos > 1 => h.data[h.pos \div 2].key <= h.data[h.pos].key
  PROVE  UpStep(h) = h
<1> DEFINE p == h.pos
<1>1. CASE p > 1
  <2>1. p \in Nat /\ p >= 2
    BY <1>1
  <2>2. p \in Places /\ p \div 2 \in Places
    BY <2>1, Half, Sizes
  <2>3. h.data[p].key \in Int /\ h.data[p \div 2].key \in Int
    BY <2>2, NodeAt
  <2> QED BY <1>1, <2>3 DEF UpStep
<1>2. CASE ~(p > 1)
  BY <1>2 DEF UpStep
<1> QED BY <1>1, <1>2

LEMMA DownStepEffect ==
  ASSUME NEW n \in 0 .. Capacity, NEW h, NEW d, Same(h, n, d), TooLow(h.data, n, h.pos)
  PROVE  LET g == DownStep(h, n) IN
            /\ Same(g, n, d) /\ TooLow(g.data, n, g.pos)
            /\ \/ g = h /\ Ordered(g.data, n)
               \/ g.pos > h.pos
<1> DEFINE p == h.pos
           c == h.data
           q == MinChild(h, n)
           g == DownStep(h, n)
           e == Swapped(c, p, q)
<1>1. p \in 1 .. n /\ c \in Datas /\ n \in Nat /\ 1 .. n \subseteq Places /\ 1 .. n \subseteq 1 .. Capacity
  BY Sizes DEF Same
<1>2. /\ \A i \in 2 .. n : i \div 2 = p /\ p > 1 => c[p \div 2].key <= c[i].key
      /\ \A i \in 2 .. n : i \div 2 # p => c[i \div 2].key <= c[i].key
  BY DEF TooLow, Around
<1>3. \A i \in 1 .. n : c[i].key \in Int
  BY <1>1, NodeAt
<1>4. \A i \in 2 .. n : /\ i \in 1 .. n /\ i \div 2 \in 1 .. n /\ i \div 2 < i /\ i \div 2 # i
                        /\ i \div 2 = p => i = 2 * p \/ i = 2 * p + 1
  <2> SUFFICES ASSUME NEW i \in 2 .. n
               PROVE  /\ i \in 1 .. n /\ i \div 2 \in 1 .. n /\ i \div 2 < i /\ i \div 2 # i
                      /\ i \div 2 = p => i = 2 * p \/ i = 2 * p + 1
    OBVIOUS
  <2>1. i \in Nat /\ i >= 2 /\ i <= n
    BY <1>1
  <2> QED BY <1>1, <2>1, Half
\* the smaller child
<1>5. ASSUME 2 * p <= n
      PROVE  /\ q \in 2 .. n /\ q \div 2 = p /\ q > p
             /\ \A i \in 2 .. n : i \div 2 = p => c[q].key <= c[i].key
  <2>1. p \in Nat /\ p >= 1 /\ 2 * p \in 2 .. n /\ (2 * p) \div 2 = p /\ (2 * p + 1) \div 2 = p
    BY <1>1, <1>5, HalfIs
  <2>2. c[2 * p].key \in Int
    BY <1>3, <1>4, <2>1
  <2>3. CASE 2 * p + 1 > n
    <3>1. q = 2 * p
      BY <2>3 DEF MinChild
    <3>2. \A i \in 2 .. n : i \div 2 = p => i = 2 * p
      BY <1>1, <1>4, <2>3
    <3> HIDE DEF q, c
    <3> QED BY <2>1, <2>2, <3>1, <3>2
  <2>4. CASE 2 * p + 1 <= n
    <3>1. 2 * p + 1 \in 2 .. n
      BY <1>1, <2>1, <2>4
    <3>2. c[2 * p + 1].key \in Int
      BY <1>3, <1>4, <3>1
    <3>3. ~(2 * p + 1 > n)
      BY <1>1, <2>1, <2>4
    <3>4. CASE c[2 * p].key <= c[2 * p + 1].key
      <4>1. q = 2 * p
        BY <3>4 DEF MinChild
      <4> HIDE DEF q, c
      <4> QED BY <1>4, <2>1, <2>2, <3>4, <4>1
    <3>5. CASE ~(c[2 * p].key <= c[2 * p + 1].key)
      <4>1. q = 2 * p + 1
        BY <3>3, <3>5 DEF MinChild
      <4>2. c[2 * p + 1].key <= c[2 * p].key
        BY <2>2, <3>2, <3>5
      <4> HIDE DEF q, c
      <4>3. c[2 * p + 1].key <= c[2 * p + 1].key
        BY <3>2
      <4> QED BY <1>4, <2>1, <3>1, <4>1, <4>2, <4>3
    <3> QED BY <3>4, <3>5
  <2> QED BY <1>1, <2>1, <2>3, <2>4
<1>6. CASE 2 * p <= n /\ c[q].key < c[p].key
  <2>1. /\ q \in 2 .. n /\ q \div 2 = p /\ q > p /\ q # p /\ q \in 1 .. n
        /\ \A i \in 2 .. n : i \div 2 = p => c[q].key <= c[i].key
    BY <1>1, <1>5, <1>6
  <2>2. g = Swap(h, q)
    BY <1>6 DEF DownStep
  <2> HIDE DEF q
  <2>3. Same(g, n, d) /\ g.data = e /\ g.pos = q
    BY <2>1, <2>2, SwapSame
  <2>4. /\ e[q] = c[p] /\ e[p] = c[q]
        /\ \A j \in Places : j # q /\ j # p => e[j] = c[j]
    BY <1>1, <2>1, SwappedIs
  <2>5. c[p].key \in Int /\ c[q].key \in Int
    BY <1>1, <1>3, <2>1
  <2> HIDE DEF g, e, c, p
  <2>6. ASSUME NEW i \in 2 .. n, i \div 2 # q PROVE e[i \div 2].key <= e[i].key
    <3> DEFINE r == i \div 2
    <3>1. i \in 1 .. n /\ r \in 1 .. n /\ r # i
      BY <1>4
    <3>2. r # p => c[r].key <= c[i].key
      BY <1>2
    <3>3. /\ r = p => c[q].key <= c[i].key
          /\ i = q => r = p
      BY <2>1
    <3> HIDE DEF r
    <3>4. CASE i = q
      BY <1>6, <2>4, <2>5, <3>3, <3>4 DEF r
    <3>5. CASE i # q /\ r = p
      <4>1. e[r] = c[q] /\ e[i] = c[i]
        BY <1>1, <2>4, <3>1, <3>5
      <4> QED BY <3>3, <3>5, <4>1 DEF r
    <3>6. CASE i = p
      <4>1. e[r] = c[r] /\ e[i] = c[q]
        BY <1>1, <2>4, <2>6, <3>1, <3>6 DEF r
      <4>2. c[r].key <= c[q].key
        <5>1. p > 1 /\ r = p \div 2
          BY <1>1, <3>6 DEF r
        <5> QED BY <1>2, <2>1, <5>1
      <4> QED BY <4>1, <4>2 DEF r
    <3>7. CASE i # q /\ i # p /\ r # p
      <4>1. e[r] = c[r] /\ e[i] = c[i]
        BY <1>1, <2>4, <2>6, <3>1, <3>7 DEF r
      <4> QED BY <3>2, <3>7, <4>1 DEF r
    <3> QED BY <3>4, <3>5, <3>6, <3>7
  <2>7. ASSUME NEW i \in 2 .. n, i \div 2 = q PROVE e[q \div 2].key <= e[i].key
    <3>1. i \in 1 .. n /\ i # q /\ q < i
      BY <1>4, <2>7
    <3>2. i # p
      BY <1>1, <2>1, <3>1
    <3>3. e[p] = c[q] /\ e[i] = c[i]
      BY <1>1, <2>4, <3>1, <3>2
    <3>4. c[q].key <= c[i].key
      BY <1>2, <2>1, <2>7
    <3> QED BY <2>1, <3>3, <3>4
  <2>8. TooLow(e, n, q)
    BY <2>6, <2>7 DEF TooLow, Around
  <2> QED BY <2>1, <2>3, <2>8 DEF g, p
<1>7. CASE ~(2 * p <= n /\ c[q].key < c[p].key)
  <2>1. g = h
    BY <1>7 DEF DownStep
  <2>2. Ordered(c, n)
    <3> SUFFICES ASSUME NEW i \in 2 .. n PROVE c[i \div 2].key <= c[i].key
      BY DEF Ordered
    <3>1. CASE i \div 2 # p
      BY <1>2, <3>1
    <3>2. CASE i \div 2 = p
      <4>1. 2 * p <= n
        BY <1>1, <1>4, <3>2
      <4>2. q \in 2 .. n /\ c[q].key <= c[i].key
        BY <1>5, <3>2, <4>1
      <4>3. c[p].key \in Int /\ c[q].key \in Int /\ c[i].key \in Int
        BY <1>1, <1>3, <1>4, <4>2
      <4> HIDE DEF c, q
      <4>4. c[p].key <= c[i].key
        BY <1>7, <4>1, <4>2, <4>3
      <4> QED BY <3>2, <4>4
    <3> QED BY <3>1, <3>2
  <2> QED BY <2>1, <2>2
<1> QED BY <1>6, <1>7

\* In an ordered heap percolateDown stops at once.
LEMMA DownStepStops ==
  ASSUME NEW n \in 0 .. Capacity, NEW h, NEW d, Same(h, n, d), Ordered(h.data, n)
  PROVE  DownStep(h, n) = h
<1> DEFINE p == h.pos
           c == h.data
           q == MinChild(h, n)
<1>1. p \in 1 .. n /\ p \in Nat /\ p >= 1 /\ c \in Datas /\ n \in Nat /\ 1 .. n \subseteq Places
  BY Sizes DEF Same
<1>2. CASE 2 * p <= n
  <2>1. q \in {2 * p, 2 * p + 1} /\ q <= n
    BY <1>1, <1>2 DEF MinChild
  <2> HIDE DEF q
  <2>2. q \in 2 .. n /\ q \div 2 = p
    BY <1>1, <2>1, HalfIs
  <2>3. c[p].key <= c[q].key
    BY <2>2 DEF Ordered
  <2>4. c[p].key \in Int /\ c[q].key \in Int
    <3>1. p \in Places /\ q \in Places
      BY <1>1, <2>2
    <3> QED BY <1>1, <3>1, NodeAt
  <2> HIDE DEF c
  <2>5. ~(c[q].key < c[p].key)
    BY <2>3, <2>4
  <2> QED BY <2>5 DEF DownStep, c, q
<1>3. CASE ~(2 * p <= n)
  BY <1>3 DEF DownStep
<1> QED BY <1>2, <1>3

(***************************************************************************)
(* percolateUp and percolateDown.                                          *)
(***************************************************************************)
StepOf(way, h, n) == IF way = "up" THEN UpStep(h) ELSE DownStep(h, n)

AreSteps(f, way, h, n, k) == f = [x \in 0 .. k |-> IF x = 0 THEN h ELSE StepOf(way, f[x - 1], n)]

LEMMA StepsExist ==
  ASSUME NEW way, NEW h, NEW n, NEW k \in Nat
  PROVE  \E f : AreSteps(f, way, h, n, k)
<1> DEFINE Steps(f, m) == f = [x \in 0 .. m |-> IF x = 0 THEN h ELSE StepOf(way, f[x - 1], n)]
           T == {m \in Nat : \E f : Steps(f, m)}
<1>1. 0 \in T
  <2>1. Steps([x \in 0 .. 0 |-> h], 0)
    OBVIOUS
  <2> QED BY <2>1
<1>2. ASSUME NEW m \in Nat, m \in T PROVE m + 1 \in T
  <2>1. PICK f : Steps(f, m)
    BY <1>2
  <2> DEFINE g == [x \in 0 .. m + 1 |-> IF x = m + 1 THEN StepOf(way, f[m], n) ELSE f[x]]
  <2>2. \A x \in 0 .. m : f[x] = IF x = 0 THEN h ELSE StepOf(way, f[x - 1], n)
    BY <2>1
  <2>3. \A x \in 0 .. m + 1 : g[x] = IF x = 0 THEN h ELSE StepOf(way, g[x - 1], n)
    <3> SUFFICES ASSUME NEW x \in 0 .. m + 1
                 PROVE  g[x] = IF x = 0 THEN h ELSE StepOf(way, g[x - 1], n)
      OBVIOUS
    <3>1. CASE x = m + 1
      <4>1. x # 0 /\ x - 1 = m /\ m \in 0 .. m + 1 /\ m # m + 1
        BY <3>1
      <4>2. g[x - 1] = f[m] /\ g[x] = StepOf(way, f[m], n)
        BY <3>1, <4>1
      <4> QED BY <3>1, <4>1, <4>2
    <3>2. CASE x # m + 1
      <4>1. x \in 0 .. m
        BY <3>2
      <4>2. g[x] = f[x] /\ (x # 0 => g[x - 1] = f[x - 1])
        BY <3>2, <4>1
      <4> QED BY <2>2, <4>1, <4>2
    <3> QED BY <3>1, <3>2
  <2>4. g = [x \in 0 .. m + 1 |-> g[x]]
    OBVIOUS
  <2>5. Steps(g, m + 1)
    <3> HIDE DEF g
    <3>1. [x \in 0 .. m + 1 |-> g[x]]
             = [x \in 0 .. m + 1 |-> IF x = 0 THEN h ELSE StepOf(way, g[x - 1], n)]
      BY <2>3, Zenon
    <3> QED BY <2>4, <3>1, Zenon
  <2> HIDE DEF g, Steps
  <2>6. m + 1 \in Nat
    OBVIOUS
  <2> QED BY <2>5, <2>6, Zenon
<1>3. k \in T
  <2> HIDE DEF T
  <2>1. Nat \subseteq T
    BY <1>1, <1>2, Induct
  <2> QED BY <2>1
<1> QED BY <1>3 DEF AreSteps

LEMMA UpSteps ==
  ASSUME NEW h
  PROVE  Up(h)[0] = h /\ \A x \in 1 .. Capacity : Up(h)[x] = UpStep(Up(h)[x - 1])
<1> DEFINE Steps(f) == f = [x \in 0 .. Capacity |-> IF x = 0 THEN h ELSE UpStep(f[x - 1])]
<1>1. PICK f : AreSteps(f, "up", h, 0, Capacity)
  <2>1. Capacity \in Nat
    BY Sizes
  <2> QED BY <2>1, StepsExist
<1>2. Steps(f)
  <2>1. \A g : StepOf("up", g, 0) = UpStep(g)
    BY DEF StepOf
  <2> QED BY <1>1, <2>1 DEF AreSteps
<1>3. Up(h) = CHOOSE f0 : Steps(f0)
  BY DEF Up
<1>4. Steps(Up(h))
  BY <1>2, <1>3, Zenon
<1> QED BY <1>4, Sizes

LEMMA DownSteps ==
  ASSUME NEW h, NEW n
  PROVE  Down(h, n)[0] = h /\ \A x \in 1 .. Capacity : Down(h, n)[x] = DownStep(Down(h, n)[x - 1], n)
<1> DEFINE Steps(f) == f = [x \in 0 .. Capacity |-> IF x = 0 THEN h ELSE DownStep(f[x - 1], n)]
<1>1. PICK f : AreSteps(f, "down", h, n, Capacity)
  <2>1. Capacity \in Nat
    BY Sizes
  <2> QED BY <2>1, StepsExist
<1>2. Steps(f)
  <2>1. \A g : StepOf("down", g, n) = DownStep(g, n)
    BY DEF StepOf
  <2> QED BY <1>1, <2>1 DEF AreSteps
<1>3. Down(h, n) = CHOOSE f0 : Steps(f0)
  BY DEF Down
<1>4. Steps(Down(h, n))
  BY <1>2, <1>3, Zenon
<1> QED BY <1>4, Sizes

\* A node that may be too small for its parent finds its place.
LEMMA UpEffect ==
  ASSUME NEW n \in 0 .. Capacity, NEW h, NEW d, Same(h, n, d), TooHigh(h.data, n, h.pos)
  PROVE  Same(PercolateUp(h), n, d) /\ Ordered(PercolateUp(h).data, n)
<1> DEFINE g == Up(h)
           F(x) == /\ Same(g[x], n, d) /\ TooHigh(g[x].data, n, g[x].pos)
                   /\ Ordered(g[x].data, n) \/ g[x].pos + x <= Capacity
           T == {x \in Nat : x <= Capacity => F(x)}
<1>1. g[0] = h /\ \A x \in 1 .. Capacity : g[x] = UpStep(g[x - 1])
  BY UpSteps
<1> HIDE DEF g
<1>2. F(0)
  <2>1. h.pos \in 1 .. n /\ h.pos + 0 <= Capacity
    BY Sizes DEF Same
  <2> QED BY <1>1, <2>1
<1>3. ASSUME NEW x \in Nat, x + 1 <= Capacity, F(x) PROVE F(x + 1)
  <2>1. g[x + 1] = UpStep(g[x])
    <3>1. x + 1 \in 1 .. Capacity /\ x + 1 - 1 = x
      BY <1>3, Sizes
    <3> QED BY <1>1, <3>1
  <2>2. /\ Same(g[x + 1], n, d) /\ TooHigh(g[x + 1].data, n, g[x + 1].pos)
        /\ \/ g[x + 1] = g[x] /\ Ordered(g[x + 1].data, n)
           \/ g[x + 1].pos < g[x].pos
    BY <1>3, <2>1, UpStepEffect
  <2>3. g[x].pos \in 1 .. n /\ g[x + 1].pos \in 1 .. n
    BY <1>3, <2>2 DEF Same
  <2>4. CASE Ordered(g[x].data, n)
    <3> DEFINE p == g[x].pos
    <3>1. p > 1 => g[x].data[p \div 2].key <= g[x].data[p].key
      <4>1. p > 1 => p \in 2 .. n
        BY <2>3, Sizes
      <4> HIDE DEF p
      <4> QED BY <2>4, <4>1 DEF Ordered
    <3>2. p \in 1 .. Capacity /\ g[x].data \in Datas
      BY <1>3, <2>3, Sizes DEF Same
    <3>3. UpStep(g[x]) = g[x]
      BY <3>1, <3>2, UpStepStops
    <3> QED BY <2>1, <2>2, <2>4, <3>3
  <2>5. CASE ~Ordered(g[x].data, n)
    <3>1. g[x].pos + x <= Capacity
      BY <1>3, <2>5
    <3>2. CASE Ordered(g[x + 1].data, n)
      BY <2>2, <3>2
    <3>3. CASE ~Ordered(g[x + 1].data, n)
      <4>1. g[x + 1].pos < g[x].pos
        BY <2>2, <3>3
      <4>2. g[x + 1].pos + (x + 1) <= Capacity
        BY <2>3, <3>1, <4>1, Sizes
      <4> QED BY <2>2, <4>2
    <3> QED BY <3>2, <3>3
  <2> QED BY <2>4, <2>5
<1>4. 0 \in T /\ \A x \in Nat : x \in T => x + 1 \in T
  <2> HIDE DEF F
  <2>1. 0 \in T
    BY <1>2
  <2>2. ASSUME NEW x \in Nat, x \in T PROVE x + 1 \in T
    BY <1>3, <2>2, Sizes
  <2> QED BY <2>1, <2>2
<1>5. F(Capacity)
  <2> HIDE DEF F, T
  <2>1. Nat \subseteq T
    BY <1>4, Induct
  <2>2. Capacity \in T /\ Capacity <= Capacity
    BY <2>1, Sizes
  <2> QED BY <2>2 DEF T
<1>6. PercolateUp(h) = g[Capacity]
  BY DEF PercolateUp, g
<1>7. ~(g[Capacity].pos + Capacity <= Capacity)
  BY <1>5, Sizes DEF Same
<1> QED BY <1>5, <1>6, <1>7

\* A node that may be too large for its children finds its place.
LEMMA DownEffect ==
  ASSUME NEW n \in 0 .. Capacity, NEW h, NEW d, Same(h, n, d), TooLow(h.data, n, h.pos)
  PROVE  Same(PercolateDown(h, n), n, d) /\ Ordered(PercolateDown(h, n).data, n)
<1> DEFINE g == Down(h, n)
           F(x) == /\ Same(g[x], n, d) /\ TooLow(g[x].data, n, g[x].pos)
                   /\ Ordered(g[x].data, n) \/ g[x].pos > x
           T == {x \in Nat : x <= Capacity => F(x)}
<1>1. g[0] = h /\ \A x \in 1 .. Capacity : g[x] = DownStep(g[x - 1], n)
  BY DownSteps
<1> HIDE DEF g
<1>2. F(0)
  <2>1. h.pos \in 1 .. n /\ h.pos > 0
    BY Sizes DEF Same
  <2> QED BY <1>1, <2>1
<1>3. ASSUME NEW x \in Nat, x + 1 <= Capacity, F(x) PROVE F(x + 1)
  <2>1. g[x + 1] = DownStep(g[x], n)
    <3>1. x + 1 \in 1 .. Capacity /\ x + 1 - 1 = x
      BY <1>3, Sizes
    <3> QED BY <1>1, <3>1
  <2>2. /\ Same(g[x + 1], n, d) /\ TooLow(g[x + 1].data, n, g[x + 1].pos)
        /\ \/ g[x + 1] = g[x] /\ Ordered(g[x + 1].data, n)
           \/ g[x + 1].pos > g[x].pos
    BY <1>3, <2>1, DownStepEffect
  <2>3. g[x].pos \in 1 .. n /\ g[x + 1].pos \in 1 .. n
    BY <1>3, <2>2 DEF Same
  <2>4. CASE Ordered(g[x].data, n)
    <3>1. DownStep(g[x], n) = g[x]
      BY <1>3, <2>4, DownStepStops
    <3> QED BY <2>1, <2>2, <2>4, <3>1
  <2>5. CASE ~Ordered(g[x].data, n)
    <3>1. g[x].pos > x
      BY <1>3, <2>5
    <3>2. CASE Ordered(g[x + 1].data, n)
      BY <2>2, <3>2
    <3>3. CASE ~Ordered(g[x + 1].data, n)
      <4>1. g[x + 1].pos > g[x].pos
        BY <2>2, <3>3
      <4>2. g[x + 1].pos > x + 1
        BY <2>3, <3>1, <4>1, Sizes
      <4> QED BY <2>2, <4>2
    <3> QED BY <3>2, <3>3
  <2> QED BY <2>4, <2>5
<1>4. 0 \in T /\ \A x \in Nat : x \in T => x + 1 \in T
  <2> HIDE DEF F
  <2>1. 0 \in T
    BY <1>2
  <2>2. ASSUME NEW x \in Nat, x \in T PROVE x + 1 \in T
    BY <1>3, <2>2, Sizes
  <2> QED BY <2>1, <2>2
<1>5. F(Capacity)
  <2> HIDE DEF F, T
  <2>1. Nat \subseteq T
    BY <1>4, Induct
  <2>2. Capacity \in T /\ Capacity <= Capacity
    BY <2>1, Sizes
  <2> QED BY <2>2 DEF T
<1>6. PercolateDown(h, n) = g[Capacity]
  BY DEF PercolateDown, g
<1>7. ~(g[Capacity].pos > Capacity)
  BY <1>5, Sizes DEF Same
<1> QED BY <1>5, <1>6, <1>7

\* Where nothing is out of place neither of them does anything.
LEMMA UpNothing ==
  ASSUME NEW h, UpStep(h) = h
  PROVE  PercolateUp(h) = h
<1> DEFINE g == Up(h)
           T == {x \in Nat : x <= Capacity => g[x] = h}
<1>1. g[0] = h /\ \A x \in 1 .. Capacity : g[x] = UpStep(g[x - 1])
  BY UpSteps
<1> HIDE DEF g
<1>2. 0 \in T /\ \A x \in Nat : x \in T => x + 1 \in T
  <2> SUFFICES ASSUME NEW x \in Nat, x <= Capacity => g[x] = h, x + 1 <= Capacity
               PROVE  g[x + 1] = h
    BY <1>1
  <2>1. x + 1 \in 1 .. Capacity /\ x + 1 - 1 = x /\ x <= Capacity
    BY Sizes
  <2> QED BY <1>1, <2>1
<1>3. g[Capacity] = h
  <2> HIDE DEF T
  <2>1. Nat \subseteq T
    BY <1>2, Induct
  <2>2. Capacity \in T /\ Capacity <= Capacity
    BY <2>1, Sizes
  <2> QED BY <2>2 DEF T
<1> QED BY <1>3 DEF PercolateUp, g

LEMMA DownNothing ==
  ASSUME NEW h, NEW n, DownStep(h, n) = h
  PROVE  PercolateDown(h, n) = h
<1> DEFINE g == Down(h, n)
           T == {x \in Nat : x <= Capacity => g[x] = h}
<1>1. g[0] = h /\ \A x \in 1 .. Capacity : g[x] = DownStep(g[x - 1], n)
  BY DownSteps
<1> HIDE DEF g
<1>2. 0 \in T /\ \A x \in Nat : x \in T => x + 1 \in T
  <2> SUFFICES ASSUME NEW x \in Nat, x <= Capacity => g[x] = h, x + 1 <= Capacity
               PROVE  g[x + 1] = h
    BY <1>1
  <2>1. x + 1 \in 1 .. Capacity /\ x + 1 - 1 = x /\ x <= Capacity
    BY Sizes
  <2> QED BY <1>1, <2>1
<1>3. g[Capacity] = h
  <2> HIDE DEF T
  <2>1. Nat \subseteq T
    BY <1>2, Induct
  <2>2. Capacity \in T /\ Capacity <= Capacity
    BY <2>1, Sizes
  <2> QED BY <2>2 DEF T
<1> QED BY <1>3 DEF PercolateDown, g

(***************************************************************************)
(* The functions of the class.                                             *)
(***************************************************************************)
\* A heap of n nodes as it is between two calls.
Good(d, n, m) == /\ n \in 0 .. Capacity /\ d \in Datas /\ Sound(m)
                 /\ Agree(d, n, m) /\ Ordered(d, n)

LEMMA KnownAt ==
  ASSUME NEW d, NEW n, NEW m, Good(d, n, m), NEW id \in Keys
  PROVE  /\ TableContains(m, id) <=> Val(m, id) # Null
         /\ TableContains(m, id) =>
               /\ Val(m, id) \in 1 .. n /\ d[Val(m, id)].id = id
               /\ \A i \in 1 .. n : d[i].id = id => i = Val(m, id)
<1>1. TableContains(m, id) <=> Val(m, id) # Null
  BY ValMeans DEF Good, TableContains
<1>2. ASSUME Val(m, id) # Null
      PROVE  /\ Val(m, id) \in 1 .. n /\ d[Val(m, id)].id = id
             /\ \A i \in 1 .. n : d[i].id = id => i = Val(m, id)
  BY <1>2 DEF Good, Agree
<1> QED BY <1>1, <1>2

\* insert: the new node is behind the others, and may be too small.
Added(d, n, id, k) == [d EXCEPT ![n + 1] = [id |-> id, key |-> k]]

LEMMA InsertEffect ==
  ASSUME NEW d, NEW n, NEW m, Good(d, n, m), n < Capacity, NEW id \in Keys, NEW k \in Int,
         Val(m, id) = Null, NEW u, Sound(u),
         \A h \in Keys : Val(u, h) = IF h = id THEN n + 1 ELSE Val(m, h)
  PROVE  LET g == PercolateUp(Heap(Added(d, n, id, k), u, n + 1)) IN
            /\ Good(g.data, n + 1, g.mapping)
            /\ \A h \in Keys, v \in Int : Has(g.data, n + 1, h, v) <=>
                  Has(d, n, h, v) \/ (h = id /\ v = k)
<1> DEFINE p == n + 1
           e == Added(d, n, id, k)
           h == Heap(e, u, p)
           g == PercolateUp(h)
<1>1. /\ n \in Nat /\ n \in 0 .. Capacity /\ p \in 1 .. Capacity /\ p \in 0 .. Capacity
      /\ p \in Places /\ d \in Datas /\ Agree(d, n, m) /\ Ordered(d, n)
      /\ 1 .. n \subseteq Places /\ 1 .. p = 1 .. n \cup {p} /\ p \notin 1 .. n
      /\ 1 .. n \subseteq Int /\ p # Null /\ \A i \in 1 .. n : i # Null
  BY Sizes DEF Good
<1>2. /\ e \in Datas /\ e[p] = [id |-> id, key |-> k]
      /\ \A i \in 1 .. n : e[i] = d[i]
  BY <1>1 DEF Added, Datas, Node
<1>3. h.data = e /\ h.mapping = u /\ h.pos = p
  BY DEF Heap
<1> HIDE DEF e, p, h, g
<1>4. Agree(e, p, u)
  <2>1. ASSUME NEW i \in 1 .. n PROVE e[i].id \in Keys /\ Val(u, e[i].id) = i
    <3>1. d[i].id \in Keys /\ Val(m, d[i].id) = i /\ i # Null
      BY <1>1 DEF Agree
    <3> QED BY <1>2, <3>1
  <2>2. e[p].id \in Keys /\ Val(u, e[p].id) = p
    BY <1>2 DEF p
  <2>3. ASSUME NEW a \in Keys, Val(u, a) # Null PROVE Val(u, a) \in 1 .. p /\ e[Val(u, a)].id = a
    <3>1. CASE a = id
      <4>1. Val(u, a) = p
        BY <3>1 DEF p
      <4> QED BY <1>1, <1>2, <3>1, <4>1
    <3>2. CASE a # id
      <4>1. Val(u, a) = Val(m, a)
        BY <3>2
      <4>2. Val(m, a) \in 1 .. n /\ d[Val(m, a)].id = a
        BY <1>1, <2>3, <4>1 DEF Agree
      <4> QED BY <1>1, <1>2, <4>1, <4>2
    <3> QED BY <3>1, <3>2
  <2> QED BY <1>1, <2>1, <2>2, <2>3 DEF Agree
<1>5. Same(h, p, e)
  BY <1>1, <1>2, <1>3, <1>4 DEF Same
<1>6. TooHigh(e, p, p)
  <2>1. ASSUME NEW i \in 2 .. p
        PROVE  i \div 2 \in 1 .. n /\ i \div 2 # p /\ (i # p => i \in 2 .. n /\ i \in 1 .. n)
    <3>1. i \in Nat /\ i >= 2 /\ i <= n + 1
      BY <1>1, <2>1 DEF p
    <3>2. i \div 2 \in 1 .. n /\ i \div 2 # p
      BY <1>1, <3>1, Half DEF p
    <3> QED BY <1>1, <3>1, <3>2 DEF p
  <2> QED BY <1>1, <1>2, <2>1 DEF TooHigh, Around, Ordered
<1>7. Same(g, p, e) /\ Ordered(g.data, p)
  BY <1>1, <1>3, <1>5, <1>6, UpEffect DEF g
<1>8. \A a \in Keys, v \in Int : Has(e, p, a, v) <=> Has(d, n, a, v) \/ (a = id /\ v = k)
  BY <1>1, <1>2 DEF Has
<1>9. Good(g.data, p, g.mapping)
  BY <1>1, <1>7 DEF Good, Same
<1>10. \A a \in Keys, v \in Int : Has(g.data, p, a, v) <=> Has(d, n, a, v) \/ (a = id /\ v = k)
  BY <1>7, <1>8 DEF Same
<1> QED BY <1>9, <1>10 DEF g, h, e, p

\* setKey: the node may be too large for its children if its key grows, too
\* small for its parent if not.
Rekeyed(d, i, k) == [d EXCEPT ![i].key = k]

LEMMA SetKeyEffect ==
  ASSUME NEW d, NEW n, NEW m, Good(d, n, m), NEW i \in 1 .. n, NEW k \in Int
  PROVE  LET h == Heap(Rekeyed(d, i, k), m, i)
             g == IF d[i].key < k THEN PercolateDown(h, n) ELSE PercolateUp(h)
         IN  /\ Good(g.data, n, g.mapping)
             /\ \A a \in Keys, v \in Int : Has(g.data, n, a, v) <=>
                   IF a = d[i].id THEN v = k ELSE Has(d, n, a, v)
<1> DEFINE e == Rekeyed(d, i, k)
           h == Heap(e, m, i)
           g == IF d[i].key < k THEN PercolateDown(h, n) ELSE PercolateUp(h)
<1>1. /\ n \in Nat /\ n \in 0 .. Capacity /\ i \in Places /\ i \in Nat /\ d \in Datas
      /\ Sound(m) /\ Agree(d, n, m) /\ Ordered(d, n) /\ 1 .. n \subseteq Places
  BY Sizes DEF Good
<1>2. /\ e \in Datas /\ e[i].id = d[i].id /\ e[i].key = k
      /\ \A j \in 1 .. n : j # i => e[j] = d[j]
      /\ \A j \in 1 .. n : d[j].key \in Int
  BY <1>1 DEF Rekeyed, Datas, Node
<1>3. h.data = e /\ h.mapping = m /\ h.pos = i
  BY DEF Heap
<1> HIDE DEF e, h, g
<1>4. \A j \in 1 .. n : e[j].id = d[j].id
  BY <1>2
<1>5. Agree(e, n, m)
  BY <1>1, <1>4 DEF Agree
<1>6. Same(h, n, e)
  BY <1>1, <1>2, <1>3, <1>5 DEF Same
<1>7. \A j \in 2 .. n : j \in 1 .. n /\ j \div 2 \in 1 .. n /\ j \div 2 # j
  <2> SUFFICES ASSUME NEW j \in 2 .. n PROVE j \in 1 .. n /\ j \div 2 \in 1 .. n /\ j \div 2 # j
    OBVIOUS
  <2>1. j \in Nat /\ j >= 2 /\ j <= n
    BY <1>1
  <2> QED BY <1>1, <2>1, Half
<1>8. Around(e, n, i)
  <2> SUFFICES ASSUME NEW j \in 2 .. n, j \div 2 = i, i > 1
               PROVE  e[i \div 2].key <= e[j].key
    BY DEF Around
  <2>1. i \in 2 .. n
    BY <1>1
  <2>2. i \div 2 \in 1 .. n /\ i \div 2 # i /\ j \in 1 .. n /\ j # i
    BY <1>7, <2>1
  <2> DEFINE q == i \div 2
  <2>3. d[q].key <= d[i].key /\ d[i].key <= d[j].key
    BY <1>1, <2>1 DEF Ordered
  <2>4. e[q] = d[q] /\ e[j] = d[j]
    BY <1>2, <2>2
  <2>5. d[q].key \in Int /\ d[i].key \in Int /\ d[j].key \in Int
    BY <1>2, <2>2
  <2> HIDE DEF q
  <2>6. e[q].key <= e[j].key
    BY <2>3, <2>4, <2>5
  <2> QED BY <2>6 DEF q
<1>9. Same(g, n, e) /\ Ordered(g.data, n)
  <2>1. CASE d[i].key < k
    <3>1. ASSUME NEW j \in 2 .. n, j \div 2 # i PROVE e[j \div 2].key <= e[j].key
      <4> DEFINE q == j \div 2
      <4>1. d[q].key <= d[j].key /\ e[q] = d[q]
        BY <1>1, <1>2, <1>7, <3>1 DEF Ordered
      <4>2. d[q].key \in Int /\ d[j].key \in Int
        BY <1>2, <1>7
      <4> HIDE DEF q
      <4>3. CASE j = i
        BY <1>2, <2>1, <4>1, <4>2, <4>3 DEF q
      <4>4. CASE j # i
        BY <1>2, <1>7, <4>1, <4>4 DEF q
      <4> QED BY <4>3, <4>4
    <3>2. TooLow(e, n, i)
      BY <1>8, <3>1 DEF TooLow
    <3> QED BY <1>1, <1>3, <1>6, <2>1, <3>2, DownEffect DEF g
  <2>2. CASE ~(d[i].key < k)
    <3>1. ASSUME NEW j \in 2 .. n, j # i PROVE e[j \div 2].key <= e[j].key
      <4> DEFINE q == j \div 2
      <4>1. d[q].key <= d[j].key /\ e[j] = d[j]
        BY <1>1, <1>2, <1>7, <3>1 DEF Ordered
      <4>2. d[q].key \in Int /\ d[j].key \in Int /\ q \in 1 .. n
        BY <1>2, <1>7
      <4> HIDE DEF q
      <4>3. CASE q = i
        <5>1. k <= d[i].key
          BY <1>2, <2>2
        <5> QED BY <1>2, <4>1, <4>2, <4>3, <5>1 DEF q
      <4>4. CASE q # i
        BY <1>2, <1>7, <4>1, <4>2, <4>4 DEF q
      <4> QED BY <4>3, <4>4
    <3>2. TooHigh(e, n, i)
      BY <1>8, <3>1 DEF TooHigh
    <3> QED BY <1>1, <1>3, <1>6, <2>2, <3>2, UpEffect DEF g
  <2> QED BY <2>1, <2>2
<1>10. ASSUME NEW a \in Keys, NEW v \in Int
       PROVE  Has(e, n, a, v) <=> IF a = d[i].id THEN v = k ELSE Has(d, n, a, v)
  <2>1. \A j \in 1 .. n : d[j].id = d[i].id => j = i
    BY <1>1 DEF Agree
  <2> QED BY <1>2, <1>4, <2>1 DEF Has
<1>11. Good(g.data, n, g.mapping)
  BY <1>1, <1>9 DEF Good, Same
<1>12. \A a \in Keys, v \in Int : Has(g.data, n, a, v) <=>
          IF a = d[i].id THEN v = k ELSE Has(d, n, a, v)
  BY <1>9, <1>10 DEF Same
<1> QED BY <1>11, <1>12 DEF g, h, e

\* The last node takes the place of node i, which leaves.
Filled(d, n, i)   == [d EXCEPT ![i] = d[n]]
Forgot(d, n, m, i) == Point(TableRemove(m, d[i].id).table, Filled(d, n, i), i)
Without(d, n, i, e) == \A a \in Keys, v \in Int :
                          Has(e, n - 1, a, v) <=> a # d[i].id /\ Has(d, n, a, v)

LEMMA FillEffect ==
  ASSUME NEW d, NEW n, NEW m, Good(d, n, m), NEW i \in 1 .. n
  PROVE  LET e == Filled(d, n, i)
             u == Forgot(d, n, m, i)
         IN  /\ e \in Datas /\ Sound(u) /\ Agree(e, n - 1, u) /\ Without(d, n, i, e)
             /\ Around(e, n - 1, i)
             /\ d[i].key < d[n].key => TooLow(e, n - 1, i)
             /\ d[n].key <= d[i].key => TooHigh(e, n - 1, i)
             /\ i = n => Ordered(e, n - 1)
<1> DEFINE e == Filled(d, n, i)
           id == d[i].id
           w == TableRemove(m, id).table
           u == Forgot(d, n, m, i)
           l == n - 1
<1>1. /\ n \in Nat /\ n >= 1 /\ n \in 0 .. Capacity /\ l \in 0 .. Capacity /\ d \in Datas
      /\ i \in 1 .. Capacity /\ i \in Places /\ n \in Places /\ n \in 1 .. n /\ Sound(m)
      /\ 1 .. n \subseteq Places /\ 1 .. n = 1 .. l \cup {n} /\ n \notin 1 .. l
      /\ \A j \in 1 .. n : j # Null
  BY Sizes DEF Good
<1>2. /\ \A j \in 1 .. n : d[j].id \in Keys /\ Val(m, d[j].id) = j
      /\ \A a \in Keys : Val(m, a) # Null => Val(m, a) \in 1 .. n /\ d[Val(m, a)].id = a
      /\ \A j \in 2 .. n : d[j \div 2].key <= d[j].key
  BY DEF Good, Agree, Ordered
<1>3. /\ e \in Datas /\ e[i] = d[n]
      /\ \A j \in 1 .. n : j # i => e[j] = d[j]
  BY <1>1 DEF Filled, Datas
<1>4. Sound(w) /\ \A a \in Keys : Val(w, a) = IF a = id THEN Null ELSE Val(m, a)
  BY <1>1, <1>2, RemoveCall
<1>5. u = Point(w, e, i)
  BY DEF Forgot
<1> HIDE DEF e, w, u, id
<1>6. /\ Sound(u)
      /\ \A a \in Keys : Val(u, a) = IF a = e[i].id /\ Val(w, e[i].id) # Null THEN i ELSE Val(w, a)
  BY <1>1, <1>2, <1>3, <1>4, <1>5, PointEffect
<1>7. \A a \in Keys : Val(u, a) = IF a = id THEN Null
                                  ELSE IF a = d[n].id THEN i ELSE Val(m, a)
  <2> SUFFICES ASSUME NEW a \in Keys
               PROVE  Val(u, a) = IF a = id THEN Null ELSE IF a = d[n].id THEN i ELSE Val(m, a)
    OBVIOUS
  <2>1. Val(m, d[n].id) = n /\ n # Null /\ d[n].id \in Keys
    BY <1>1, <1>2
  <2>2. CASE i = n
    BY <1>3, <1>4, <1>6, <2>2 DEF id
  <2>3. CASE i # n
    <3>1. d[n].id # id
      BY <1>1, <1>2, <2>3 DEF id
    <3> QED BY <1>3, <1>4, <1>6, <2>1, <3>1
  <2> QED BY <2>2, <2>3
<1>8. Agree(e, l, u)
  <2>1. ASSUME NEW j \in 1 .. l PROVE e[j].id \in Keys /\ Val(u, e[j].id) = j
    <3>1. CASE j = i
      <4>1. d[n].id # id
        BY <1>1, <1>2, <2>1, <3>1 DEF id
      <4> QED BY <1>1, <1>2, <1>3, <1>7, <3>1, <4>1
    <3>2. CASE j # i
      <4>1. e[j] = d[j] /\ d[j].id \in Keys /\ d[j].id # id /\ d[j].id # d[n].id
        BY <1>1, <1>2, <1>3, <2>1, <3>2 DEF id
      <4> QED BY <1>1, <1>2, <1>7, <4>1
    <3> QED BY <3>1, <3>2
  <2>2. ASSUME NEW a \in Keys, Val(u, a) # Null PROVE Val(u, a) \in 1 .. l /\ e[Val(u, a)].id = a
    <3>1. a # id
      BY <1>7, <2>2
    <3>2. CASE a = d[n].id
      <4>1. i \in 1 .. l /\ Val(u, a) = i
        BY <1>1, <1>7, <3>1, <3>2 DEF id
      <4> QED BY <1>3, <3>2, <4>1
    <3>3. CASE a # d[n].id
      <4> DEFINE j == Val(m, a)
      <4>1. Val(u, a) = j
        BY <1>7, <3>1, <3>3
      <4>2. j \in 1 .. n /\ d[j].id = a
        BY <1>2, <2>2, <4>1
      <4> HIDE DEF j
      <4>3. j \in 1 .. l /\ j # i
        BY <1>1, <3>1, <3>3, <4>2 DEF id
      <4> QED BY <1>3, <4>1, <4>2, <4>3
    <3> QED BY <3>2, <3>3
  <2> QED BY <2>1, <2>2 DEF Agree
<1>9. Without(d, n, i, e)
  <2> SUFFICES ASSUME NEW a \in Keys, NEW v \in Int
               PROVE  Has(e, l, a, v) <=> a # id /\ Has(d, n, a, v)
    BY DEF Without, id
  <2>1. ASSUME NEW j \in 1 .. l PROVE e[j].id # id /\ \E x \in 1 .. n : d[x] = e[j]
    <3>1. CASE j = i
      BY <1>1, <1>2, <1>3, <3>1 DEF id
    <3>2. CASE j # i
      BY <1>1, <1>2, <1>3, <3>2 DEF id
    <3> QED BY <3>1, <3>2
  <2>2. ASSUME NEW j \in 1 .. n, d[j].id # id PROVE \E x \in 1 .. l : e[x] = d[j]
    <3>1. j # i
      BY <2>2 DEF id
    <3>2. CASE j = n
      <4>1. i \in 1 .. l
        BY <1>1, <3>1, <3>2
      <4> QED BY <1>3, <3>2, <4>1
    <3>3. CASE j # n
      BY <1>1, <1>3, <3>1, <3>3
    <3> QED BY <3>2, <3>3
  <2> QED BY <2>1, <2>2 DEF Has
\* the order
<1>10. \A j \in 2 .. l : j \in 1 .. n /\ j \in 2 .. n /\ j \div 2 \in 1 .. n /\ j \div 2 # j
  <2> SUFFICES ASSUME NEW j \in 2 .. l
               PROVE  j \in 1 .. n /\ j \in 2 .. n /\ j \div 2 \in 1 .. n /\ j \div 2 # j
    OBVIOUS
  <2>1. j \in Nat /\ j >= 2 /\ j <= n
    BY <1>1
  <2> QED BY <1>1, <2>1, Half
<1>11. \A j \in 1 .. n : d[j].key \in Int
  BY <1>1, NodeAt
<1>12. Around(e, l, i)
  <2> SUFFICES ASSUME NEW j \in 2 .. l, j \div 2 = i, i > 1
               PROVE  e[i \div 2].key <= e[j].key
    BY DEF Around
  <2> DEFINE q == i \div 2
  <2>1. i \in 2 .. l
    <3>1. j \in Nat /\ j >= 2
      BY <1>1
    <3>2. i < j
      BY <3>1, Half
    <3> QED BY <1>1, <3>2
  <2>2. q \in 1 .. n /\ q # i /\ j # i
    BY <1>10, <2>1
  <2>3. d[q].key <= d[i].key /\ d[i].key <= d[j].key
    BY <1>2, <1>10, <2>1
  <2>4. e[q] = d[q] /\ e[j] = d[j]
    BY <1>3, <1>10, <2>2
  <2>5. d[q].key \in Int /\ d[i].key \in Int /\ d[j].key \in Int
    BY <1>10, <1>11, <2>2
  <2> HIDE DEF q
  <2>6. e[q].key <= e[j].key
    BY <2>3, <2>4, <2>5
  <2> QED BY <2>6 DEF q
<1>13. ASSUME d[i].key < d[n].key PROVE TooLow(e, l, i)
  <2>1. ASSUME NEW j \in 2 .. l, j \div 2 # i PROVE e[j \div 2].key <= e[j].key
    <3> DEFINE q == j \div 2
    <3>1. d[q].key <= d[j].key /\ e[q] = d[q]
      BY <1>2, <1>3, <1>10, <2>1
    <3>2. d[q].key \in Int /\ d[j].key \in Int /\ d[n].key \in Int
      BY <1>1, <1>10, <1>11
    <3> HIDE DEF q
    <3>3. CASE j = i
      BY <1>3, <1>13, <3>1, <3>2, <3>3 DEF q
    <3>4. CASE j # i
      BY <1>3, <1>10, <3>1, <3>4 DEF q
    <3> QED BY <3>3, <3>4
  <2> QED BY <1>12, <2>1 DEF TooLow
<1>14. ASSUME d[n].key <= d[i].key PROVE TooHigh(e, l, i)
  <2>1. ASSUME NEW j \in 2 .. l, j # i PROVE e[j \div 2].key <= e[j].key
    <3> DEFINE q == j \div 2
    <3>1. d[q].key <= d[j].key /\ e[j] = d[j]
      BY <1>2, <1>3, <1>10, <2>1
    <3>2. d[q].key \in Int /\ d[j].key \in Int /\ d[n].key \in Int /\ q \in 1 .. n /\ d[i].key \in Int
      BY <1>1, <1>10, <1>11
    <3> HIDE DEF q
    <3>3. CASE q = i
      BY <1>3, <1>14, <3>1, <3>2, <3>3 DEF q
    <3>4. CASE q # i
      BY <1>3, <3>1, <3>2, <3>4 DEF q
    <3> QED BY <3>3, <3>4
  <2> QED BY <1>12, <2>1 DEF TooHigh
<1>15. ASSUME i = n PROVE Ordered(e, l)
  <2>1. \A j \in 1 .. n : e[j] = d[j]
    BY <1>3, <1>15
  <2> QED BY <1>2, <1>10, <2>1 DEF Ordered
<1> QED BY <1>3, <1>6, <1>8, <1>9, <1>12, <1>13, <1>14, <1>15 DEF e, u

\* remove: what has taken the place goes down or up, the last node nowhere.
LEMMA RemoveEffect ==
  ASSUME NEW d, NEW n, NEW m, Good(d, n, m), NEW i \in 1 .. n
  PROVE  LET h == Heap(Filled(d, n, i), Forgot(d, n, m, i), i)
             g == IF d[i].key < h.data[i].key THEN PercolateDown(h, n - 1) ELSE PercolateUp(h)
         IN  Good(g.data, n - 1, g.mapping) /\ Without(d, n, i, g.data)
<1> DEFINE e == Filled(d, n, i)
           u == Forgot(d, n, m, i)
           h == Heap(e, u, i)
           l == n - 1
           g == IF d[i].key < h.data[i].key THEN PercolateDown(h, l) ELSE PercolateUp(h)
<1>1. /\ n \in Nat /\ n >= 1 /\ l \in 0 .. Capacity /\ d \in Datas /\ n \in Places /\ i \in Places
      /\ i \in 1 .. Capacity /\ d[i].key \in Int /\ d[n].key \in Int
      /\ i # n => i \in 1 .. l
  <2>1. /\ n \in Nat /\ n >= 1 /\ l \in 0 .. Capacity /\ d \in Datas /\ n \in Places /\ i \in Places
        /\ i \in 1 .. Capacity /\ (i # n => i \in 1 .. l)
    BY Sizes DEF Good
  <2> QED BY <2>1, NodeAt
<1>2. /\ e \in Datas /\ Sound(u) /\ Agree(e, l, u) /\ Without(d, n, i, e)
      /\ d[i].key < d[n].key => TooLow(e, l, i)
      /\ d[n].key <= d[i].key => TooHigh(e, l, i)
      /\ i = n => Ordered(e, l)
  BY FillEffect
<1>3. h.data = e /\ h.mapping = u /\ h.pos = i
  BY DEF Heap
<1>4. e[i] = d[n] /\ (i = n => e = d)
  BY <1>1 DEF Filled, Datas
<1> HIDE DEF e, u, h, g
<1>5. CASE i = n
  <2>1. ~(d[i].key < h.data[i].key)
    BY <1>1, <1>3, <1>4, <1>5
  <2>2. ASSUME i > 1 PROVE e[i \div 2].key <= e[i].key
    BY <1>1, <1>4, <1>5, <2>2 DEF Good, Ordered
  <2>3. UpStep(h) = h
    BY <1>1, <1>2, <1>3, <2>2, UpStepStops
  <2>4. g = h
    BY <2>1, <2>3, UpNothing DEF g
  <2>5. Good(e, l, u)
    BY <1>1, <1>2, <1>5 DEF Good
  <2>6. g.data = e /\ g.mapping = u
    BY <1>3, <2>4
  <2> QED BY <1>2, <2>5, <2>6 DEF g, h, e, u
<1>6. CASE i # n
  <2>1. Same(h, l, e)
    BY <1>1, <1>2, <1>3, <1>6 DEF Same
  <2>2. Same(g, l, e) /\ Ordered(g.data, l)
    <3>1. CASE d[i].key < h.data[i].key
      BY <1>1, <1>2, <1>3, <1>4, <2>1, <3>1, DownEffect DEF g
    <3>2. CASE ~(d[i].key < h.data[i].key)
      <4>1. d[n].key <= d[i].key
        BY <1>1, <1>3, <1>4, <3>2
      <4> QED BY <1>1, <1>2, <1>3, <2>1, <3>2, <4>1, UpEffect DEF g
    <3> QED BY <3>1, <3>2
  <2>3. Good(g.data, l, g.mapping)
    BY <1>1, <2>2 DEF Good, Same
  <2>4. Without(d, n, i, g.data)
    BY <1>2, <2>2 DEF Without, Same
  <2> QED BY <2>3, <2>4 DEF g, h, e, u
<1> QED BY <1>5, <1>6

\* deleteMin: what has taken the place of the root goes down.
LEMMA DeleteMinEffect ==
  ASSUME NEW d, NEW n, NEW m, Good(d, n, m), n > 0
  PROVE  LET g == PercolateDown(Heap(Filled(d, n, 1), Forgot(d, n, m, 1), 1), n - 1)
         IN  Good(g.data, n - 1, g.mapping) /\ Without(d, n, 1, g.data)
<1> DEFINE e == Filled(d, n, 1)
           u == Forgot(d, n, m, 1)
           h == Heap(e, u, 1)
           l == n - 1
           g == PercolateDown(h, l)
<1>1. /\ n \in Nat /\ l \in 0 .. Capacity /\ 1 \in 1 .. n
      /\ n # 1 => 1 \in 1 .. l
  BY Sizes DEF Good
<1>2. /\ e \in Datas /\ Sound(u) /\ Agree(e, l, u) /\ Without(d, n, 1, e)
      /\ Around(e, l, 1) /\ (1 = n => Ordered(e, l))
      /\ d[1].key < d[n].key => TooLow(e, l, 1)
      /\ d[n].key <= d[1].key => TooHigh(e, l, 1)
  BY <1>1, FillEffect
<1>3. h.data = e /\ h.mapping = u /\ h.pos = 1
  BY DEF Heap
<1> HIDE DEF e, u, h, g
<1>4. CASE n = 1
  <2>1. DownStep(h, l) = h
    BY <1>1, <1>3, <1>4 DEF DownStep
  <2>2. g = h
    BY <2>1, DownNothing DEF g
  <2>3. Good(e, l, u)
    BY <1>1, <1>2, <1>4 DEF Good
  <2>4. g.data = e /\ g.mapping = u
    BY <1>3, <2>2
  <2> QED BY <1>2, <2>3, <2>4 DEF g, h, e, u
<1>5. CASE n # 1
  <2>1. Same(h, l, e)
    BY <1>1, <1>2, <1>3, <1>5 DEF Same
  <2>2. TooLow(e, l, 1)
    <3>1. \A j \in 2 .. l : j # 1
      BY <1>1
    <3>2. d[1].key < d[n].key \/ d[n].key <= d[1].key
      <4>1. 1 \in Places /\ n \in Places /\ d \in Datas
        BY <1>1, Sizes DEF Good
      <4>2. d[1].key \in Int /\ d[n].key \in Int
        BY <4>1, NodeAt
      <4> QED BY <4>2
    <3>3. TooHigh(e, l, 1) => TooLow(e, l, 1)
      BY <1>2, <3>1 DEF TooHigh, TooLow
    <3> QED BY <1>2, <3>2, <3>3
  <2>3. Same(g, l, e) /\ Ordered(g.data, l)
    BY <1>1, <1>3, <2>1, <2>2, DownEffect DEF g
  <2>4. Good(g.data, l, g.mapping)
    BY <1>1, <2>3 DEF Good, Same
  <2>5. Without(d, n, 1, g.data)
    BY <1>2, <2>3 DEF Without, Same
  <2> QED BY <2>4, <2>5 DEF g, h, e, u
<1> QED BY <1>4, <1>5

(***************************************************************************)
(* The invariant of the program.                                           *)
(***************************************************************************)
HeapInv == ~grown => Good(data, size, mapping)

LEMMA InitHeapInv ==
  ASSUME Init PROVE HeapInv
<1>1. data \in Datas
  <2>1. NewNode \in Node
    BY DEF NewNode, Node
  <2> QED BY <2>1 DEF Init, Datas
<1>2. Sound(mapping) /\ \A k \in Keys : Val(mapping, k) = Null
  <2>1. 2 * Capacity \in Nat /\ GetPrime(2 * Capacity) > 1
    BY CapacityAssumption
  <2> QED BY <2>1, NewSound DEF Init
<1>3. size = 0 /\ size \in 0 .. Capacity
  BY Sizes DEF Init
<1>4. Agree(data, size, mapping) /\ Ordered(data, size)
  BY <1>2, <1>3 DEF Agree, Ordered
<1> QED BY <1>1, <1>2, <1>3, <1>4 DEF HeapInv, Good

LEMMA InsertStep ==
  ASSUME HeapInv, ~grown', NEW id \in Keys, NEW k \in KeyValues, NEW memory \in BOOLEAN,
         CallInsert(id, k, memory)
  PROVE  /\ Good(data, size, mapping) /\ Good(data', size', mapping')
         /\ size < Capacity /\ Val(mapping, id) = Null /\ answer' = <<"insert", 0>>
         /\ \A h \in Keys, v \in Int : Has(data', size', h, v) <=>
               Has(data, size, h, v) \/ (h = id /\ v = k)
<1> DEFINE u == Insert("heap", mapping, id, size + 1, memory).table
           g == PercolateUp(Heap(Added(data, size, id, k), u, size + 1))
<1>1. /\ size < Capacity /\ ~TableContains(mapping, id) /\ ~grown /\ ~Crowded(mapping)
      /\ size' = size + 1 /\ answer' = <<"insert", 0>>
      /\ data' = g.data /\ mapping' = g.mapping
  BY DEF CallInsert, Becomes, Return, Added
<1>2. Good(data, size, mapping) /\ k \in Int
  BY <1>1, CapacityAssumption DEF HeapInv
<1>3. Val(mapping, id) = Null
  BY <1>1, <1>2, KnownAt
<1>4. size + 1 \in Pointers
  <2>1. size + 1 \in 1 .. Capacity
    BY <1>1, <1>2, Sizes DEF Good
  <2> QED BY <2>1, Sizes
<1>5. Sound(u) /\ \A h \in Keys : Val(u, h) = IF h = id THEN size + 1 ELSE Val(mapping, h)
  <2>1. Insert("heap", mapping, id, size + 1, memory) = Place(mapping, id, size + 1)
    BY <1>1 DEF Insert
  <2>2. GoodTable(mapping) /\ Findable(mapping)
    BY <1>2 DEF Good, Sound
  <2> DEFINE r == Insert("heap", mapping, id, size + 1, memory)
  <2>3. /\ GoodTable(r.table)
        /\ Findable(mapping) /\ (Crowded(mapping) => "heap" = "spell") =>
              /\ Findable(r.table)
              /\ \/ /\ r.ret = 1 /\ Val(mapping, id) # Null
                    /\ \A h \in Keys : Val(r.table, h) = Val(mapping, h)
                 \/ /\ r.ret = 0 /\ Val(mapping, id) = Null
                    /\ \A h \in Keys : Val(r.table, h) =
                          IF h = id THEN size + 1 ELSE Val(mapping, h)
    BY <1>1, <1>4, <2>2, InsertCall
  <2> QED BY <1>1, <1>3, <2>2, <2>3 DEF Sound
<1> HIDE DEF u
<1>6. /\ Good(g.data, size + 1, g.mapping)
      /\ \A h \in Keys, v \in Int : Has(g.data, size + 1, h, v) <=>
            Has(data, size, h, v) \/ (h = id /\ v = k)
  BY <1>1, <1>2, <1>3, <1>5, InsertEffect
<1> HIDE DEF g
<1> QED BY <1>1, <1>2, <1>3, <1>6

LEMMA SetKeyStep ==
  ASSUME HeapInv, ~grown', NEW id \in Keys, NEW k \in KeyValues, CallSetKey(id, k)
  PROVE  /\ Good(data, size, mapping) /\ Good(data', size', mapping')
         /\ \E v \in Int : Has(data, size, id, v)
         /\ answer' = <<"setKey", 0>>
         /\ \A h \in Keys, v \in Int : Has(data', size', h, v) <=>
               IF h = id THEN v = k ELSE Has(data, size, h, v)
<1> DEFINE i == Val(mapping, id)
           h0 == Heap(Rekeyed(data, i, k), mapping, i)
           g == IF data[i].key < k THEN PercolateDown(h0, size) ELSE PercolateUp(h0)
<1>1. /\ TableContains(mapping, id) /\ ~grown /\ size' = size /\ answer' = <<"setKey", 0>>
      /\ data' = g.data /\ mapping' = g.mapping
  BY DEF CallSetKey, Becomes, Return, Rekeyed, Val
<1>2. Good(data, size, mapping) /\ k \in Int
  BY <1>1, CapacityAssumption DEF HeapInv
<1>3. i \in 1 .. size /\ data[i].id = id
  BY <1>1, <1>2, KnownAt
<1> HIDE DEF i
<1>4. /\ Good(g.data, size, g.mapping)
      /\ \A h \in Keys, v \in Int : Has(g.data, size, h, v) <=>
            IF h = data[i].id THEN v = k ELSE Has(data, size, h, v)
  BY <1>2, <1>3, SetKeyEffect
<1>5. data[i].key \in Int /\ Has(data, size, id, data[i].key)
  <2>1. data \in Datas /\ i \in Places
    BY <1>2, <1>3, Sizes DEF Good
  <2> QED BY <1>3, <2>1, NodeAt DEF Has
<1> HIDE DEF g
<1> QED BY <1>1, <1>2, <1>3, <1>4, <1>5

LEMMA RemoveStep ==
  ASSUME HeapInv, ~grown', NEW id \in Keys, CallRemove(id)
  PROVE  /\ Good(data, size, mapping) /\ Good(data', size', mapping')
         /\ \E i \in 1 .. size : /\ data[i].id = id /\ Without(data, size, i, data')
                                 /\ answer' = <<"remove", 0, id, data[i].key>>
         /\ size' = size - 1
<1> DEFINE i == Val(mapping, id)
           h0 == Heap(Filled(data, size, i), Forgot(data, size, mapping, i), i)
           g == IF data[i].key < h0.data[i].key THEN PercolateDown(h0, size - 1) ELSE PercolateUp(h0)
<1>1. TableContains(mapping, id) /\ ~grown /\ size' = size - 1
  BY DEF CallRemove
<1>2. Good(data, size, mapping)
  BY <1>1 DEF HeapInv
<1>3. i \in 1 .. size /\ data[i].id = id
  BY <1>1, <1>2, KnownAt
<1>4. Fill(i, id) = h0
  BY <1>3 DEF Fill, Filled, Forgot
<1>5. data' = g.data /\ mapping' = g.mapping /\ answer' = <<"remove", 0, id, data[i].key>>
  BY <1>4 DEF CallRemove, Becomes, Return, Val
<1> HIDE DEF i
<1>6. Good(g.data, size - 1, g.mapping) /\ Without(data, size, i, g.data)
  BY <1>2, <1>3, RemoveEffect
<1> HIDE DEF g
<1> QED BY <1>1, <1>2, <1>3, <1>5, <1>6

LEMMA DeleteMinStep ==
  ASSUME HeapInv, ~grown', CallDeleteMin
  PROVE  /\ Good(data, size, mapping) /\ Good(data', size', mapping') /\ 1 \in 1 .. size
         /\ Without(data, size, 1, data') /\ size' = size - 1
         /\ answer' = <<"deleteMin", 0, data[1].id, data[1].key>>
<1> DEFINE h0 == Heap(Filled(data, size, 1), Forgot(data, size, mapping, 1), 1)
           g == PercolateDown(h0, size - 1)
<1>1. /\ size > 0 /\ ~grown /\ size' = size - 1
      /\ answer' = <<"deleteMin", 0, data[1].id, data[1].key>>
  BY DEF CallDeleteMin, Return
<1>2. Good(data, size, mapping)
  BY <1>1 DEF HeapInv
<1>3. Fill(1, data[1].id) = h0
  BY DEF Fill, Filled, Forgot
<1>4. data' = g.data /\ mapping' = g.mapping
  BY <1>3 DEF CallDeleteMin, Becomes
<1>5. Good(g.data, size - 1, g.mapping) /\ Without(data, size, 1, g.data)
  BY <1>1, <1>2, DeleteMinEffect
<1>6. 1 \in 1 .. size
  BY <1>1, <1>2 DEF Good
<1> HIDE DEF g
<1> QED BY <1>1, <1>2, <1>4, <1>5, <1>6

LEMMA NextHeapInv ==
  ASSUME HeapInv, [Next]_vars PROVE HeapInv'
<1> SUFFICES ASSUME ~grown' PROVE Good(data', size', mapping')
  BY DEF HeapInv
<1>1. CASE CallDeleteMin
  BY <1>1, DeleteMinStep
<1>2. ASSUME NEW id \in Keys, CallRemove(id) PROVE Good(data', size', mapping')
  BY <1>2, RemoveStep
<1>3. ASSUME NEW id \in Keys, NEW k \in KeyValues, CallSetKey(id, k)
      PROVE  Good(data', size', mapping')
  BY <1>3, SetKeyStep
<1>4. ASSUME NEW id \in Keys, NEW k \in KeyValues, NEW memory \in BOOLEAN,
             CallInsert(id, k, memory)
      PROVE  Good(data', size', mapping')
  BY <1>4, InsertStep
<1>5. CASE UNCHANGED <<data, size, mapping, grown>>
  BY <1>5 DEF HeapInv
<1>6. ASSUME NEW id \in Keys, InsertRefused(id) \/ SetKeyUnknown(id) \/ RemoveUnknown(id)
      PROVE  UNCHANGED <<data, size, mapping, grown>>
  BY <1>6 DEF InsertRefused, SetKeyUnknown, RemoveUnknown
<1>7. DeleteMinEmpty \/ UNCHANGED vars => UNCHANGED <<data, size, mapping, grown>>
  BY DEF DeleteMinEmpty, vars
<1> QED BY <1>1, <1>2, <1>3, <1>4, <1>5, <1>6, <1>7 DEF Next, Call

\* The heap is good between any two calls, up to the first rehash of mapping.
THEOREM HeapInvariance == Spec => []HeapInv
<1>1. Init => HeapInv
  BY InitHeapInv
<1>2. HeapInv /\ [Next]_vars => HeapInv'
  BY NextHeapInv
<1> QED BY <1>1, <1>2, PTL DEF Spec

\* No node has a smaller key than its parent, whatever setKey and remove have
\* moved (heap.cpp:34-97, 143-186).
THEOREM HeapIsOrdered == Spec => []HeapOrdered
<1>1. HeapInv => HeapOrdered
  BY DEF HeapInv, HeapOrdered, Good, Ordered
<1> QED BY <1>1, HeapInvariance, PTL

\* mapping knows the ids in the heap and no others, each at the place of its
\* node, after any number of swaps (heap.cpp:51-52, 91-92, 153-155, 173-176).
THEOREM MappingIsExact == Spec => []MappingExact
<1>1. ASSUME HeapInv PROVE MappingExact
  <2> SUFFICES ASSUME ~grown
               PROVE  /\ \A i \in 1 .. size :
                            GetPointer(mapping, data[i].id) = [pv |-> i, found |-> TRUE]
                      /\ \A id \in Keys : TableContains(mapping, id) =>
                            GetPointer(mapping, id).pv \in 1 .. size
    BY DEF MappingExact
  <2>1. Good(data, size, mapping)
    BY <1>1 DEF HeapInv
  <2>2. ASSUME NEW i \in 1 .. size
        PROVE  GetPointer(mapping, data[i].id) = [pv |-> i, found |-> TRUE]
    <3>1. data[i].id \in Keys /\ Val(mapping, data[i].id) = i /\ i # Null /\ Sound(mapping)
      BY <2>1, Sizes DEF Good, Agree
    <3>2. /\ FindPos(mapping, data[i].id) # -1
          /\ mapping.item[FindPos(mapping, data[i].id)].pv = i
      BY <3>1, ValMeans
    <3> QED BY <3>2 DEF GetPointer
  <2>3. ASSUME NEW id \in Keys, TableContains(mapping, id)
        PROVE  GetPointer(mapping, id).pv \in 1 .. size
    BY <2>1, <2>3, KnownAt DEF Val
  <2> QED BY <2>2, <2>3
<1> QED BY <1>1, HeapInvariance, PTL

(***************************************************************************)
(* The priority queue that the heap stands for.                            *)
(***************************************************************************)
TheQueue == [id \in Keys |-> KeyOf(id)]

\* The root has the least key.
LEMMA RootIsLeast ==
  ASSUME NEW d, NEW n, NEW m, Good(d, n, m)
  PROVE  \A i \in 1 .. n : d[1].key <= d[i].key
<1> DEFINE T == {i \in 1 .. n : ~(d[1].key <= d[i].key)}
<1>1. n \in Nat /\ d \in Datas /\ Ordered(d, n) /\ 1 .. n \subseteq Places /\ T \in SUBSET Nat
  BY Sizes DEF Good
<1>2. \A i \in 1 .. n : d[i].key \in Int
  BY <1>1, NodeAt
<1>3. SUFFICES ASSUME T # {} PROVE FALSE
  OBVIOUS
<1>4. PICK i \in T : \A j \in T : i <= j
  BY <1>1, <1>3, Least
<1>5. i \in Nat /\ i >= 2 /\ i \in 2 .. n /\ 1 \in 1 .. n
  <2>1. 1 \in 1 .. n /\ i \in 1 .. n
    BY <1>1
  <2>2. i # 1
    <3>1. d[1].key \in Int
      BY <1>2, <2>1
    <3>2. d[1].key <= d[1].key
      BY <3>1
    <3> QED BY <3>2
  <2> QED BY <1>1, <2>1, <2>2
<1> DEFINE q == i \div 2
<1>6. q \in 1 .. n /\ q < i
  BY <1>1, <1>5, Half
<1>7. d[q].key <= d[i].key
  BY <1>1, <1>5 DEF Ordered
<1> HIDE DEF q
<1>8. d[1].key <= d[q].key
  <2>1. ~(i <= q)
    BY <1>1, <1>5, <1>6
  <2> QED BY <1>4, <1>6, <2>1
<1>9. d[1].key \in Int /\ d[q].key \in Int /\ d[i].key \in Int
  BY <1>2, <1>5, <1>6
<1>10. d[1].key <= d[i].key
  BY <1>7, <1>8, <1>9
<1> QED BY <1>10

\* KeyOf in terms of Has.
LEMMA KeyOfIs ==
  ASSUME Good(data, size, mapping), NEW id \in Keys
  PROVE  /\ \A v \in Int : Has(data, size, id, v) => KeyOf(id) = v
         /\ KeyOf(id) # Null => KeyOf(id) \in Int /\ Has(data, size, id, KeyOf(id))
         /\ \A i \in 1 .. size : data[i].id = id => KeyOf(id) = data[i].key /\ KeyOf(id) # Null
<1>1. size \in 0 .. Capacity /\ data \in Datas /\ 1 .. size \subseteq Places /\ Null \notin Int
  BY Sizes DEF Good
<1>2. \A i \in 1 .. size : data[i].key \in Int
  BY <1>1, NodeAt
<1>3. \A i, j \in 1 .. size : data[i].id = data[j].id => i = j
  BY DEF Good, Agree
<1>4. ASSUME NEW i \in 1 .. size, data[i].id = id PROVE KeyOf(id) = data[i].key
  <2> DEFINE c == CHOOSE j \in 1 .. size : data[j].id = id
  <2>1. c \in 1 .. size /\ data[c].id = id
    BY <1>4
  <2>2. KeyOf(id) = data[c].key
    BY <1>4 DEF KeyOf
  <2> HIDE DEF c
  <2>3. c = i
    BY <1>3, <1>4, <2>1
  <2> QED BY <2>2, <2>3
<1>5. ASSUME KeyOf(id) # Null PROVE \E i \in 1 .. size : data[i].id = id
  BY <1>5 DEF KeyOf
<1> QED BY <1>1, <1>2, <1>4, <1>5 DEF Has

LEMMA KeyOfIsAfter ==
  (Good(data, size, mapping) => \A id \in Keys :
      /\ \A v \in Int : Has(data, size, id, v) => KeyOf(id) = v
      /\ KeyOf(id) # Null => KeyOf(id) \in Int /\ Has(data, size, id, KeyOf(id)))'
<1>1. Good(data, size, mapping) => \A id \in Keys :
         /\ \A v \in Int : Has(data, size, id, v) => KeyOf(id) = v
         /\ KeyOf(id) # Null => KeyOf(id) \in Int /\ Has(data, size, id, KeyOf(id))
  BY KeyOfIs
<1> QED BY <1>1, PTL

\* As many ids are held as there are nodes.
LEMMA HeldCounts ==
  ASSUME Good(data, size, mapping)
  PROVE  Cardinality({id \in Keys : KeyOf(id) # Null}) = size
<1> DEFINE H == {id \in Keys : KeyOf(id) # Null}
           f == [i \in 1 .. size |-> data[i].id]
<1>1. size \in Nat /\ \A i \in 1 .. size : data[i].id \in Keys
  BY Sizes DEF Good, Agree
<1>2. \A i, j \in 1 .. size : data[i].id = data[j].id => i = j
  BY DEF Good, Agree
<1>3. \A i \in 1 .. size : data[i].id \in H
  BY <1>1, KeyOfIs
<1>4. \A id \in H : \E i \in 1 .. size : data[i].id = id
  BY DEF KeyOf
<1> HIDE DEF H
<1>5. f \in Bijection(1 .. size, H)
  <2>1. f \in [1 .. size -> H]
    BY <1>3
  <2>2. \A i, j \in 1 .. size : f[i] = f[j] => i = j
    BY <1>2
  <2>3. \A id \in H : \E i \in 1 .. size : f[i] = id
    BY <1>4
  <2> HIDE DEF f
  <2> QED BY <2>1, <2>2, <2>3 DEF Bijection, Injection, Surjection, IsInjective
<1>6. ExistsBijection(1 .. size, H)
  BY <1>5, Zenon DEF ExistsBijection
<1>7. IsFiniteSet(1 .. size) /\ Cardinality(1 .. size) = size
  <2>1. 1 \in Int /\ size \in Int /\ size - 1 + 1 = size /\ (1 > size => size = 0)
    BY <1>1
  <2> QED BY <2>1, FS_Interval
<1>8. Cardinality(H) = Cardinality(1 .. size)
  BY <1>6, <1>7, FS_Bijection, Zenon
<1> QED BY <1>7, <1>8 DEF H

\* When one key, or none, changes.
LEMMA OneKeyChanges ==
  ASSUME Good(data, size, mapping), Good(data', size', mapping'), NEW id \in Keys, NEW k,
         \A v \in Int : Has(data', size', id, v) <=> v = k,
         k \in Int \cup {Null},
         \A a \in Keys, v \in Int : a # id => (Has(data', size', a, v) <=> Has(data, size, a, v))
  PROVE  TheQueue' = [TheQueue EXCEPT ![id] = k]
<1>1. Null \notin Int
  BY Sizes
<1>2. \A a \in Keys :
         /\ \A v \in Int : Has(data', size', a, v) => TheQueue'[a] = v
         /\ TheQueue'[a] # Null => TheQueue'[a] \in Int /\ Has(data', size', a, TheQueue'[a])
  BY KeyOfIsAfter DEF TheQueue
<1>3. \A a \in Keys :
         /\ \A v \in Int : Has(data, size, a, v) => TheQueue[a] = v
         /\ TheQueue[a] # Null => TheQueue[a] \in Int /\ Has(data, size, a, TheQueue[a])
  BY KeyOfIs DEF TheQueue
<1>4. TheQueue = [a \in Keys |-> TheQueue[a]] /\ TheQueue' = [a \in Keys |-> TheQueue'[a]]
  BY DEF TheQueue
<1> HIDE DEF TheQueue
<1>5. TheQueue'[id] = k
  BY <1>1, <1>2
<1>6. \A a \in Keys : a # id => TheQueue'[a] = TheQueue[a]
  BY <1>1, <1>2, <1>3
<1> QED BY <1>4, <1>5, <1>6

\* The instance has its own copy of the operators of FiniteSets.
LEMMA SameCardinality ==
  ASSUME NEW S PROVE Queue!Cardinality(S) = Cardinality(S)
BY DEF Queue!Cardinality, Cardinality

LEMMA HeldIs ==
  Queue!Held = {id \in Keys : TheQueue[id] # Null} /\ \A id \in Keys : TheQueue[id] = KeyOf(id)
BY DEF Queue!Held, TheQueue

LEMMA KnownHeld ==
  ASSUME Good(data, size, mapping), NEW id \in Keys
  PROVE  TableContains(mapping, id) <=> id \in Queue!Held
<1>1. TableContains(mapping, id) => KeyOf(id) # Null
  BY KnownAt, KeyOfIs
<1>2. ASSUME KeyOf(id) # Null PROVE TableContains(mapping, id)
  <2>1. PICK i \in 1 .. size : data[i].id = id
    BY <1>2, KeyOfIs DEF Has
  <2>2. Val(mapping, id) = i /\ i # Null
    BY <2>1, Sizes DEF Good, Agree
  <2> QED BY <2>2, KnownAt
<1> QED BY <1>1, <1>2, HeldIs

LEMMA CallsRefine ==
  ASSUME HeapInv, Next, ~grown', ~crashed' PROVE Queue!Next
<1>1. ASSUME NEW id \in Keys, NEW k \in KeyValues, NEW memory \in BOOLEAN,
             CallInsert(id, k, memory)
      PROVE  Queue!Next
  <2>1. /\ Good(data, size, mapping) /\ Good(data', size', mapping')
        /\ size < Capacity /\ Val(mapping, id) = Null /\ answer' = <<"insert", 0>>
        /\ \A h \in Keys, v \in Int : Has(data', size', h, v) <=>
              Has(data, size, h, v) \/ (h = id /\ v = k)
    BY <1>1, InsertStep
  <2>2. \A v \in Int : ~Has(data, size, id, v)
    <3>1. \A i \in 1 .. size : data[i].id # id
      BY <2>1, Sizes DEF Good, Agree
    <3> QED BY <3>1 DEF Has
  <2>3. k \in Int
    BY CapacityAssumption
  <2>4. TheQueue' = [TheQueue EXCEPT ![id] = k]
    BY <2>1, <2>2, <2>3, OneKeyChanges
  <2>5. Cardinality(Queue!Held) < Capacity /\ id \notin Queue!Held
    <3>1. KeyOf(id) = Null
      BY <2>1, <2>2, KeyOfIs
    <3>2. Queue!Held = {a \in Keys : KeyOf(a) # Null}
      BY HeldIs
    <3> QED BY <2>1, <3>1, <3>2, HeldCounts
  <2>6. Queue!Insert(id, k)
    BY <2>1, <2>4, <2>5, SameCardinality, Zenon DEF Queue!Insert, TheQueue
  <2> QED BY <2>6 DEF Queue!Next
<1>2. ASSUME NEW id \in Keys, NEW k \in KeyValues, CallSetKey(id, k) PROVE Queue!Next
  <2>1. /\ Good(data, size, mapping) /\ Good(data', size', mapping')
        /\ \E v \in Int : Has(data, size, id, v)
        /\ answer' = <<"setKey", 0>>
        /\ \A h \in Keys, v \in Int : Has(data', size', h, v) <=>
              IF h = id THEN v = k ELSE Has(data, size, h, v)
    BY <1>2, SetKeyStep
  <2>2. k \in Int
    BY CapacityAssumption
  <2>3. TheQueue' = [TheQueue EXCEPT ![id] = k]
    BY <2>1, <2>2, OneKeyChanges
  <2>4. id \in Queue!Held
    <3>1. KeyOf(id) # Null
      BY <2>1, KeyOfIs, Sizes
    <3> QED BY <3>1, HeldIs
  <2>5. Queue!SetKey(id, k)
    BY <2>1, <2>3, <2>4, Zenon DEF Queue!SetKey, TheQueue
  <2> QED BY <2>5 DEF Queue!Next
<1>3. ASSUME Good(data, size, mapping), Good(data', size', mapping'),
             NEW i \in 1 .. size, Without(data, size, i, data'), size' = size - 1
      PROVE  /\ TheQueue' = [TheQueue EXCEPT ![data[i].id] = Null]
             /\ data[i].id \in Keys /\ data[i].id \in Queue!Held
             /\ TheQueue[data[i].id] = data[i].key
  <2>1. data[i].id \in Keys
    BY <1>3 DEF Good, Agree
  <2>2. \A a \in Keys, v \in Int : Has(data', size', a, v) <=> a # data[i].id /\ Has(data, size, a, v)
    BY <1>3 DEF Without
  <2>3. TheQueue' = [TheQueue EXCEPT ![data[i].id] = Null]
    <3> DEFINE id == data[i].id
    <3>1. /\ id \in Keys /\ Null \in Int \cup {Null} /\ Null \notin Int
          /\ \A a \in Keys, v \in Int : Has(data', size', a, v) <=> a # id /\ Has(data, size, a, v)
      BY <2>1, <2>2, Sizes
    <3> HIDE DEF id
    <3>2. TheQueue' = [TheQueue EXCEPT ![id] = Null]
      BY <1>3, <3>1, OneKeyChanges
    <3> QED BY <3>2 DEF id
  <2>4. KeyOf(data[i].id) = data[i].key /\ KeyOf(data[i].id) # Null
    BY <1>3, <2>1, KeyOfIs
  <2> QED BY <2>1, <2>3, <2>4, HeldIs
<1>4. ASSUME NEW id \in Keys, CallRemove(id) PROVE Queue!Next
  <2>1. /\ Good(data, size, mapping) /\ Good(data', size', mapping') /\ size' = size - 1
        /\ \E i \in 1 .. size : /\ data[i].id = id /\ Without(data, size, i, data')
                                /\ answer' = <<"remove", 0, id, data[i].key>>
    BY <1>4, RemoveStep
  <2>2. PICK i \in 1 .. size : /\ data[i].id = id /\ Without(data, size, i, data')
                               /\ answer' = <<"remove", 0, id, data[i].key>>
    BY <2>1
  <2>3. TheQueue' = [TheQueue EXCEPT ![id] = Null] /\ id \in Queue!Held /\ TheQueue[id] = data[i].key
    BY <1>3, <2>1, <2>2
  <2>4. answer' = <<"remove", 0, id, TheQueue[id]>>
    BY <2>2, <2>3
  <2>5. Queue!Remove(id)
    BY <2>3, <2>4, Zenon DEF Queue!Remove, TheQueue
  <2> QED BY <2>5 DEF Queue!Next
<1>5. CASE CallDeleteMin
  <2>1. /\ Good(data, size, mapping) /\ Good(data', size', mapping') /\ 1 \in 1 .. size
        /\ Without(data, size, 1, data') /\ size' = size - 1
        /\ answer' = <<"deleteMin", 0, data[1].id, data[1].key>>
    BY <1>5, DeleteMinStep
  <2> DEFINE id == data[1].id
  <2>2. /\ TheQueue' = [TheQueue EXCEPT ![id] = Null]
        /\ id \in Keys /\ id \in Queue!Held /\ TheQueue[id] = data[1].key
    BY <1>3, <2>1
  <2>3. answer' = <<"deleteMin", 0, id, TheQueue[id]>>
    BY <2>1, <2>2
  <2>4. ASSUME NEW a \in Queue!Held PROVE TheQueue[id] <= TheQueue[a]
    <3>1. a \in Keys /\ KeyOf(a) # Null /\ TheQueue[a] = KeyOf(a)
      BY HeldIs
    <3>2. Has(data, size, a, TheQueue[a])
      BY <2>1, <3>1, KeyOfIs
    <3>3. PICK i \in 1 .. size : data[i].id = a /\ data[i].key = TheQueue[a]
      BY <3>2 DEF Has
    <3> QED BY <2>1, <2>2, <3>3, RootIsLeast
  <2> HIDE DEF id
  <2>5. Queue!DeleteMin
    BY <2>2, <2>3, <2>4, Zenon DEF Queue!DeleteMin, TheQueue
  <2> QED BY <2>5 DEF Queue!Next
<1>6. ASSUME UNCHANGED <<data, size, mapping, grown>>
      PROVE  TheQueue' = TheQueue /\ Good(data, size, mapping)
  <2>1. TheQueue' = TheQueue
    BY <1>6 DEF TheQueue, KeyOf
  <2> QED BY <1>6, <2>1 DEF HeapInv
<1>7. CASE DeleteMinEmpty
  <2>1. UNCHANGED <<data, size, mapping, grown>> /\ size = 0 /\ answer' = <<"deleteMin", 1>>
    BY <1>7 DEF DeleteMinEmpty, Return
  <2>2. TheQueue' = TheQueue
    BY <1>6, <2>1
  <2>3. Queue!Held = {}
    <3>1. \A a \in Keys : KeyOf(a) = Null
      BY <2>1 DEF KeyOf
    <3> QED BY <3>1, HeldIs
  <2>4. Queue!DeleteMin
    BY <2>1, <2>2, <2>3, Zenon DEF Queue!DeleteMin, TheQueue
  <2> QED BY <2>4 DEF Queue!Next
<1>8. ASSUME NEW id \in Keys, SetKeyUnknown(id) PROVE Queue!Next
  <2>1. /\ UNCHANGED <<data, size, mapping, grown>> /\ ~TableContains(mapping, id)
        /\ answer' = <<"setKey", 1>>
    BY <1>8 DEF SetKeyUnknown, Return
  <2>2. TheQueue' = TheQueue /\ Good(data, size, mapping)
    BY <1>6, <2>1
  <2>3. id \notin Queue!Held
    BY <2>1, <2>2, KnownHeld
  <2>4. PICK k \in KeyValues : TRUE
    BY CapacityAssumption
  <2>5. Queue!SetKey(id, k)
    BY <2>1, <2>2, <2>3, Zenon DEF Queue!SetKey, TheQueue
  <2> QED BY <2>5 DEF Queue!Next
<1>9. ASSUME NEW id \in Keys, InsertRefused(id) PROVE Queue!Next
  <2>1. /\ UNCHANGED <<data, size, mapping, grown>>
        /\ \/ size = Capacity /\ answer' = <<"insert", 1>>
           \/ size < Capacity /\ TableContains(mapping, id) /\ answer' = <<"insert", 2>>
    BY <1>9 DEF InsertRefused, Return
  <2>2. TheQueue' = TheQueue /\ Good(data, size, mapping)
    BY <1>6, <2>1
  <2>3. Cardinality(Queue!Held) = size
    BY <2>2, HeldIs, HeldCounts
  <2>4. PICK k \in KeyValues : TRUE
    BY CapacityAssumption
  <2>5. CASE size = Capacity /\ answer' = <<"insert", 1>>
    <3>1. Queue!Insert(id, k)
      BY <2>2, <2>3, <2>5, SameCardinality, Zenon DEF Queue!Insert, TheQueue
    <3> QED BY <3>1 DEF Queue!Next
  <2>6. CASE size < Capacity /\ TableContains(mapping, id) /\ answer' = <<"insert", 2>>
    <3>1. id \in Queue!Held
      BY <2>2, <2>6, KnownHeld
    <3>2. Queue!Insert(id, k)
      BY <2>2, <2>3, <2>6, <3>1, SameCardinality, Zenon DEF Queue!Insert, TheQueue
    <3> QED BY <3>2 DEF Queue!Next
  <2> QED BY <2>1, <2>5, <2>6
<1>10. ASSUME NEW id \in Keys, RemoveUnknown(id) PROVE FALSE
  BY <1>10 DEF RemoveUnknown
<1> QED BY <1>1, <1>2, <1>4, <1>5, <1>7, <1>8, <1>9, <1>10 DEF Next, Call

\* Every call does to the priority queue what heap.h promises, up to the first
\* rehash of mapping and but for remove of an unknown id (heap.h:18-70).
THEOREM HeapCallsAreRight == Spec => CallsCorrect
<1>1. ASSUME HeapInv, [Next]_vars
      PROVE  [~grown' /\ ~crashed' => Queue!Next]_vars
  BY <1>1, CallsRefine
<1> QED BY <1>1, HeapInvariance, PTL DEF Spec, CallsCorrect
==============================================================================
