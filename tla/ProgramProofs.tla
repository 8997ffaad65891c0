---------------------------- MODULE ProgramProofs ----------------------------
(***************************************************************************)
(* What HashMap, Lists, Copycat and Spell promise for all of their inputs: *)
(* the tables of the heap and of the spell checker stay sound and do what  *)
(* hash.h promises; the stacks and queues that share their nodes are       *)
(* sound, and each is to its user a container of its own; cat copies what  *)
(* it was asked for; the spell checker reports the wrong words and no      *)
(* others; a merge that is printed is one, and the one that takes the      *)
(* letters of the first word as early as possible.                         *)
(***************************************************************************)
EXTENDS HashMap, Lists, Copycat, Spell, Merge, HashTableProofs, SequenceTheorems

(***************************************************************************)
(* The client.                                                             *)
(***************************************************************************)
\* As long as it can be used the table is good, and as long as the class
\* works every entry can be found.
HInv == /\ class \in {"heap", "spell"}
        /\ Usable => GoodTable(table)
        /\ AllFindable

LEMMA InitHInv ==
  ASSUME MapInit PROVE HInv
<1>1. Sound(New(Size))
  BY ClientAssumption, NewSound
<1> QED BY <1>1 DEF MapInit, HInv, AllFindable, Sound

\* What the steps of the client do: one case per call.
LEMMA InsertStep ==
  ASSUME HInv, NEW k \in Keys, NEW pv \in Pointers, NEW spare \in BOOLEAN,
         CallInsert(k, pv, spare)
  PROVE  /\ HInv'
         /\ class = "heap" /\ answer'[3] = 2 => table' = table
         /\ Works' /\ Usable' =>
              /\ Works /\ Usable
              /\ \/ /\ answer' = <<"insert", k, 0>> /\ Val(table, k) = Null
                    /\ \A h \in Keys : Val(table', h) = IF h = k THEN pv ELSE Val(table, h)
                 \/ /\ answer' = <<"insert", k, 1>> /\ Val(table, k) # Null
                    /\ \A h \in Keys : Val(table', h) = Val(table, h)
                 \/ answer' = <<"insert", k, 2>> /\ table' = table
<1> DEFINE r == Insert(class, table, k, pv, spare)
<1>1. /\ Usable /\ (spare \/ Crowded(table)) /\ (Crowded(table) => GetPrime(table.cap) # 0)
      /\ table' = r.table /\ answer' = <<"insert", k, r.ret>> /\ answer'[3] = r.ret
      /\ grown' = (grown \/ Crowded(table)) /\ class' = class
  BY DEF CallInsert
<1>2. GoodTable(table) /\ class \in {"heap", "spell"}
  BY <1>1 DEF HInv
<1>3. Works' => Works /\ (Crowded(table) => class = "spell")
  BY <1>1, <1>2 DEF Works
<1>4. Works => Findable(table)
  BY <1>1 DEF HInv, AllFindable
<1>5. CASE spare \/ ~Crowded(table)
  <2>1. /\ GoodTable(r.table) /\ r.ret \in {0, 1}
        /\ Findable(table) /\ (Crowded(table) => class = "spell") =>
              /\ Findable(r.table)
              /\ \/ /\ r.ret = 1 /\ Val(table, k) # Null
                    /\ \A h \in Keys : Val(r.table, h) = Val(table, h)
                 \/ /\ r.ret = 0 /\ Val(table, k) = Null
                    /\ \A h \in Keys : Val(r.table, h) = IF h = k THEN pv ELSE Val(table, h)
    BY <1>1, <1>2, <1>5, InsertCall
  <2> HIDE DEF r
  <2>2. HInv'
    BY <1>1, <1>2, <1>3, <1>4, <2>1 DEF HInv, AllFindable
  <2>3. answer'[3] # 2
    BY <1>1, <2>1
  <2> QED BY <1>1, <1>3, <1>4, <2>1, <2>2, <2>3
<1>6. CASE ~spare /\ Crowded(table)
  <2>1. r = [table |-> NoMemory(class, table), ret |-> 2]
    BY <1>6 DEF Insert
  <2> HIDE DEF r
  <2>2. CASE class = "heap"
    <3>1. table' = table /\ answer' = <<"insert", k, 2>>
      BY <1>1, <2>1, <2>2 DEF NoMemory
    <3>2. HInv'
      BY <1>1, <1>2, <1>3, <1>4, <3>1 DEF HInv, AllFindable, Usable
    <3> QED BY <1>1, <1>3, <3>1, <3>2
  <2>3. CASE class = "spell"
    <3> DEFINE big == GetPrime(table.cap)
    <3>1. table' = [table EXCEPT !.cap = big]
      BY <1>1, <2>1, <2>3 DEF NoMemory
    <3>2. /\ table.cap \in Nat /\ table.cap # 0
          /\ DOMAIN table.item = 0 .. table.cap - 1
          /\ table \in Tables(table.cap)
      BY <1>2, GoodRoom DEF GoodTable
    <3>3. big \in Nat /\ big > table.cap
      BY <1>1, <1>6, <3>2, NextPrime
    <3> HIDE DEF big
    <3>4. table'.cap = big /\ table'.item = table.item
      BY <3>1, <3>2 DEF Tables
    <3>5. ~Usable'
      <4>1. big - 1 \in 0 .. big - 1 /\ big - 1 \notin 0 .. table.cap - 1
        BY <3>2, <3>3
      <4>2. ~Sized(table')
        BY <3>2, <3>4, <4>1 DEF Sized
      <4> QED BY <4>2 DEF Usable, Sized
    <3>6. HInv'
      BY <1>1, <1>2, <3>5 DEF HInv, AllFindable
    <3> QED BY <2>3, <3>5, <3>6
  <2> QED BY <1>2, <2>2, <2>3
<1> QED BY <1>5, <1>6

\* remove and setPointer on any good table, also one that "heap" has rehashed
LEMMA ChangesGood ==
  ASSUME NEW t, GoodTable(t), NEW k \in Keys, NEW pv \in Pointers
  PROVE  /\ GoodTable(TableRemove(t, k).table)
         /\ GoodTable(SetPointer(t, k, pv).table)
<1> DEFINE i == FindPos(t, k)
<1>1. /\ t.cap \in Nat /\ t \in Tables(t.cap) /\ t.item \in [0 .. t.cap - 1 -> Entry]
      /\ DOMAIN t.item = 0 .. t.cap - 1 /\ Pointed(t)
      /\ \E j \in 0 .. t.cap - 1 : ~Occupied(t, j)
  BY GoodRoom DEF GoodTable, Tables
<1>2. PICK m \in 0 .. t.cap - 1 : EndsAfter(t, k, m) /\ Stop(t, k) = Probe(t, k, m)
  BY <1>1, StopThere
<1>3. Stop(t, k) \in 0 .. t.cap - 1
  BY <1>1, <1>2, ProbeRange
<1>4. CASE i = -1
  BY <1>4 DEF TableRemove, SetPointer
<1>5. CASE i # -1
  <2> DEFINE d == [t.item[i] EXCEPT !.deleted = TRUE]
             e == [t.item[i] EXCEPT !.pv = pv]
  <2>1. i \in 0 .. t.cap - 1 /\ Occupied(t, i)
    BY <1>3, <1>5 DEF FindPos
  <2>2. /\ TableRemove(t, k).table = Changed(t, i, d)
        /\ SetPointer(t, k, pv).table = Changed(t, i, e)
    BY <1>5 DEF TableRemove, SetPointer, Changed
  <2> HIDE DEF i
  <2>3. t.item[i] \in Entry /\ t.item[i].pv \in Pointers
    BY <1>1, <2>1 DEF Pointed
  <2>4. /\ d \in Entry /\ d.key = t.item[i].key /\ d.pv \in Pointers
        /\ e \in Entry /\ e.key = t.item[i].key /\ e.pv \in Pointers
    BY <2>3 DEF Entry
  <2> HIDE DEF d, e
  <2>5. GoodTable(Changed(t, i, d))
    BY <2>1, <2>4, ChangeGood
  <2>6. GoodTable(Changed(t, i, e))
    BY <2>1, <2>4, ChangeGood
  <2> QED BY <2>2, <2>5, <2>6
<1> QED BY <1>4, <1>5

LEMMA RemoveStep ==
  ASSUME HInv, NEW k \in Keys, CallRemove(k)
  PROVE  /\ HInv' /\ Usable /\ (Works' <=> Works)
         /\ Works => /\ answer' = <<"remove", k, IF Val(table, k) # Null THEN 1 ELSE 0>>
                     /\ \A h \in Keys : Val(table', h) = IF h = k THEN Null ELSE Val(table, h)
         /\ answer'[1] # "insert"
<1>1. /\ Usable /\ table' = TableRemove(table, k).table
      /\ answer' = <<"remove", k, TableRemove(table, k).ret>>
      /\ class' = class /\ grown' = grown
  BY DEF CallRemove
<1>2. GoodTable(table) /\ class \in {"heap", "spell"} /\ (Works => Findable(table))
  BY <1>1 DEF HInv, AllFindable
<1>3. Works' <=> Works
  BY <1>1 DEF Works
<1>4. GoodTable(table')
  <2>1. ASSUME NEW pv \in Pointers PROVE GoodTable(table')
    BY <1>1, <1>2, ChangesGood
  <2>2. ASSUME Pointers = {} PROVE GoodTable(table')
    <3>1. \A i \in DOMAIN table.item : ~Occupied(table, i)
      BY <1>2, <2>2 DEF GoodTable, Pointed
    <3>2. /\ table.cap \in Nat /\ table \in Tables(table.cap)
          /\ DOMAIN table.item = 0 .. table.cap - 1
          /\ \E j \in 0 .. table.cap - 1 : ~Occupied(table, j)
      BY <1>2, GoodRoom DEF GoodTable
    <3>3. Stop(table, k) \in 0 .. table.cap - 1
      BY <3>2, StopThere, ProbeRange
    <3>4. FindPos(table, k) = -1
      BY <3>1, <3>2, <3>3 DEF FindPos
    <3>5. table' = table
      BY <1>1, <3>4 DEF TableRemove
    <3> QED BY <1>2, <3>5
  <2> QED BY <2>1, <2>2
<1>5. ASSUME Works
      PROVE  /\ Findable(table')
             /\ answer' = <<"remove", k, IF Val(table, k) # Null THEN 1 ELSE 0>>
             /\ \A h \in Keys : Val(table', h) = IF h = k THEN Null ELSE Val(table, h)
  <2>1. Sound(table)
    BY <1>2, <1>5 DEF Sound
  <2> QED BY <1>1, <2>1, RemoveCall DEF Sound
<1>6. HInv'
  BY <1>1, <1>2, <1>3, <1>4, <1>5 DEF HInv, AllFindable
<1>7. answer'[1] # "insert"
  BY <1>1
<1> QED BY <1>1, <1>3, <1>5, <1>6, <1>7

LEMMA SetPointerStep ==
  ASSUME HInv, NEW k \in Keys, NEW pv \in Pointers, CallSetPointer(k, pv)
  PROVE  /\ HInv' /\ Usable /\ (Works' <=> Works)
         /\ Works =>
              /\ answer' = <<"setPointer", k, IF Val(table, k) # Null THEN 0 ELSE 1>>
              /\ \A h \in Keys : Val(table', h) =
                    IF h = k /\ Val(table, k) # Null THEN pv ELSE Val(table, h)
         /\ answer'[1] # "insert"
<1>1. /\ Usable /\ table' = SetPointer(table, k, pv).table
      /\ answer' = <<"setPointer", k, SetPointer(table, k, pv).ret>>
      /\ class' = class /\ grown' = grown
  BY DEF CallSetPointer
<1>2. GoodTable(table) /\ class \in {"heap", "spell"} /\ (Works => Findable(table))
  BY <1>1 DEF HInv, AllFindable
<1>3. Works' <=> Works
  BY <1>1 DEF Works
<1>4. GoodTable(table')
  BY <1>1, <1>2, ChangesGood
<1>5. ASSUME Works
      PROVE  /\ Findable(table')
             /\ answer' = <<"setPointer", k, IF Val(table, k) # Null THEN 0 ELSE 1>>
             /\ \A h \in Keys : Val(table', h) =
                    IF h = k /\ Val(table, k) # Null THEN pv ELSE Val(table, h)
  <2>1. Sound(table)
    BY <1>2, <1>5 DEF Sound
  <2> QED BY <1>1, <2>1, SetPointerCall DEF Sound
<1>6. HInv'
  BY <1>1, <1>2, <1>3, <1>4, <1>5 DEF HInv, AllFindable
<1>7. answer'[1] # "insert"
  BY <1>1
<1> QED BY <1>1, <1>3, <1>5, <1>6, <1>7

LEMMA SameHInv ==
  ASSUME HInv, UNCHANGED <<class, table, grown>> PROVE HInv'
BY DEF HInv, AllFindable, Usable, Works

LEMMA NextHInv ==
  ASSUME HInv, [MapNext]_mapVars PROVE HInv'
<1>1. ASSUME NEW k \in Keys, CallRemove(k) PROVE HInv'
  BY <1>1, RemoveStep
<1>2. ASSUME NEW k \in Keys, CallGetPointer(k) PROVE HInv'
  BY <1>2, SameHInv DEF CallGetPointer
<1>3. ASSUME NEW k \in Keys, NEW pv \in Pointers, CallSetPointer(k, pv) PROVE HInv'
  BY <1>3, SetPointerStep
<1>4. ASSUME NEW k \in Keys, NEW pv \in Pointers, NEW spare \in BOOLEAN, CallInsert(k, pv, spare)
      PROVE  HInv'
  BY <1>4, InsertStep
<1>5. CASE UNCHANGED mapVars
  BY <1>5, SameHInv DEF mapVars
<1> QED BY <1>1, <1>2, <1>3, <1>4, <1>5 DEF MapNext

\* The invariant holds of every client: any calls in any order, with any
\* failing allocations, on either class.
THEOREM MapInvariance == MapSpec => []HInv
<1>1. MapInit => HInv
  BY InitHInv
<1>2. HInv /\ [MapNext]_mapVars => HInv'
  BY NextHInv
<1> QED BY <1>1, <1>2, PTL DEF MapSpec

\* No probe of findPos or insert runs for ever and none misses its entry
\* (hash.cpp:44-58, 105-129).
THEOREM TablesAreSound == MapSpec => []TableSound
<1>1. HInv => TableSound
  <2> SUFFICES ASSUME HInv PROVE ProbesEnd /\ AllFindable
    BY DEF TableSound
  <2> QED BY DEF HInv, ProbesEnd, GoodTable
<1> QED BY <1>1, MapInvariance, PTL

\* A failed insert of "heap" changes nothing that is stored (hash.cpp:62-71).
THEOREM FailuresAreHarmless == MapSpec => FailureHarmless
<1>1. ASSUME HInv, [MapNext]_mapVars
      PROVE  [class = "heap" /\ answer'[1] = "insert" /\ answer'[3] = 2 => table' = table]_mapVars
  <2> SUFFICES ASSUME MapNext, class = "heap", answer'[1] = "insert", answer'[3] = 2
               PROVE  table' = table
    BY <1>1
  <2>1. ASSUME NEW k \in Keys, CallRemove(k) PROVE FALSE
    BY <1>1, <2>1, RemoveStep
  <2>2. ASSUME NEW k \in Keys, CallGetPointer(k) PROVE table' = table
    BY <2>2 DEF CallGetPointer
  <2>3. ASSUME NEW k \in Keys, NEW pv \in Pointers, CallSetPointer(k, pv) PROVE FALSE
    BY <1>1, <2>3, SetPointerStep
  <2>4. ASSUME NEW k \in Keys, NEW pv \in Pointers, NEW spare \in BOOLEAN, CallInsert(k, pv, spare)
        PROVE  table' = table
    BY <1>1, <2>4, InsertStep
  <2> QED BY <2>1, <2>2, <2>3, <2>4 DEF MapNext
<1> QED BY <1>1, MapInvariance, PTL DEF MapSpec, FailureHarmless

(***************************************************************************)
(* The map the table stands for.                                           *)
(***************************************************************************)
TheMap == [k \in Keys |-> IF Usable THEN GetPointer(table, k).pv ELSE Null]

LEMMA TheMapIs ==
  ASSUME Usable PROVE \A k \in Keys : TheMap[k] = Val(table, k)
BY DEF TheMap, Val

LEMMA TheMapIsAfter ==
  (Usable => \A k \in Keys : TheMap[k] = Val(table, k))'
BY TheMapIs, PTL

\* A function on the keys that differs in one place.
LEMMA OneKey ==
  ASSUME NEW k \in Keys, NEW v, Usable, Usable',
         \A h \in Keys : Val(table', h) = IF h = k THEN v ELSE Val(table, h)
  PROVE  TheMap' = [TheMap EXCEPT ![k] = v]
<1>1. \A h \in Keys : TheMap[h] = Val(table, h) /\ TheMap'[h] = Val(table', h)
  BY TheMapIs, TheMapIsAfter DEF Val
<1>2. TheMap = [h \in Keys |-> TheMap[h]] /\ TheMap' = [h \in Keys |-> TheMap'[h]]
  BY DEF TheMap
<1> HIDE DEF TheMap
<1> QED BY <1>1, <1>2

LEMMA NoKeyChanges ==
  ASSUME Usable, Usable', \A h \in Keys : Val(table', h) = Val(table, h)
  PROVE  TheMap' = TheMap
<1>1. \A h \in Keys : TheMap[h] = Val(table, h) /\ TheMap'[h] = Val(table', h)
  BY TheMapIs, TheMapIsAfter DEF Val
<1>2. TheMap = [h \in Keys |-> TheMap[h]] /\ TheMap' = [h \in Keys |-> TheMap'[h]]
  BY DEF TheMap
<1> HIDE DEF TheMap
<1> QED BY <1>1, <1>2

LEMMA CallsRefine ==
  ASSUME HInv, MapNext, Works', Usable' PROVE Map!Next
<1>1. ASSUME NEW k \in Keys, CallRemove(k) PROVE Map!Next
  <2>1. /\ Usable /\ Works
        /\ answer' = <<"remove", k, IF Val(table, k) # Null THEN 1 ELSE 0>>
        /\ \A h \in Keys : Val(table', h) = IF h = k THEN Null ELSE Val(table, h)
    BY <1>1, RemoveStep
  <2>2. TheMap' = [TheMap EXCEPT ![k] = Null]
    BY <2>1, OneKey
  <2>3. answer' = <<"remove", k, IF TheMap[k] # Null THEN 1 ELSE 0>>
    BY <2>1, TheMapIs
  <2>4. Map!Remove(k)
    BY <2>2, <2>3, Zenon DEF Map!Remove, TheMap
  <2> QED BY <2>4 DEF Map!Next
<1>2. ASSUME NEW k \in Keys, CallGetPointer(k) PROVE Map!Next
  <2>1. Usable /\ answer' = <<"getPointer", k, Val(table, k)>> /\ table' = table
    BY <1>2 DEF CallGetPointer, Val
  <2>2. TheMap' = TheMap
    BY <2>1, NoKeyChanges
  <2>3. answer' = <<"getPointer", k, TheMap[k]>>
    BY <2>1, TheMapIs
  <2>4. Map!GetPointer(k)
    BY <2>2, <2>3, Zenon DEF Map!GetPointer, TheMap
  <2> QED BY <2>4 DEF Map!Next
<1>3. ASSUME NEW k \in Keys, NEW pv \in Pointers, CallSetPointer(k, pv) PROVE Map!Next
  <2>1. /\ Usable /\ Works
        /\ answer' = <<"setPointer", k, IF Val(table, k) # Null THEN 0 ELSE 1>>
        /\ \A h \in Keys : Val(table', h) =
              IF h = k /\ Val(table, k) # Null THEN pv ELSE Val(table, h)
    BY <1>3, SetPointerStep
  <2>2. TheMap[k] = Val(table, k)
    BY <2>1, TheMapIs
  <2>3. CASE Val(table, k) # Null
    <3>1. TheMap' = [TheMap EXCEPT ![k] = pv]
      BY <2>1, <2>3, OneKey
    <3>2. answer' = <<"setPointer", k, 0>> /\ TheMap[k] # Null
      BY <2>1, <2>2, <2>3
    <3>3. Map!SetPointer(k, pv)
      BY <3>1, <3>2, Zenon DEF Map!SetPointer, TheMap
    <3> QED BY <3>3 DEF Map!Next
  <2>4. CASE Val(table, k) = Null
    <3>1. TheMap' = TheMap
      BY <2>1, <2>4, NoKeyChanges
    <3>2. answer' = <<"setPointer", k, 1>> /\ TheMap[k] = Null
      BY <2>1, <2>2, <2>4
    <3>3. Map!SetPointer(k, pv)
      BY <3>1, <3>2, Zenon DEF Map!SetPointer, TheMap
    <3> QED BY <3>3 DEF Map!Next
  <2> QED BY <2>3, <2>4
<1>4. ASSUME NEW k \in Keys, NEW pv \in Pointers, NEW spare \in BOOLEAN, CallInsert(k, pv, spare)
      PROVE  Map!Next
  <2>1. /\ Works /\ Usable
        /\ \/ /\ answer' = <<"insert", k, 0>> /\ Val(table, k) = Null
              /\ \A h \in Keys : Val(table', h) = IF h = k THEN pv ELSE Val(table, h)
           \/ /\ answer' = <<"insert", k, 1>> /\ Val(table, k) # Null
              /\ \A h \in Keys : Val(table', h) = Val(table, h)
           \/ answer' = <<"insert", k, 2>> /\ table' = table
    BY <1>4, InsertStep
  <2>2. TheMap[k] = Val(table, k)
    BY <2>1, TheMapIs
  <2>3. CASE /\ answer' = <<"insert", k, 0>> /\ Val(table, k) = Null
             /\ \A h \in Keys : Val(table', h) = IF h = k THEN pv ELSE Val(table, h)
    <3>1. TheMap' = [TheMap EXCEPT ![k] = pv]
      BY <2>1, <2>3, OneKey
    <3>2. Map!Insert(k, pv)
      BY <2>2, <2>3, <3>1, Zenon DEF Map!Insert, TheMap
    <3> QED BY <3>2 DEF Map!Next
  <2>4. CASE /\ answer' = <<"insert", k, 1>> /\ Val(table, k) # Null
             /\ \A h \in Keys : Val(table', h) = Val(table, h)
    <3>1. TheMap' = TheMap
      BY <2>1, <2>4, NoKeyChanges
    <3>2. Map!Insert(k, pv)
      BY <2>2, <2>4, <3>1, Zenon DEF Map!Insert, TheMap
    <3> QED BY <3>2 DEF Map!Next
  <2>5. CASE answer' = <<"insert", k, 2>> /\ table' = table
    <3>1. TheMap' = TheMap
      BY <2>1, <2>5, NoKeyChanges
    <3>2. Map!Insert(k, pv)
      BY <2>5, <3>1, Zenon DEF Map!Insert, TheMap
    <3> QED BY <3>2 DEF Map!Next
  <2> QED BY <2>1, <2>3, <2>4, <2>5
<1> QED BY <1>1, <1>2, <1>3, <1>4 DEF MapNext

\* Every call does to the map from keys to pointers what hash.h promises and
\* returns what it promises, as long as the class works (hash.h:26-56), and a
\* failed insert of "heap" does nothing.
THEOREM CallsAreRight == MapSpec => CallsRight
<1>1. ASSUME HInv, [MapNext]_mapVars
      PROVE  [Works' /\ Usable' => Map!Next]_mapVars
  BY <1>1, CallsRefine
<1>2. MapSpec => CallsCorrect
  BY <1>1, MapInvariance, PTL DEF MapSpec, CallsCorrect
<1> QED BY <1>2, FailuresAreHarmless DEF CallsRight

------------------------------------------------------------------------------

(***************************************************************************)
(* Stacks and queues (Lists.tla).                                          *)
(***************************************************************************)

\* The n addresses of a chain from h on in the nodes mem.
Walk(mem, h, n) == LET at[i \in 1..n] == IF i = 1 THEN h
                                         ELSE IF at[i - 1] \in DOMAIN mem THEN mem[at[i - 1]].next
                                         ELSE NULL
                   IN [i \in 1..n |-> at[i]]

LEMMA ChainIsWalk ==
  /\ \A l : Chain(l) = Walk(memory, l.head, l.size)
  /\ \A l : Chain(l)' = Walk(memory', l.head', l.size')
<1>1. \A l : Chain(l) = Walk(memory, l.head, l.size)
  BY DEF Chain, Walk
<1> QED BY <1>1 DEF Chain, Walk

\* A function that follows the links is the walk.
Follows(mem, c, h, n) == /\ c \in [1..n -> DOMAIN mem]
                         /\ n > 0 => c[1] = h
                         /\ \A i \in 1..n - 1 : mem[c[i]].next = c[i + 1]

LEMMA WalkIs ==
  ASSUME NEW mem, NEW n \in Nat, NEW h, NEW c, Follows(mem, c, h, n)
  PROVE  Walk(mem, h, n) = c
<1> DEFINE Link(f, i) == IF i = 1 THEN h
                         ELSE IF f[i - 1] \in DOMAIN mem THEN mem[f[i - 1]].next ELSE NULL
           Is(f) == f = [i \in 1..n |-> Link(f, i)]
           at == CHOOSE f : Is(f)
<1>1. ASSUME NEW i \in 1..n
      PROVE  c[i] = Link(c, i)
  <2>1. CASE i = 1
    BY <2>1 DEF Follows
  <2>2. CASE i # 1
    <3>1. i - 1 \in 1..n - 1 /\ i - 1 \in 1..n /\ (i - 1) + 1 = i
      BY <2>2
    <3>2. c[i - 1] \in DOMAIN mem /\ mem[c[i - 1]].next = c[i]
      BY <3>1 DEF Follows
    <3> QED BY <2>2, <3>2
  <2> QED BY <2>1, <2>2
<1>2. c = [i \in 1..n |-> c[i]]
  BY DEF Follows
<1>3. Is(c)
  BY <1>1, <1>2, Zenon
<1>4. Is(at)
  BY <1>3, Zenon
<1>5. Walk(mem, h, n) = [i \in 1..n |-> at[i]]
  BY Zenon DEF Walk
<1> HIDE DEF at
<1>6. \A i \in 1..n : at[i] = Link(at, i)
  BY <1>4, Zenon
<1> DEFINE T == {k \in Nat : \A i \in 1..n : i <= k => at[i] = c[i]}
<1>7. 0 \in T
  OBVIOUS
<1>8. ASSUME NEW k \in Nat, k \in T PROVE k + 1 \in T
  <2> SUFFICES ASSUME NEW i \in 1..n, i = k + 1
               PROVE  at[i] = c[i]
    BY <1>8
  <2>1. i = 1 \/ at[i - 1] = c[i - 1]
    BY <1>8
  <2> QED BY <1>1, <1>6, <2>1
<1>9. n \in T
  <2> HIDE DEF T
  <2> QED BY <1>7, <1>8, Induct
<1>10. \A i \in 1..n : at[i] = c[i]
  BY <1>9
<1> QED BY <1>2, <1>5, <1>10

(***************************************************************************)
(* What the steps do to the nodes mem, to a list l, to the sequences ls of *)
(* lists and to the containers B.                                          *)
(***************************************************************************)
WithNode(mem, a, x, next) ==
    [b \in DOMAIN mem \cup {a} |-> IF b = a THEN [data |-> x, next |-> next] ELSE mem[b]]
Linked(mem, t, a)  == [mem EXCEPT ![t].next = a]
Without(mem, a)    == [b \in DOMAIN mem \ {a} |-> mem[b]]
Resized(l, n, t, h) == [l EXCEPT !.head = h, !.tail = t, !.size = n]
SetTo(ls, k, i, l) == [ls EXCEPT ![k][i] = l]
InFront(ls, k, l)  == [ls EXCEPT ![k] = <<l>> \o @]
Refill(B, n, s)    == [B EXCEPT ![n].contents = s]
AddBox(B, n, t)    == [m \in DOMAIN B \cup {n} |->
                          IF m = n THEN [kind |-> t, contents |-> <<>>] ELSE B[m]]

(***************************************************************************)
(* A set of lists in the nodes mem, apart from where the program keeps it. *)
(***************************************************************************)
Link == Addresses \cup {NULL}
ListRecord == [name : ListNames, type : {"stack", "queue"}, size : Nat, tail : Link, head : Link]
NodeTable(mem) == DOMAIN mem \subseteq Addresses /\ mem \in [DOMAIN mem -> [data : Items, next : Link]]

Path(mem, l)     == Walk(mem, l.head, l.size)
Nodes(mem, l)    == {Path(mem, l)[i] : i \in 1..l.size}
Contents(mem, l) == [i \in 1..l.size |-> mem[Path(mem, l)[i]].data]

\* c is the chain of l: no node comes twice, and it ends at tail.
Chained(mem, c, l) == /\ Follows(mem, c, l.head, l.size)
                      /\ \A i, j \in 1..l.size : c[i] = c[j] => i = j
                      /\ IF l.size = 0 THEN l.head = NULL /\ l.tail = NULL
                         ELSE c[l.size] = l.tail /\ mem[l.tail].next = NULL

GoodList(mem, l) == l \in ListRecord /\ Chained(mem, Path(mem, l), l)

\* No two lists have a name or a node in common, and no node is lost.
GoodLists(mem, S) ==
    /\ NodeTable(mem)
    /\ \A l \in S : GoodList(mem, l)
    /\ \A l, m \in S : l.name = m.name => l = m
    /\ \A l, m \in S : l # m => Nodes(mem, l) \cap Nodes(mem, m) = {}
    /\ \A a \in DOMAIN mem : \E l \in S : a \in Nodes(mem, l)

LEMMA ListIs ==
  ASSUME NEW mem, NEW l \in ListRecord, NEW c, Chained(mem, c, l)
  PROVE  /\ GoodList(mem, l) /\ Path(mem, l) = c
         /\ Nodes(mem, l) = {c[i] : i \in 1..l.size}
         /\ Contents(mem, l) = [i \in 1..l.size |-> mem[c[i]].data]
<1>1. l.size \in Nat /\ Follows(mem, c, l.head, l.size)
  BY DEF ListRecord, Chained
<1>2. Path(mem, l) = c
  BY <1>1, WalkIs, Zenon DEF Path
<1> QED BY <1>2 DEF GoodList, Nodes, Contents

LEMMA NodesThere ==
  ASSUME NEW mem, NEW l, GoodList(mem, l)
  PROVE  /\ Nodes(mem, l) \subseteq DOMAIN mem
         /\ Path(mem, l) \in [1..l.size -> DOMAIN mem]
BY DEF GoodList, Chained, Follows, Nodes

\* A list whose nodes are left alone is what it was.
LEMMA ListFrame ==
  ASSUME NEW mem, NEW m2, NEW l, GoodList(mem, l),
         \A a \in Nodes(mem, l) : a \in DOMAIN m2 /\ m2[a] = mem[a]
  PROVE  /\ GoodList(m2, l) /\ Nodes(m2, l) = Nodes(mem, l)
         /\ Contents(m2, l) = Contents(mem, l)
<1> DEFINE c == Path(mem, l)
<1>0. l \in ListRecord /\ l.size \in Nat /\ Chained(mem, c, l)
  BY DEF GoodList, ListRecord
<1>1. \A i \in 1..l.size : c[i] \in DOMAIN m2 /\ m2[c[i]] = mem[c[i]]
  BY DEF Nodes
<1> HIDE DEF c
<1>2. Follows(m2, c, l.head, l.size)
  BY <1>0, <1>1 DEF Chained, Follows
<1>3. Chained(m2, c, l)
  BY <1>0, <1>1, <1>2 DEF Chained
<1>4. /\ GoodList(m2, l) /\ Nodes(m2, l) = {c[i] : i \in 1..l.size}
      /\ Contents(m2, l) = [i \in 1..l.size |-> m2[c[i]].data]
  BY <1>0, <1>3, ListIs
<1>5. Contents(mem, l) = [i \in 1..l.size |-> mem[c[i]].data]
  BY DEF c, Contents
<1>6. Nodes(mem, l) = {c[i] : i \in 1..l.size}
  BY DEF c, Nodes
<1> QED BY <1>1, <1>4, <1>5, <1>6

\* Only list l changes, into l2, and only its nodes.
Replaced(mem, S, l, m2, l2) ==
    /\ l2.name = l.name /\ l2.type = l.type
    /\ NodeTable(m2) /\ GoodList(m2, l2)
    /\ \A a \in DOMAIN mem \ Nodes(mem, l) :
          a \in DOMAIN m2 /\ m2[a] = mem[a] /\ a \notin Nodes(m2, l2)
    /\ DOMAIN m2 \subseteq (DOMAIN mem \ Nodes(mem, l)) \cup Nodes(m2, l2)

LEMMA ReplaceList ==
  ASSUME NEW mem, NEW S, GoodLists(mem, S), NEW l \in S, NEW m2, NEW l2,
         Replaced(mem, S, l, m2, l2)
  PROVE  /\ GoodLists(m2, (S \ {l}) \cup {l2})
         /\ \A m \in S \ {l} : Contents(m2, m) = Contents(mem, m)
<1> DEFINE S2 == (S \ {l}) \cup {l2}
<1>1. ASSUME NEW m \in S \ {l}
      PROVE  /\ GoodList(m2, m) /\ Nodes(m2, m) = Nodes(mem, m)
             /\ Contents(m2, m) = Contents(mem, m)
             /\ Nodes(mem, m) \subseteq DOMAIN mem \ Nodes(mem, l)
  <2>1. GoodList(mem, m) /\ Nodes(mem, m) \subseteq DOMAIN mem
    BY NodesThere DEF GoodLists
  <2>2. Nodes(mem, m) \cap Nodes(mem, l) = {}
    BY DEF GoodLists
  <2>3. \A a \in Nodes(mem, m) : a \in DOMAIN m2 /\ m2[a] = mem[a]
    BY <2>1, <2>2 DEF Replaced
  <2> QED BY <2>1, <2>2, <2>3, ListFrame
<1>2. NodeTable(m2) /\ \A m \in S2 : GoodList(m2, m)
  BY <1>1 DEF Replaced
<1>3. ASSUME NEW m \in S2, NEW n \in S2
      PROVE  m.name = n.name => m = n
  BY DEF GoodLists, Replaced
<1>4. ASSUME NEW m \in S \ {l}
      PROVE  Nodes(m2, m) \cap Nodes(m2, l2) = {}
  BY <1>1 DEF Replaced
<1>5. ASSUME NEW m \in S2, NEW n \in S2, m # n
      PROVE  Nodes(m2, m) \cap Nodes(m2, n) = {}
  <2>1. CASE m \in S \ {l} /\ n \in S \ {l}
    <3>1. Nodes(m2, m) = Nodes(mem, m) /\ Nodes(m2, n) = Nodes(mem, n)
      BY <1>1, <2>1
    <3>2. m \in S /\ n \in S
      BY <2>1
    <3> QED BY <1>5, <3>1, <3>2 DEF GoodLists
  <2>2. CASE m = l2 /\ n \in S \ {l}
    BY <1>4, <2>2
  <2>3. CASE n = l2 /\ m \in S \ {l}
    BY <1>4, <2>3
  <2> QED BY <1>5, <2>1, <2>2, <2>3
<1>6. ASSUME NEW a \in DOMAIN m2
      PROVE  \E m \in S2 : a \in Nodes(m2, m)
  <2>1. CASE a \in Nodes(m2, l2)
    BY <2>1
  <2>2. CASE a \in DOMAIN mem \ Nodes(mem, l)
    <3>1. PICK m \in S : a \in Nodes(mem, m)
      BY <2>2 DEF GoodLists
    <3>2. m \in S \ {l} /\ a \in Nodes(m2, m)
      BY <1>1, <2>2, <3>1
    <3> QED BY <3>2
  <2> QED BY <2>1, <2>2 DEF Replaced
<1>7. GoodLists(m2, S2)
  BY <1>2, <1>3, <1>5, <1>6, Zenon DEF GoodLists
<1> QED BY <1>1, <1>7

LEMMA ContentsOf ==
  ASSUME NEW mem, NEW l, NodeTable(mem), GoodList(mem, l)
  PROVE  /\ Contents(mem, l) \in Seq(Items) /\ Len(Contents(mem, l)) = l.size
         /\ \A i \in 1..l.size : Contents(mem, l)[i] = mem[Path(mem, l)[i]].data
<1> DEFINE c == Path(mem, l)
<1>1. l.size \in Nat /\ c \in [1..l.size -> DOMAIN mem]
  BY NodesThere DEF GoodList, ListRecord
<1>2. \A i \in 1..l.size : mem[c[i]].data \in Items
  <2> HIDE DEF c
  <2> QED BY <1>1 DEF NodeTable
<1> HIDE DEF c
<1>3. Contents(mem, l) = [i \in 1..l.size |-> mem[c[i]].data]
  BY DEF c, Contents
<1>4. Contents(mem, l) \in [1..l.size -> Items]
  BY <1>2, <1>3
<1>5. Contents(mem, l) \in Seq(Items)
  BY <1>1, <1>4, SeqDef
<1>6. Len(Contents(mem, l)) = l.size
  BY <1>1, <1>4, <1>5, LenProperties
<1> QED BY <1>3, <1>5, <1>6 DEF c

\* The list l with the size, the tail and the head given.
LEMMA ListFields ==
  ASSUME NEW l \in ListRecord, NEW n \in Nat, NEW t \in Link, NEW h \in Link
  PROVE  LET l2 == Resized(l, n, t, h) IN
         /\ l2 \in ListRecord /\ l2.name = l.name /\ l2.type = l.type
         /\ l2.size = n /\ l2.tail = t /\ l2.head = h
BY DEF ListRecord, Resized

\* What Insert_Begin does.
LEMMA BeginList ==
  ASSUME ListsAssumption, NEW mem, NEW S, GoodLists(mem, S), NEW l \in S,
         NEW a \in Addresses \ DOMAIN mem, NEW x \in Items, NEW m2, NEW l2 \in ListRecord,
         m2 = WithNode(mem, a, x, l.head),
         l2.name = l.name /\ l2.type = l.type /\ l2.size = l.size + 1,
         l2.head = a /\ l2.tail = IF l.size = 0 THEN a ELSE l.tail
  PROVE  /\ Replaced(mem, S, l, m2, l2)
         /\ Contents(m2, l2) = <<x>> \o Contents(mem, l)
<1> DEFINE c == Path(mem, l)
           d == [i \in 1..l2.size |-> IF i = 1 THEN a ELSE c[i - 1]]
<1>0. /\ GoodList(mem, l) /\ l \in ListRecord /\ Chained(mem, c, l) /\ l.size \in Nat
      /\ NodeTable(mem) /\ c \in [1..l.size -> DOMAIN mem]
  BY NodesThere DEF GoodLists, GoodList, ListRecord
<1>1. /\ l2.name = l.name /\ l2.type = l.type /\ l2.size = l.size + 1
      /\ l2.head = a /\ l2.tail = IF l.size = 0 THEN a ELSE l.tail
  OBVIOUS
<1>2. /\ DOMAIN m2 = DOMAIN mem \cup {a} /\ m2[a] = [data |-> x, next |-> l.head]
      /\ \A b \in DOMAIN mem : m2[b] = mem[b]
  BY DEF WithNode
<1>3. NodeTable(m2)
  <2>0. m2 = [b \in DOMAIN m2 |-> m2[b]]
    BY DEF WithNode
  <2>1. l.head \in Link
    BY <1>0 DEF ListRecord
  <2>2. \A b \in DOMAIN m2 : m2[b] \in [data : Items, next : Link]
    BY <1>0, <1>2, <2>1 DEF NodeTable
  <2> QED BY <1>0, <1>2, <2>0, <2>2 DEF NodeTable
<1> HIDE DEF c
<1>4. /\ d[1] = a /\ \A i \in 2..l2.size : d[i] = c[i - 1] /\ c[i - 1] \in DOMAIN mem
      /\ d \in [1..l2.size -> DOMAIN m2]
  <2>1. l2.size \in Nat /\ 1 \in 1..l2.size
    BY <1>0, <1>1
  <2>2. \A i \in 2..l2.size : i \in 1..l2.size /\ i # 1 /\ i - 1 \in 1..l.size
    BY <1>0, <1>1
  <2>3. \A i \in 2..l2.size : d[i] = c[i - 1] /\ c[i - 1] \in DOMAIN mem
    BY <1>0, <2>2
  <2>4. \A i \in 1..l2.size : i = 1 \/ i \in 2..l2.size
    BY <2>1
  <2>5. \A i \in 1..l2.size : d[i] \in DOMAIN m2
    BY <1>2, <2>1, <2>3, <2>4
  <2> QED BY <2>1, <2>3, <2>5
<1> HIDE DEF d
<1>5. Follows(m2, d, l2.head, l2.size)
  <2>1. ASSUME NEW i \in 1..l2.size - 1 PROVE m2[d[i]].next = d[i + 1]
    <3>1. d[i + 1] = c[i] /\ i \in 1..l.size /\ l.size > 0
      BY <1>0, <1>1, <1>4
    <3>2. CASE i = 1
      BY <1>0, <1>2, <1>4, <3>1, <3>2 DEF Chained, Follows
    <3>3. CASE i # 1
      <4>1. d[i] = c[i - 1] /\ i - 1 \in 1..l.size - 1 /\ (i - 1) + 1 = i /\ c[i - 1] \in DOMAIN mem
        BY <1>0, <1>1, <1>4, <3>3
      <4> QED BY <1>0, <1>2, <3>1, <4>1 DEF Chained, Follows
    <3> QED BY <3>2, <3>3
  <2> QED BY <1>1, <1>4, <2>1 DEF Follows
<1>6. ASSUME NEW i \in 1..l2.size, NEW j \in 1..l2.size, d[i] = d[j]
      PROVE  i = j
  <2>1. CASE i = 1 \/ j = 1
    BY <1>0, <1>1, <1>4, <1>6, <2>1
  <2>2. CASE i # 1 /\ j # 1
    <3>1. i - 1 \in 1..l.size /\ j - 1 \in 1..l.size /\ i \in 2..l2.size /\ j \in 2..l2.size
      BY <1>0, <1>1, <2>2
    <3>2. c[i - 1] = c[j - 1]
      BY <1>4, <1>6, <3>1
    <3>3. i - 1 = j - 1
      BY <1>0, <3>1, <3>2 DEF Chained
    <3> QED BY <3>3
  <2> QED BY <2>1, <2>2
<1>7. d[l2.size] = l2.tail /\ m2[l2.tail].next = NULL
  <2>1. CASE l.size = 0
    BY <1>0, <1>1, <1>2, <1>4, <2>1 DEF Chained
  <2>2. CASE l.size # 0
    <3>1. d[l2.size] = c[l.size] /\ c[l.size] \in DOMAIN mem
      BY <1>0, <1>1, <1>4, <2>2
    <3> QED BY <1>0, <1>1, <1>2, <2>2, <3>1 DEF Chained
  <2> QED BY <2>1, <2>2
<1>8. Chained(m2, d, l2)
  BY <1>0, <1>1, <1>5, <1>6, <1>7 DEF Chained
<1>9. /\ GoodList(m2, l2) /\ Path(m2, l2) = d
      /\ Nodes(m2, l2) = {d[i] : i \in 1..l2.size}
  BY <1>8, ListIs
<1>10. Nodes(mem, l) = {c[i] : i \in 1..l.size}
  BY DEF c, Nodes
<1>11. Nodes(m2, l2) = Nodes(mem, l) \cup {a}
  <2>1. ASSUME NEW i \in 1..l.size PROVE c[i] \in Nodes(m2, l2)
    <3>1. i + 1 \in 2..l2.size /\ i + 1 \in 1..l2.size /\ (i + 1) - 1 = i
      BY <1>0, <1>1
    <3>2. d[i + 1] = c[i]
      BY <1>4, <3>1
    <3> QED BY <1>9, <3>1, <3>2
  <2>2. ASSUME NEW i \in 1..l2.size PROVE d[i] = a \/ d[i] \in Nodes(mem, l)
    BY <1>0, <1>1, <1>4, <1>10
  <2>3. a \in Nodes(m2, l2)
    <3>1. 1 \in 1..l2.size
      BY <1>0, <1>1
    <3> QED BY <1>4, <1>9, <3>1
  <2> HIDE DEF Nodes
  <2>4. Nodes(m2, l2) \subseteq Nodes(mem, l) \cup {a}
    BY <1>9, <2>2
  <2>5. Nodes(mem, l) \subseteq Nodes(m2, l2)
    BY <1>10, <2>1
  <2> QED BY <2>3, <2>4, <2>5
<1>12. Replaced(mem, S, l, m2, l2)
  BY <1>1, <1>2, <1>3, <1>9, <1>11 DEF Replaced
<1>13. /\ Contents(mem, l) \in Seq(Items) /\ Len(Contents(mem, l)) = l.size
       /\ \A i \in 1..l.size : Contents(mem, l)[i] = mem[c[i]].data
  BY <1>0, ContentsOf DEF c
<1>14. /\ Contents(m2, l2) \in Seq(Items) /\ Len(Contents(m2, l2)) = l2.size
       /\ \A i \in 1..l2.size : Contents(m2, l2)[i] = m2[d[i]].data
  BY <1>3, <1>9, ContentsOf
<1>15. \A i \in 1..l2.size : m2[d[i]].data = IF i = 1 THEN x ELSE mem[c[i - 1]].data
  BY <1>0, <1>1, <1>2, <1>4
<1>16. /\ <<x>> \o Contents(mem, l) \in Seq(Items)
       /\ Len(<<x>> \o Contents(mem, l)) = l.size + 1
       /\ \A i \in 1..l.size + 1 : (<<x>> \o Contents(mem, l))[i] =
             IF i = 1 THEN x ELSE Contents(mem, l)[i - 1]
  <2>1. <<x>> \in Seq(Items) /\ Len(<<x>>) = 1 /\ <<x>>[1] = x
    OBVIOUS
  <2> QED BY <1>0, <1>13, <2>1, ConcatProperties
<1>17. \A i \in 1..l2.size : Contents(m2, l2)[i] = (<<x>> \o Contents(mem, l))[i]
  <2> HIDE DEF Contents
  <2> TAKE i \in 1..l2.size
  <2>1. i \in 1..l.size + 1 /\ (i # 1 => i - 1 \in 1..l.size)
    BY <1>0, <1>1
  <2>2. Contents(m2, l2)[i] = IF i = 1 THEN x ELSE mem[c[i - 1]].data
    BY <1>14, <1>15
  <2>3. (<<x>> \o Contents(mem, l))[i] = IF i = 1 THEN x ELSE Contents(mem, l)[i - 1]
    BY <1>16, <2>1
  <2>4. i # 1 => Contents(mem, l)[i - 1] = mem[c[i - 1]].data
    BY <1>13, <2>1
  <2> QED BY <2>2, <2>3, <2>4
<1>18. Contents(m2, l2) = <<x>> \o Contents(mem, l)
  <2>1. Len(Contents(m2, l2)) = Len(<<x>> \o Contents(mem, l))
    BY <1>1, <1>14, <1>16
  <2>2. \A i \in 1..Len(Contents(m2, l2)) : Contents(m2, l2)[i] = (<<x>> \o Contents(mem, l))[i]
    BY <1>14, <1>17
  <2> HIDE DEF Contents
  <2> QED BY <1>14, <1>16, <2>1, <2>2, SeqEqual
<1> QED BY <1>12, <1>18

\* What Insert_End does.
LEMMA EndList ==
  ASSUME ListsAssumption, NEW mem, NEW S, GoodLists(mem, S), NEW l \in S,
         NEW a \in Addresses \ DOMAIN mem, NEW x \in Items, NEW m2, NEW l2 \in ListRecord,
         m2 = IF l.size = 0 THEN WithNode(mem, a, x, NULL)
              ELSE Linked(WithNode(mem, a, x, NULL), l.tail, a),
         l2.name = l.name /\ l2.type = l.type /\ l2.size = l.size + 1,
         l2.tail = a /\ l2.head = IF l.size = 0 THEN a ELSE l.head
  PROVE  /\ Replaced(mem, S, l, m2, l2)
         /\ Contents(m2, l2) = Append(Contents(mem, l), x)
<1> DEFINE c == Path(mem, l)
           d == [i \in 1..l2.size |-> IF i = l2.size THEN a ELSE c[i]]
<1>0. /\ GoodList(mem, l) /\ l \in ListRecord /\ Chained(mem, c, l) /\ l.size \in Nat
      /\ NodeTable(mem) /\ c \in [1..l.size -> DOMAIN mem]
  BY NodesThere DEF GoodLists, GoodList, ListRecord
<1>1. /\ l2.name = l.name /\ l2.type = l.type /\ l2.size = l.size + 1
      /\ l2.tail = a /\ l2.head = IF l.size = 0 THEN a ELSE l.head
  OBVIOUS
<1> DEFINE m == WithNode(mem, a, x, NULL)
<1>18. /\ DOMAIN m2 = DOMAIN mem \cup {a}
       /\ m2[a] = [data |-> x, next |-> NULL]
       /\ \A b \in DOMAIN mem :
             m2[b] = IF l.size # 0 /\ b = l.tail
                     THEN [data |-> mem[b].data, next |-> a] ELSE mem[b]
       /\ m2 = [b \in DOMAIN m2 |-> m2[b]]
  <2>1. DOMAIN m = DOMAIN mem \cup {a} /\ m[a] = [data |-> x, next |-> NULL]
        /\ \A b \in DOMAIN mem : m[b] = mem[b]
    BY DEF WithNode
  <2>2. m = [b \in DOMAIN m |-> m[b]]
    BY DEF WithNode
  <2>3. l.size # 0 => l.tail \in DOMAIN mem
    <3>1. l.size # 0 => l.size \in 1..l.size
      BY <1>0
    <3> QED BY <1>0, <3>1 DEF Chained
  <2>4. m2 = IF l.size = 0 THEN m ELSE Linked(m, l.tail, a)
    OBVIOUS
  <2> HIDE DEF m, c
  <2>5. CASE l.size = 0
    BY <2>1, <2>2, <2>4, <2>5
  <2>6. CASE l.size # 0
    <3>1. m2 = [m EXCEPT ![l.tail].next = a]
      BY <2>4, <2>6 DEF Linked
    <3>2. m[l.tail] = mem[l.tail] /\ mem[l.tail] \in [data : Items, next : Link]
      BY <1>0, <2>1, <2>3, <2>6 DEF NodeTable
    <3>3. m2 = [b \in DOMAIN m |-> IF b = l.tail THEN [m[b] EXCEPT !.next = a] ELSE m[b]]
      BY <3>1
    <3>4. [m[l.tail] EXCEPT !.next = a] = [data |-> mem[l.tail].data, next |-> a]
      BY <3>2
    <3>5. DOMAIN m2 = DOMAIN m /\ m2[l.tail] = [data |-> mem[l.tail].data, next |-> a]
          /\ \A b \in DOMAIN m : b # l.tail => m2[b] = m[b]
      BY <2>1, <2>3, <2>6, <3>3, <3>4
    <3>6. m2 = [b \in DOMAIN m2 |-> m2[b]]
      BY <3>3
    <3> QED BY <2>1, <2>3, <2>6, <3>5, <3>6
  <2> QED BY <2>5, <2>6
<1>19. m2 = [b \in DOMAIN m2 |-> m2[b]] /\ DOMAIN m2 = DOMAIN mem \cup {a}
       /\ m2[a] = [data |-> x, next |-> NULL]
  BY <1>18
<1>2. \A b \in DOMAIN mem : /\ m2[b].data = mem[b].data
                            /\ m2[b].next = IF l.size # 0 /\ b = l.tail THEN a ELSE mem[b].next
                            /\ l.size = 0 \/ b # l.tail => m2[b] = mem[b]
  <2> TAKE b \in DOMAIN mem
  <2>1. m2[b] = IF l.size # 0 /\ b = l.tail THEN [data |-> mem[b].data, next |-> a] ELSE mem[b]
    BY <1>18
  <2> HIDE DEF m, c, d
  <2> QED BY <2>1
<1>3. NodeTable(m2)
  <2>1. \A b \in DOMAIN m2 : m2[b] \in [data : Items, next : Link]
    <3>1. \A b \in DOMAIN mem : mem[b].data \in Items /\ mem[b] \in [data : Items, next : Link]
      BY <1>0 DEF NodeTable
    <3>2. ASSUME NEW b \in DOMAIN mem PROVE m2[b] \in [data : Items, next : Link]
      <4>1. m2[b] = IF l.size # 0 /\ b = l.tail THEN [data |-> mem[b].data, next |-> a] ELSE mem[b]
        BY <1>18
      <4>2. a \in Link
        BY DEF Link
      <4> HIDE DEF m, c, d
      <4> QED BY <3>1, <4>1, <4>2
    <3> QED BY <1>18, <3>2 DEF Link
  <2> QED BY <1>0, <1>19, <2>1 DEF NodeTable
<1> HIDE DEF m
<1>10. Nodes(mem, l) = {c[i] : i \in 1..l.size} /\ \A i \in 1..l.size : c[i] \in Nodes(mem, l)
  BY DEF c, Nodes
<1> HIDE DEF c
<1>4. /\ d[l2.size] = a /\ \A i \in 1..l.size : d[i] = c[i] /\ c[i] \in DOMAIN mem
      /\ d \in [1..l2.size -> DOMAIN m2]
  <2>1. l2.size \in Nat /\ l2.size \in 1..l2.size
    BY <1>0, <1>1
  <2>2. \A i \in 1..l.size : i \in 1..l2.size /\ i # l2.size
    BY <1>0, <1>1
  <2>3. \A i \in 1..l.size : d[i] = c[i] /\ c[i] \in DOMAIN mem
    BY <1>0, <2>2
  <2>4. \A i \in 1..l2.size : i = l2.size \/ i \in 1..l.size
    BY <1>0, <1>1, <2>1
  <2>5. \A i \in 1..l2.size : d[i] \in DOMAIN m2
    BY <1>19, <2>1, <2>3, <2>4
  <2> QED BY <2>1, <2>3, <2>5
<1> HIDE DEF d
<1>5. Follows(m2, d, l2.head, l2.size)
  <2>1. ASSUME NEW i \in 1..l2.size - 1 PROVE m2[d[i]].next = d[i + 1]
    <3>1. d[i] = c[i] /\ i \in 1..l.size /\ l.size > 0 /\ l.size # 0 /\ c[i] \in DOMAIN mem
      BY <1>0, <1>1, <1>4
    <3>2. CASE i = l.size
      <4>1. c[i] = l.tail /\ i + 1 = l2.size
        BY <1>0, <1>1, <3>1, <3>2 DEF Chained
      <4> QED BY <1>2, <1>4, <3>1, <4>1
    <3>3. CASE i # l.size
      <4>1. i \in 1..l.size - 1 /\ i + 1 \in 1..l.size /\ l.size \in 1..l.size
        BY <1>0, <3>1, <3>3
      <4>2. c[i] # l.tail
        BY <1>0, <3>1, <3>3, <4>1 DEF Chained
      <4>3. mem[c[i]].next = c[i + 1] /\ d[i + 1] = c[i + 1]
        BY <1>0, <1>4, <4>1 DEF Chained, Follows
      <4> QED BY <1>2, <3>1, <4>2, <4>3
    <3> QED BY <3>2, <3>3
  <2>2. d[1] = l2.head
    <3>1. CASE l.size = 0
      BY <1>1, <1>4, <3>1
    <3>2. CASE l.size # 0
      <4>1. 1 \in 1..l.size /\ l.size > 0
        BY <1>0, <3>2
      <4> QED BY <1>0, <1>1, <1>4, <3>2, <4>1 DEF Chained, Follows
    <3> QED BY <3>1, <3>2
  <2> QED BY <1>4, <2>1, <2>2 DEF Follows
<1>6. ASSUME NEW i \in 1..l2.size, NEW j \in 1..l2.size, d[i] = d[j]
      PROVE  i = j
  <2>1. \A n \in 1..l2.size : n = l2.size \/ n \in 1..l.size
    BY <1>0, <1>1
  <2>2. CASE i \in 1..l.size /\ j \in 1..l.size
    BY <1>0, <1>4, <1>6, <2>2 DEF Chained
  <2> QED BY <1>4, <1>6, <2>1, <2>2
<1>7. d[l2.size] = l2.tail /\ m2[l2.tail].next = NULL
  BY <1>1, <1>4, <1>19
<1>8. Chained(m2, d, l2)
  <2>1. l2.size # 0
    BY <1>0, <1>1
  <2> QED BY <1>5, <1>6, <1>7, <2>1 DEF Chained
<1>9. /\ GoodList(m2, l2) /\ Path(m2, l2) = d
      /\ Nodes(m2, l2) = {d[i] : i \in 1..l2.size}
  BY <1>8, ListIs
<1>11. Nodes(m2, l2) = Nodes(mem, l) \cup {a}
  <2>1. ASSUME NEW i \in 1..l.size PROVE c[i] \in Nodes(m2, l2)
    <3>1. i \in 1..l2.size
      BY <1>0, <1>1
    <3>2. d[i] = c[i]
      BY <1>4
    <3> QED BY <1>9, <3>1, <3>2
  <2>2. ASSUME NEW i \in 1..l2.size PROVE d[i] = a \/ d[i] \in Nodes(mem, l)
    <3>1. i = l2.size \/ i \in 1..l.size
      BY <1>0, <1>1
    <3> QED BY <1>4, <1>10, <3>1
  <2>3. a \in Nodes(m2, l2)
    <3>1. l2.size \in 1..l2.size
      BY <1>0, <1>1
    <3> QED BY <1>4, <1>9, <3>1
  <2> HIDE DEF Nodes
  <2>4. Nodes(m2, l2) \subseteq Nodes(mem, l) \cup {a}
    BY <1>9, <2>2
  <2>5. Nodes(mem, l) \subseteq Nodes(m2, l2)
    BY <1>10, <2>1
  <2> QED BY <2>3, <2>4, <2>5
<1>12. Replaced(mem, S, l, m2, l2)
  <2>1. l.size # 0 => l.tail \in Nodes(mem, l)
    <3>1. l.size # 0 => l.size \in 1..l.size
      BY <1>0
    <3> QED BY <1>0, <1>10, <3>1 DEF Chained
  <2>2. \A b \in DOMAIN mem \ Nodes(mem, l) : m2[b] = mem[b]
    BY <1>2, <2>1
  <2> QED BY <1>1, <1>3, <1>9, <1>11, <1>19, <2>2 DEF Replaced
<1>13. /\ Contents(mem, l) \in Seq(Items) /\ Len(Contents(mem, l)) = l.size
       /\ \A i \in 1..l.size : Contents(mem, l)[i] = mem[c[i]].data
  BY <1>0, ContentsOf DEF c
<1>14. /\ Contents(m2, l2) \in Seq(Items) /\ Len(Contents(m2, l2)) = l2.size
       /\ \A i \in 1..l2.size : Contents(m2, l2)[i] = m2[d[i]].data
  BY <1>3, <1>9, ContentsOf
<1> DEFINE t == Append(Contents(mem, l), x)
<1>15. /\ t \in Seq(Items) /\ Len(t) = l.size + 1 /\ t[l.size + 1] = x
       /\ \A i \in 1..l.size : t[i] = Contents(mem, l)[i]
  <2> HIDE DEF Contents
  <2> QED BY <1>13, AppendProperties
<1> HIDE DEF t
<1>16. \A i \in 1..l2.size : Contents(m2, l2)[i] = t[i]
  <2> HIDE DEF Contents
  <2> TAKE i \in 1..l2.size
  <2>1. i = l2.size \/ i \in 1..l.size
    BY <1>0, <1>1
  <2>2. CASE i = l2.size
    BY <1>1, <1>4, <1>14, <1>15, <1>19, <2>2
  <2>3. CASE i \in 1..l.size
    <3>1. m2[d[i]].data = mem[c[i]].data
      BY <1>2, <1>4, <2>3
    <3> QED BY <1>13, <1>14, <1>15, <2>3, <3>1
  <2> QED BY <2>1, <2>2, <2>3
<1>17. Contents(m2, l2) = t
  <2>1. Len(Contents(m2, l2)) = Len(t)
    BY <1>1, <1>14, <1>15
  <2>2. \A i \in 1..Len(Contents(m2, l2)) : Contents(m2, l2)[i] = t[i]
    BY <1>14, <1>16
  <2> HIDE DEF Contents
  <2> QED BY <1>14, <1>15, <2>1, <2>2, SeqEqual
<1> QED BY <1>12, <1>17 DEF t

\* What Remove_Begin does.
LEMMA RemoveList ==
  ASSUME ListsAssumption, NEW mem, NEW S, GoodLists(mem, S), NEW l \in S, l.size # 0, NEW m2,
         NEW l2 \in ListRecord, m2 = Without(mem, l.head),
         l2.name = l.name /\ l2.type = l.type /\ l2.size = l.size - 1,
         l2.head = IF l.size = 1 THEN NULL ELSE mem[l.head].next,
         l2.tail = IF l.size = 1 THEN NULL ELSE l.tail
  PROVE  /\ Replaced(mem, S, l, m2, l2)
         /\ Contents(mem, l) # <<>> /\ mem[l.head].data = Head(Contents(mem, l))
         /\ Contents(m2, l2) = Tail(Contents(mem, l))
<1> DEFINE c == Path(mem, l)
           d == [i \in 1..l2.size |-> c[i + 1]]
<1>0. /\ GoodList(mem, l) /\ l \in ListRecord /\ Chained(mem, c, l) /\ l.size \in Nat \ {0}
      /\ NodeTable(mem) /\ c \in [1..l.size -> DOMAIN mem]
  BY NodesThere DEF GoodLists, GoodList, ListRecord
<1>1. /\ l2.name = l.name /\ l2.type = l.type /\ l2.size = l.size - 1 /\ l2.size \in Nat
      /\ l2.head = IF l.size = 1 THEN NULL ELSE mem[l.head].next
      /\ l2.tail = IF l.size = 1 THEN NULL ELSE l.tail
  BY <1>0
<1>2. DOMAIN m2 = DOMAIN mem \ {l.head} /\ \A b \in DOMAIN m2 : m2[b] = mem[b]
  BY DEF Without
<1>3. NodeTable(m2)
  BY <1>0 DEF NodeTable, Without
<1>10. Nodes(mem, l) = {c[i] : i \in 1..l.size} /\ \A i \in 1..l.size : c[i] \in Nodes(mem, l)
  BY DEF c, Nodes
<1> HIDE DEF c
<1>11. c[1] = l.head /\ 1 \in 1..l.size
  BY <1>0 DEF Chained, Follows
<1>12. \A i \in 1..l2.size : i + 1 \in 1..l.size /\ i \in 1..l.size /\ i \in 1..l.size - 1
  BY <1>0, <1>1
<1>13. \A i \in 1..l.size : i # 1 => c[i] # l.head
  BY <1>0, <1>11 DEF Chained
<1>4. /\ \A i \in 1..l2.size : d[i] = c[i + 1] /\ c[i + 1] \in DOMAIN m2
      /\ d \in [1..l2.size -> DOMAIN m2]
  <2>1. \A i \in 1..l2.size : c[i + 1] \in DOMAIN mem /\ c[i + 1] # l.head
    BY <1>0, <1>12, <1>13
  <2> QED BY <1>2, <2>1
<1> HIDE DEF d
<1>5. Follows(m2, d, l2.head, l2.size)
  <2>1. ASSUME NEW i \in 1..l2.size - 1 PROVE m2[d[i]].next = d[i + 1]
    <3>1. i \in 1..l2.size /\ i + 1 \in 1..l2.size /\ i + 1 \in 1..l.size - 1
      BY <1>1
    <3>2. mem[c[i + 1]].next = c[(i + 1) + 1]
      BY <1>0, <3>1 DEF Chained, Follows
    <3> QED BY <1>2, <1>4, <3>1, <3>2
  <2>2. ASSUME l2.size > 0 PROVE d[1] = l2.head
    <3>1. 1 \in 1..l2.size /\ l.size # 1 /\ 1 \in 1..l.size - 1
      BY <1>1, <2>2
    <3>2. mem[c[1]].next = c[1 + 1]
      BY <1>0, <3>1 DEF Chained, Follows
    <3> QED BY <1>1, <1>4, <1>11, <3>1, <3>2
  <2> QED BY <1>4, <2>1, <2>2 DEF Follows
<1>6. ASSUME NEW i \in 1..l2.size, NEW j \in 1..l2.size, d[i] = d[j]
      PROVE  i = j
  <2>1. i + 1 \in 1..l.size /\ j + 1 \in 1..l.size /\ c[i + 1] = c[j + 1]
    BY <1>4, <1>6, <1>12
  <2>2. i + 1 = j + 1
    BY <1>0, <2>1 DEF Chained
  <2> QED BY <2>2
<1>7. IF l2.size = 0 THEN l2.head = NULL /\ l2.tail = NULL
      ELSE d[l2.size] = l2.tail /\ m2[l2.tail].next = NULL
  <2>1. CASE l2.size = 0
    BY <1>0, <1>1, <2>1
  <2>2. CASE l2.size # 0
    <3>1. l2.size \in 1..l2.size /\ l2.size + 1 = l.size /\ l.size # 1
      BY <1>0, <1>1, <2>2
    <3>2. d[l2.size] = c[l.size] /\ c[l.size] \in DOMAIN m2
      BY <1>4, <3>1
    <3> QED BY <1>0, <1>1, <1>2, <2>2, <3>1, <3>2 DEF Chained
  <2> QED BY <2>1, <2>2
<1>8. Chained(m2, d, l2)
  BY <1>5, <1>6, <1>7 DEF Chained
<1>9. /\ GoodList(m2, l2) /\ Path(m2, l2) = d
      /\ Nodes(m2, l2) = {d[i] : i \in 1..l2.size}
  BY <1>8, ListIs
<1>14. Nodes(m2, l2) = Nodes(mem, l) \ {l.head}
  <2>1. ASSUME NEW i \in 1..l.size, c[i] # l.head PROVE c[i] \in Nodes(m2, l2)
    <3>1. i # 1
      BY <1>11, <2>1
    <3>2. i - 1 \in 1..l2.size /\ (i - 1) + 1 = i
      BY <1>0, <1>1, <3>1
    <3> QED BY <1>4, <1>9, <3>2
  <2>2. ASSUME NEW i \in 1..l2.size PROVE d[i] # l.head /\ d[i] \in Nodes(mem, l)
    BY <1>2, <1>4, <1>10, <1>12
  <2> HIDE DEF Nodes
  <2>4. Nodes(m2, l2) \subseteq Nodes(mem, l) \ {l.head}
    BY <1>9, <2>2
  <2>5. Nodes(mem, l) \ {l.head} \subseteq Nodes(m2, l2)
    BY <1>10, <2>1
  <2> QED BY <2>4, <2>5
<1>15. Replaced(mem, S, l, m2, l2)
  <2>1. l.head \in Nodes(mem, l)
    BY <1>10, <1>11
  <2> QED BY <1>1, <1>2, <1>3, <1>9, <1>14, <2>1 DEF Replaced
<1>16. /\ Contents(mem, l) \in Seq(Items) /\ Len(Contents(mem, l)) = l.size
       /\ \A i \in 1..l.size : Contents(mem, l)[i] = mem[c[i]].data
  BY <1>0, ContentsOf DEF c
<1>17. /\ Contents(m2, l2) \in Seq(Items) /\ Len(Contents(m2, l2)) = l2.size
       /\ \A i \in 1..l2.size : Contents(m2, l2)[i] = m2[d[i]].data
  BY <1>3, <1>9, ContentsOf
<1> HIDE DEF Contents
<1>18. Contents(mem, l) # <<>> /\ mem[l.head].data = Head(Contents(mem, l))
  BY <1>0, <1>11, <1>16
<1> DEFINE t == Tail(Contents(mem, l))
<1>19. /\ t \in Seq(Items) /\ Len(t) = l2.size
       /\ \A i \in 1..l2.size : t[i] = Contents(mem, l)[i + 1]
  <2>1. t \in Seq(Items) /\ Len(t) = l.size - 1
    BY <1>16, <1>18, HeadTailProperties
  <2>2. \A i \in 1..Len(t) : t[i] = Contents(mem, l)[i + 1]
    BY <1>16, <1>18, HeadTailProperties
  <2> QED BY <1>1, <2>1, <2>2
<1> HIDE DEF t
<1>20. \A i \in 1..l2.size : Contents(m2, l2)[i] = t[i]
  <2> TAKE i \in 1..l2.size
  <2>1. m2[d[i]].data = mem[c[i + 1]].data
    BY <1>2, <1>4
  <2>2. Contents(mem, l)[i + 1] = mem[c[i + 1]].data
    BY <1>12, <1>16
  <2> QED BY <1>17, <1>19, <2>1, <2>2
<1>21. Contents(m2, l2) = t
  <2>1. \A i \in 1..Len(Contents(m2, l2)) : Contents(m2, l2)[i] = t[i]
    BY <1>17, <1>20
  <2> QED BY <1>17, <1>19, <2>1, SeqEqual
<1> QED BY <1>15, <1>18, <1>21 DEF t

\* create adds an empty list.
LEMMA AddList ==
  ASSUME NEW mem, NEW S, GoodLists(mem, S), NEW n \in ListNames, NEW t \in {"stack", "queue"},
         \A l \in S : l.name # n
  PROVE  /\ NewList(n, t) \in ListRecord /\ Contents(mem, NewList(n, t)) = <<>>
         /\ GoodLists(mem, S \cup {NewList(n, t)})
<1> DEFINE l2 == NewList(n, t)
<1>1. /\ l2 \in ListRecord /\ l2.size = 0 /\ l2.name = n
      /\ l2.head = NULL /\ l2.tail = NULL /\ l2.type = t
  BY DEF NewList, ListRecord, Link
<1> HIDE DEF l2
<1>2. Chained(mem, <<>>, l2)
  BY <1>1 DEF Chained, Follows
<1>3. GoodList(mem, l2) /\ Nodes(mem, l2) = {} /\ Contents(mem, l2) = <<>>
  <2>1. /\ GoodList(mem, l2) /\ Nodes(mem, l2) = {<<>>[i] : i \in 1..0}
        /\ Contents(mem, l2) = [i \in 1..0 |-> mem[<<>>[i]].data]
    BY <1>1, <1>2, ListIs
  <2> QED BY <2>1
<1>4. GoodLists(mem, S \cup {l2})
  BY <1>1, <1>3 DEF GoodLists
<1> QED BY <1>1, <1>3, <1>4 DEF l2

(***************************************************************************)
(* The containers the lists stand for.                                     *)
(***************************************************************************)
BoxOf(mem, l)   == [kind |-> l.type, contents |-> Contents(mem, l)]
BoxesOf(mem, S) == [n \in {l.name : l \in S} |-> BoxOf(mem, CHOOSE l \in S : l.name = n)]

LEMMA BoxesAre ==
  ASSUME NEW mem, NEW S, GoodLists(mem, S)
  PROVE  /\ DOMAIN BoxesOf(mem, S) = {l.name : l \in S}
         /\ \A l \in S : BoxesOf(mem, S)[l.name] = BoxOf(mem, l)
<1>1. ASSUME NEW l \in S PROVE BoxesOf(mem, S)[l.name] = BoxOf(mem, l)
  <2>1. (CHOOSE m \in S : m.name = l.name) = l
    BY DEF GoodLists
  <2>2. BoxesOf(mem, S)[l.name] = BoxOf(mem, CHOOSE m \in S : m.name = l.name)
    BY DEF BoxesOf
  <2> QED BY <2>1, <2>2
<1> QED BY <1>1 DEF BoxesOf

\* Maps of the same names to the same containers are equal.
LEMMA SameBoxes ==
  ASSUME NEW mem, NEW S, GoodLists(mem, S), NEW N, NEW f, f = [n \in N |-> f[n]],
         N = {l.name : l \in S}, \A l \in S : f[l.name] = BoxOf(mem, l)
  PROVE  f = BoxesOf(mem, S)
<1>1. ASSUME NEW n \in N PROVE f[n] = BoxesOf(mem, S)[n]
  <2>1. PICK l \in S : n = l.name
    OBVIOUS
  <2>2. f[l.name] = BoxOf(mem, l) /\ BoxesOf(mem, S)[l.name] = BoxOf(mem, l)
    BY BoxesAre
  <2> QED BY <2>1, <2>2
<1>2. BoxesOf(mem, S) = [n \in N |-> BoxesOf(mem, S)[n]]
  BY DEF BoxesOf
<1> QED BY <1>1, <1>2

LEMMA BoxesReplaced ==
  ASSUME NEW mem, NEW S, GoodLists(mem, S), NEW l \in S, NEW m2, NEW l2,
         Replaced(mem, S, l, m2, l2)
  PROVE  BoxesOf(m2, (S \ {l}) \cup {l2}) =
           Refill(BoxesOf(mem, S), l.name, Contents(m2, l2))
<1> DEFINE S2 == (S \ {l}) \cup {l2}
           B  == BoxesOf(mem, S)
           f  == Refill(B, l.name, Contents(m2, l2))
           N  == {m.name : m \in S}
<1>1. GoodLists(m2, S2) /\ \A m \in S \ {l} : Contents(m2, m) = Contents(mem, m)
  BY ReplaceList
<1>2. l2.name = l.name /\ l2.type = l.type
  BY DEF Replaced
<1>3. N = {m.name : m \in S2}
  BY <1>2
<1>4. DOMAIN B = N /\ \A m \in S : B[m.name] = BoxOf(mem, m)
  BY BoxesAre
<1> HIDE DEF B
<1>5. f = [n \in N |-> f[n]]
  BY <1>4 DEF Refill
<1>6. ASSUME NEW m \in S2 PROVE f[m.name] = BoxOf(m2, m)
  <2>1. CASE m = l2
    <3>1. B[l.name] = BoxOf(mem, l) /\ l.name \in DOMAIN B
      BY <1>4
    <3>2. f[l.name] = [B[l.name] EXCEPT !.contents = Contents(m2, l2)]
      BY <3>1 DEF Refill
    <3>3. f[l.name] = [kind |-> l.type, contents |-> Contents(m2, l2)]
      BY <3>1, <3>2 DEF BoxOf
    <3> QED BY <1>2, <2>1, <3>3 DEF BoxOf
  <2>2. CASE m \in S \ {l}
    <3>1. m.name # l.name
      BY <2>2 DEF GoodLists
    <3>2. f[m.name] = B[m.name]
      BY <1>4, <2>2, <3>1 DEF Refill
    <3> QED BY <1>1, <1>4, <2>2, <3>2 DEF BoxOf
  <2> QED BY <2>1, <2>2
<1> HIDE DEF f, N
<1> QED BY <1>1, <1>3, <1>5, <1>6, SameBoxes DEF f, B

LEMMA BoxesAdded ==
  ASSUME NEW mem, NEW S, GoodLists(mem, S), NEW n \in ListNames, NEW t \in {"stack", "queue"},
         \A l \in S : l.name # n
  PROVE  BoxesOf(mem, S \cup {NewList(n, t)}) = AddBox(BoxesOf(mem, S), n, t)
<1> DEFINE l2 == NewList(n, t)
           S2 == S \cup {l2}
           B  == BoxesOf(mem, S)
           N  == DOMAIN B \cup {n}
           f  == [m \in N |-> IF m = n THEN [kind |-> t, contents |-> <<>>] ELSE B[m]]
<1>1. GoodLists(mem, S2) /\ Contents(mem, l2) = <<>>
  BY AddList
<1>2. l2.name = n /\ l2.type = t
  BY DEF NewList
<1>3. DOMAIN B = {m.name : m \in S} /\ \A m \in S : B[m.name] = BoxOf(mem, m)
  BY BoxesAre
<1> HIDE DEF B, l2
<1>4. N = {m.name : m \in S2}
  BY <1>2, <1>3
<1>5. f = [m \in N |-> f[m]]
  OBVIOUS
<1>6. ASSUME NEW m \in S2 PROVE f[m.name] = BoxOf(mem, m)
  BY <1>1, <1>2, <1>3 DEF BoxOf
<1> HIDE DEF f, N
<1>7. f = BoxesOf(mem, S2)
  BY <1>1, <1>4, <1>5, <1>6, SameBoxes
<1> QED BY <1>7 DEF f, B, N, l2, AddBox

(***************************************************************************)
(* The three sequences the program keeps its lists in.                     *)
(***************************************************************************)
ListsIn(ls) == UNION {ToSet(ls[k]) : k \in Letters}

Shelved(ls) ==
    /\ ls \in [Letters -> Seq(ListRecord)]
    /\ \A k \in Letters : \A i \in DOMAIN ls[k] : Letter[ls[k][i].name] = k
    /\ \A k \in Letters : \A i, j \in DOMAIN ls[k] : ls[k][i].name = ls[k][j].name => i = j

LEMMA InLists ==
  ASSUME NEW ls, Shelved(ls)
  PROVE  /\ \A k \in Letters : \A i \in DOMAIN ls[k] : ls[k][i] \in ListsIn(ls)
         /\ \A l \in ListsIn(ls) : \E k \in Letters : \E i \in DOMAIN ls[k] : l = ls[k][i]
BY DEF ListsIn, ToSet

\* Setting a list.
LEMMA SetList ==
  ASSUME NEW ls, Shelved(ls), NEW k \in Letters, NEW i \in DOMAIN ls[k],
         NEW l2 \in ListRecord, l2.name = ls[k][i].name
  PROVE  LET l3 == SetTo(ls, k, i, l2)
         IN  Shelved(l3) /\ ListsIn(l3) = (ListsIn(ls) \ {ls[k][i]}) \cup {l2}
<1> DEFINE l3 == SetTo(ls, k, i, l2)
<1>1. ls[k] \in Seq(ListRecord) /\ i \in 1..Len(ls[k])
  BY DEF Shelved
<1>2. [ls[k] EXCEPT ![i] = l2] \in Seq(ListRecord)
  BY <1>1, ExceptSeq
<1>3. /\ l3 \in [Letters -> Seq(ListRecord)]
      /\ \A m \in Letters : DOMAIN l3[m] = DOMAIN ls[m]
      /\ \A m \in Letters : \A j \in DOMAIN ls[m] :
            l3[m][j] = IF m = k /\ j = i THEN l2 ELSE ls[m][j]
  BY <1>2 DEF Shelved, SetTo
<1> HIDE DEF l3
<1>4. \A m \in Letters : \A j \in DOMAIN ls[m] : l3[m][j].name = ls[m][j].name
  BY <1>3
<1>5. Shelved(l3)
  BY <1>3, <1>4 DEF Shelved
<1>6. ASSUME NEW l \in ListsIn(l3) PROVE l \in (ListsIn(ls) \ {ls[k][i]}) \cup {l2}
  <2>0. PICK m \in Letters : \E j \in DOMAIN l3[m] : l = l3[m][j]
    BY <1>5, InLists
  <2>1. PICK j \in DOMAIN l3[m] : l = l3[m][j]
    BY <2>0
  <2>2. CASE m = k /\ j = i
    BY <1>3, <2>1, <2>2
  <2>3. CASE ~(m = k /\ j = i)
    <3>1. l = ls[m][j] /\ j \in DOMAIN ls[m]
      BY <1>3, <2>1, <2>3
    <3>2. ls[m][j] # ls[k][i]
      BY <2>3, <3>1 DEF Shelved
    <3> QED BY <3>1, <3>2, InLists
  <2> QED BY <2>2, <2>3
<1>7. ASSUME NEW l \in ListsIn(ls), l # ls[k][i] PROVE l \in ListsIn(l3)
  <2>0. PICK m \in Letters : \E j \in DOMAIN ls[m] : l = ls[m][j]
    BY InLists
  <2>1. PICK j \in DOMAIN ls[m] : l = ls[m][j]
    BY <2>0
  <2>2. l = l3[m][j] /\ j \in DOMAIN l3[m]
    BY <1>3, <1>7, <2>1
  <2> QED BY <1>5, <2>2, InLists
<1>8. l2 \in ListsIn(l3)
  <2>1. l3[k][i] = l2 /\ i \in DOMAIN l3[k]
    BY <1>3
  <2> QED BY <1>5, <2>1, InLists
<1>9. ListsIn(l3) = (ListsIn(ls) \ {ls[k][i]}) \cup {l2}
  BY <1>6, <1>7, <1>8
<1> QED BY <1>5, <1>9 DEF l3

\* Adding a list in front.
LEMMA PushFront ==
  ASSUME NEW ls, Shelved(ls), NEW l2 \in ListRecord, NEW k \in Letters, Letter[l2.name] = k,
         \A l \in ListsIn(ls) : l.name # l2.name
  PROVE  LET l3 == InFront(ls, k, l2)
         IN  Shelved(l3) /\ ListsIn(l3) = ListsIn(ls) \cup {l2}
<1> DEFINE l3 == InFront(ls, k, l2)
           s  == <<l2>> \o ls[k]
<1>1. ls[k] \in Seq(ListRecord) /\ Len(ls[k]) \in Nat /\ <<l2>> \in Seq(ListRecord)
      /\ DOMAIN ls[k] = 1..Len(ls[k])
  BY DEF Shelved
<1>2. /\ s \in Seq(ListRecord) /\ Len(s) = Len(ls[k]) + 1
      /\ \A j \in 1..Len(ls[k]) + 1 : s[j] = IF j = 1 THEN l2 ELSE ls[k][j - 1]
  <2>1. Len(<<l2>>) = 1 /\ <<l2>>[1] = l2
    OBVIOUS
  <2> QED BY <1>1, <2>1, ConcatProperties
<1> HIDE DEF s
<1>3. DOMAIN s = 1..Len(ls[k]) + 1 /\ s[1] = l2 /\ 1 \in DOMAIN s
  BY <1>1, <1>2
<1>4. /\ \A j \in DOMAIN ls[k] : j + 1 \in DOMAIN s /\ s[j + 1] = ls[k][j]
      /\ \A j \in DOMAIN s : j # 1 => j - 1 \in DOMAIN ls[k] /\ s[j] = ls[k][j - 1]
  BY <1>1, <1>2, <1>3
<1>5. /\ l3 \in [Letters -> Seq(ListRecord)] /\ l3[k] = s
      /\ \A m \in Letters : m # k => l3[m] = ls[m]
  BY <1>2 DEF Shelved, InFront, s
<1> HIDE DEF l3
<1>6. \A j \in DOMAIN s : s[j] = l2 \/ s[j] \in ListsIn(ls)
  BY <1>3, <1>4, InLists
<1>7. \A j \in DOMAIN s : Letter[s[j].name] = k
  BY <1>3, <1>4 DEF Shelved
<1>8. ASSUME NEW i \in DOMAIN s, NEW j \in DOMAIN s, s[i].name = s[j].name
      PROVE  i = j
  <2>1. CASE i = 1 /\ j # 1
    BY <1>3, <1>4, <1>8, <2>1, InLists
  <2>2. CASE j = 1 /\ i # 1
    BY <1>3, <1>4, <1>8, <2>2, InLists
  <2>3. CASE i # 1 /\ j # 1
    <3>1. /\ i - 1 \in DOMAIN ls[k] /\ j - 1 \in DOMAIN ls[k]
          /\ ls[k][i - 1].name = ls[k][j - 1].name
      BY <1>4, <1>8, <2>3
    <3>2. i - 1 = j - 1
      BY <3>1 DEF Shelved
    <3> QED BY <1>3, <3>2
  <2> QED BY <2>1, <2>2, <2>3
<1>9. Shelved(l3)
  <2>1. ASSUME NEW m \in Letters
        PROVE  /\ \A i \in DOMAIN l3[m] : Letter[l3[m][i].name] = m
               /\ \A i, j \in DOMAIN l3[m] : l3[m][i].name = l3[m][j].name => i = j
    <3>1. CASE m = k
      BY <1>5, <1>7, <1>8, <3>1
    <3>2. CASE m # k
      BY <1>5, <3>2 DEF Shelved
    <3> QED BY <3>1, <3>2
  <2> QED BY <1>5, <2>1 DEF Shelved
<1>10. ASSUME NEW l \in ListsIn(l3) PROVE l \in ListsIn(ls) \cup {l2}
  <2>0. PICK m \in Letters : \E j \in DOMAIN l3[m] : l = l3[m][j]
    BY <1>9, InLists
  <2>1. PICK j \in DOMAIN l3[m] : l = l3[m][j]
    BY <2>0
  <2>2. CASE m = k
    BY <1>5, <1>6, <2>1, <2>2
  <2>3. CASE m # k
    BY <1>5, <2>1, <2>3, InLists
  <2> QED BY <2>2, <2>3
<1>11. ASSUME NEW l \in ListsIn(ls) PROVE l \in ListsIn(l3)
  <2>0. PICK m \in Letters : \E j \in DOMAIN ls[m] : l = ls[m][j]
    BY InLists
  <2>1. PICK j \in DOMAIN ls[m] : l = ls[m][j]
    BY <2>0
  <2>2. CASE m = k
    <3>1. l = l3[k][j + 1] /\ j + 1 \in DOMAIN l3[k]
      BY <1>4, <1>5, <2>1, <2>2
    <3> QED BY <1>9, <3>1, InLists
  <2>3. CASE m # k
    <3>1. l = l3[m][j] /\ j \in DOMAIN l3[m]
      BY <1>5, <2>1, <2>3
    <3> QED BY <1>9, <3>1, InLists
  <2> QED BY <2>2, <2>3
<1>12. l2 \in ListsIn(l3)
  <2>1. l3[k][1] = l2 /\ 1 \in DOMAIN l3[k]
    BY <1>3, <1>5
  <2> QED BY <1>9, <2>1, InLists
<1> QED BY <1>9, <1>10, <1>11, <1>12 DEF l3

(***************************************************************************)
(* The interpreter.                                                        *)
(***************************************************************************)
ShelvesInv == Shelved(lists) /\ GoodLists(memory, ListsIn(lists))

\* The invariant and the containers in terms of the operators above.
LEMMA AllListsIn == AllLists = ListsIn(lists)
BY DEF AllLists, ListsIn

LEMMA BoxesIs ==
  /\ Boxes = BoxesOf(memory, ListsIn(lists))
  /\ Boxes' = BoxesOf(memory', ListsIn(lists'))
<1>2. Boxes = BoxesOf(memory, ListsIn(lists))
  BY DEF Boxes, Box, AllLists, Chain, BoxesOf, BoxOf, Contents, Path, Walk, ListsIn
<1>3. Boxes' = BoxesOf(memory', ListsIn(lists'))
  BY <1>2 DEF Boxes, Box, AllLists, Chain, BoxesOf, BoxOf, Contents, Path, Walk, ListsIn
<1> QED BY <1>2, <1>3

LEMMA ShelvesSound ==
  ASSUME ShelvesInv
  PROVE  ListsSound
<1> DEFINE S == ListsIn(lists)
<1>0. \A l : Chain(l) = Path(memory, l)
  BY ChainIsWalk DEF Path
<1>1. GoodLists(memory, S) /\ AllLists = S
  BY AllListsIn DEF ShelvesInv
<1>2. ASSUME NEW l \in S
      PROVE  ToSet(Path(memory, l)) = Nodes(memory, l)
  <2>1. DOMAIN Path(memory, l) = 1..l.size
    BY <1>1, NodesThere DEF GoodLists
  <2> QED BY <2>1 DEF ToSet, Nodes
<1> HIDE DEF S
<1>3. ASSUME NEW l \in S
      PROVE  /\ \A i \in 1..l.size : Path(memory, l)[i] \in DOMAIN memory
             /\ l.size > 0 => Path(memory, l)[l.size] = l.tail /\ memory[l.tail].next = NULL
             /\ \A i, j \in 1..l.size : i # j => Path(memory, l)[i] # Path(memory, l)[j]
  <2>1. Path(memory, l) \in [1..l.size -> DOMAIN memory] /\ GoodList(memory, l)
    BY <1>1, NodesThere DEF GoodLists
  <2> QED BY <2>1 DEF GoodList, Chained
<1>4. ASSUME NEW l \in S, NEW m \in S \ {l}
      PROVE  ToSet(Path(memory, l)) \cap ToSet(Path(memory, m)) = {}
  BY <1>1, <1>2 DEF GoodLists
<1>5. DOMAIN memory = UNION {ToSet(Path(memory, l)) : l \in S}
  <2>1. \A l \in S : Nodes(memory, l) \subseteq DOMAIN memory
    BY <1>1, NodesThere DEF GoodLists
  <2>2. UNION {ToSet(Path(memory, l)) : l \in S} = UNION {Nodes(memory, l) : l \in S}
    BY <1>2
  <2>3. \A a \in DOMAIN memory : \E l \in S : a \in Nodes(memory, l)
    BY <1>1 DEF GoodLists
  <2> HIDE DEF Nodes
  <2>4. DOMAIN memory = UNION {Nodes(memory, l) : l \in S}
    BY <2>1, <2>3
  <2> QED BY <2>2, <2>4
<1> QED BY <1>0, <1>1, <1>3, <1>4, <1>5 DEF ListsSound

LEMMA InitShelves ==
  ASSUME ListsInit
  PROVE  ShelvesInv /\ Abstract!ContainersInit
<1>1. lists = [k \in Letters |-> <<>>] /\ memory = <<>> /\ listReply = "none"
  BY DEF ListsInit
<1>2. Shelved(lists) /\ ListsIn(lists) = {}
  BY <1>1 DEF Shelved, ListsIn, ToSet
<1>3. DOMAIN memory = {} /\ memory = [a \in {} |-> memory[a]]
  BY <1>1
<1>4. GoodLists(memory, {})
  BY <1>3 DEF GoodLists, NodeTable
<1>5. Boxes = <<>>
  BY <1>2, BoxesIs DEF BoxesOf
<1> QED BY <1>1, <1>2, <1>4, <1>5 DEF ShelvesInv, Abstract!ContainersInit

\* nameexists finds the list with the name.
LEMMA NameExists ==
  ASSUME ListsAssumption, ShelvesInv, NEW n \in ListNames, Letter[n] \in Letters
  PROVE  LET k == Letter[n]
             i == nameexists(k, n)
         IN  IF i = 0 THEN \A l \in ListsIn(lists) : l.name # n
             ELSE i \in DOMAIN lists[k] /\ lists[k][i] \in ListsIn(lists) /\ lists[k][i].name = n
<1> DEFINE k == Letter[n]
           found == {i \in DOMAIN lists[k] : lists[k][i].name = n}
<1>0. Shelved(lists)
  BY DEF ShelvesInv
<1>1. DOMAIN lists[k] \subseteq Nat \ {0}
  BY <1>0 DEF Shelved
<1>2. CASE found = {}
  <2>1. nameexists(k, n) = 0
    BY <1>2 DEF nameexists
  <2>2. ASSUME NEW l \in ListsIn(lists), l.name = n PROVE FALSE
    <3>1. PICK m \in Letters : \E j \in DOMAIN lists[m] : l = lists[m][j]
      BY <1>0, InLists
    <3>2. PICK j \in DOMAIN lists[m] : l = lists[m][j]
      BY <3>1
    <3>3. m = k
      BY <1>0, <2>2, <3>2 DEF Shelved
    <3> QED BY <1>2, <2>2, <3>2, <3>3
  <2> QED BY <2>1, <2>2
<1>3. CASE found # {}
  <2>1. nameexists(k, n) = CHOOSE i \in found : \A j \in found : i <= j
    BY <1>3 DEF nameexists
  <2>2. \E i \in found : \A j \in found : i <= j
    <3>1. found \subseteq Nat
      BY <1>1
    <3> HIDE DEF found
    <3> QED BY <1>3, <3>1, Least
  <2>3. nameexists(k, n) \in found
    BY <2>1, <2>2
  <2> QED BY <1>0, <1>1, <2>3, InLists
<1> QED BY <1>2, <1>3

\* A list that is replaced, in the terms of the containers.
LEMMA ReplaceStep ==
  ASSUME ShelvesInv, NEW k \in Letters, NEW i \in DOMAIN lists[k], NEW l2 \in ListRecord,
         Replaced(memory, ListsIn(lists), lists[k][i], memory', l2),
         lists' = SetTo(lists, k, i, l2)
  PROVE  ShelvesInv' /\ Boxes' = Refill(Boxes, lists[k][i].name, Contents(memory', l2))
<1> DEFINE S == ListsIn(lists)
           l == lists[k][i]
<1>1. Shelved(lists) /\ GoodLists(memory, S) /\ l \in S
  BY InLists DEF ShelvesInv
<1>2. l2.name = l.name
  BY DEF Replaced
<1>3. Shelved(lists') /\ ListsIn(lists') = (S \ {l}) \cup {l2}
  BY <1>1, <1>2, SetList
<1>4. GoodLists(memory', (S \ {l}) \cup {l2})
  BY <1>1, ReplaceList
<1>5. BoxesOf(memory', (S \ {l}) \cup {l2}) = Refill(BoxesOf(memory, S), l.name, Contents(memory', l2))
  BY <1>1, BoxesReplaced
<1>6. ShelvesInv'
  BY <1>3, <1>4 DEF ShelvesInv
<1> QED BY <1>3, <1>5, <1>6, BoxesIs

LEMMA CreateStep ==
  ASSUME ListsAssumption, ShelvesInv, NEW n \in ListNames, NEW t \in Types, DoCreate(n, t)
  PROVE  ShelvesInv' /\ [Abstract!ContainersNext]_<<Boxes, listReply>>
<1> DEFINE k == Letter[n]
           S == ListsIn(lists)
<1>1. DOMAIN Boxes = {l.name : l \in S}
  BY BoxesIs, BoxesAre DEF ShelvesInv
<1>2. CASE Refuse
  <2>1. UNCHANGED <<lists, memory>> /\ listReply' = "invalid"
    BY <1>2 DEF Refuse, Answer
  <2>2. ShelvesInv' /\ Boxes' = Boxes
    BY <2>1, BoxesIs DEF ShelvesInv
  <2> QED BY <2>1, <2>2 DEF Abstract!ContainersNext, Abstract!Reject
<1>3. CASE /\ k \in Letters /\ nameexists(k, n) # 0
           /\ Answer("exists") /\ UNCHANGED <<lists, memory>>
  <2>1. ShelvesInv' /\ Boxes' = Boxes
    BY <1>3, BoxesIs DEF ShelvesInv
  <2>2. lists[k][nameexists(k, n)] \in S /\ lists[k][nameexists(k, n)].name = n
    BY <1>3, NameExists
  <2>3. n \in DOMAIN Boxes
    BY <1>1, <2>2
  <2> QED BY <1>3, <2>1, <2>3 DEF Abstract!ContainersNext, Abstract!Create, Answer
<1>4. CASE /\ k \in Letters /\ nameexists(k, n) = 0 /\ t \in {"stack", "queue"}
           /\ lists' = [lists EXCEPT ![k] = <<NewList(n, t)>> \o @]
           /\ Answer("created") /\ UNCHANGED memory
  <2>1. Shelved(lists) /\ GoodLists(memory, S) /\ \A l \in S : l.name # n
    BY <1>4, NameExists DEF ShelvesInv
  <2>2. NewList(n, t) \in ListRecord /\ GoodLists(memory, S \cup {NewList(n, t)})
    BY <1>4, <2>1, AddList
  <2>3. NewList(n, t).name = n
    BY DEF NewList
  <2>4. Shelved(lists') /\ ListsIn(lists') = S \cup {NewList(n, t)}
    <3>1. lists' = InFront(lists, k, NewList(n, t))
      BY <1>4 DEF InFront
    <3> DEFINE l2 == NewList(n, t)
    <3>2. /\ l2 \in ListRecord /\ Letter[l2.name] = k /\ k \in Letters /\ Shelved(lists)
          /\ \A l \in S : l.name # l2.name
      BY <1>4, <2>1, <2>2, <2>3
    <3> HIDE DEF l2, k
    <3>3. Shelved(InFront(lists, k, l2)) /\ ListsIn(InFront(lists, k, l2)) = S \cup {l2}
      BY <3>2, PushFront
    <3> QED BY <3>1, <3>3 DEF l2
  <2>5. Boxes' = AddBox(Boxes, n, t)
    <3> DEFINE l2 == NewList(n, t)
               B == BoxesOf(memory, S)
    <3>0. t \in {"stack", "queue"} /\ GoodLists(memory, S) /\ \A l \in S : l.name # n
      BY <1>4, <2>1
    <3> HIDE DEF S, k
    <3>1. BoxesOf(memory, S \cup {l2}) = AddBox(B, n, t)
      BY <3>0, BoxesAdded, Zenon
    <3>2. memory' = memory /\ ListsIn(lists') = S \cup {l2}
      BY <1>4, <2>4
    <3>3. Boxes = B
      BY BoxesIs DEF S
    <3> HIDE DEF l2, B
    <3>4. Boxes' = BoxesOf(memory', ListsIn(lists'))
      BY BoxesIs
    <3> QED BY <3>1, <3>2, <3>3, <3>4
  <2>6. ShelvesInv'
    BY <1>4, <2>2, <2>4 DEF ShelvesInv
  <2>7. n \notin DOMAIN Boxes
    BY <1>1, <2>1
  <2> QED BY <1>4, <2>5, <2>6, <2>7 DEF Abstract!ContainersNext, Abstract!Create, Answer, AddBox
<1> QED BY <1>2, <1>3, <1>4 DEF DoCreate

LEMMA PushStep ==
  ASSUME ListsAssumption, ShelvesInv, NEW n \in ListNames, NEW x \in Items, DoPush(n, x)
  PROVE  ShelvesInv' /\ [Abstract!ContainersNext]_<<Boxes, listReply>>
<1> DEFINE k == Letter[n]
           S == ListsIn(lists)
           i == nameexists(k, n)
           l == lists[k][i]
<1>1. /\ DOMAIN Boxes = {m.name : m \in S} /\ \A m \in S : Boxes[m.name] = BoxOf(memory, m)
      /\ Shelved(lists) /\ GoodLists(memory, S)
  BY BoxesIs, BoxesAre DEF ShelvesInv
<1>2. CASE Refuse
  <2>1. UNCHANGED <<lists, memory>> /\ listReply' = "invalid"
    BY <1>2 DEF Refuse, Answer
  <2>2. ShelvesInv' /\ Boxes' = Boxes
    BY <2>1, BoxesIs DEF ShelvesInv
  <2> QED BY <2>1, <2>2 DEF Abstract!ContainersNext, Abstract!Reject
<1>3. CASE /\ k \in Letters /\ i = 0
           /\ Answer("no such name") /\ UNCHANGED <<lists, memory>>
  <2>1. ShelvesInv' /\ Boxes' = Boxes
    BY <1>3, BoxesIs DEF ShelvesInv
  <2>2. n \notin DOMAIN Boxes
    BY <1>1, <1>3, NameExists
  <2> QED BY <1>3, <2>1, <2>2 DEF Abstract!ContainersNext, Abstract!Push, Answer
<1>4. CASE /\ k \in Letters /\ i # 0
           /\ \E a \in Addresses \ DOMAIN memory :
                 IF l.type = "stack" THEN Insert_Begin(k, i, x, a) ELSE Insert_End(k, i, x, a)
           /\ Answer("pushed")
  <2>0. PICK a \in Addresses \ DOMAIN memory :
           IF l.type = "stack" THEN Insert_Begin(k, i, x, a) ELSE Insert_End(k, i, x, a)
    BY <1>4
  <2>1. i \in DOMAIN lists[k] /\ l \in S /\ l.name = n /\ l \in ListRecord /\ l.size \in Nat
    BY <1>1, <1>4, NameExists DEF GoodLists, GoodList, ListRecord
  <2> HIDE DEF i, l
  <2>2. n \in DOMAIN Boxes /\ Boxes[n].kind = l.type /\ Boxes[n].contents = Contents(memory, l)
    <3>1. n \in DOMAIN Boxes /\ Boxes[n] = BoxOf(memory, l)
      BY <1>1, <2>1
    <3> QED BY <3>1 DEF BoxOf
  <2>3. CASE l.type = "stack"
    <3> DEFINE t  == IF l.size = 0 THEN a ELSE l.tail
               z  == l.size + 1
               l2 == Resized(l, z, t, a)
    <3>1. memory' = WithNode(memory, a, x, l.head) /\ lists' = SetTo(lists, k, i, l2)
      BY <2>0, <2>3 DEF Insert_Begin, NewNode, WithNode, SetTo, Resized, l
    <3>2. t \in Link /\ z \in Nat /\ a \in Link
      BY <2>1 DEF ListRecord, Link
    <3>3. /\ l2 \in ListRecord /\ l2.name = l.name /\ l2.type = l.type /\ l2.size = l.size + 1
          /\ l2.tail = (IF l.size = 0 THEN a ELSE l.tail) /\ l2.head = a
      <4> HIDE DEF t, z
      <4>1. /\ l2 \in ListRecord /\ l2.name = l.name /\ l2.type = l.type
            /\ l2.size = z /\ l2.tail = t /\ l2.head = a
        BY <2>1, <3>2 DEF ListRecord, Resized
      <4> QED BY <4>1 DEF t, z
    <3> HIDE DEF l2
    <3>4. /\ Replaced(memory, S, l, memory', l2)
          /\ Contents(memory', l2) = <<x>> \o Contents(memory, l)
      BY <1>1, <2>1, <3>1, <3>3, BeginList
    <3>5. ShelvesInv' /\ Boxes' = Refill(Boxes, n, <<x>> \o Contents(memory, l))
      BY <1>4, <2>1, <3>1, <3>3, <3>4, ReplaceStep DEF l
    <3> QED BY <1>4, <2>2, <2>3, <3>5 DEF Abstract!ContainersNext, Abstract!Push, Answer, Refill
  <2>4. CASE l.type # "stack"
    <3> DEFINE h  == IF l.size = 0 THEN a ELSE l.head
               z  == l.size + 1
               l2 == Resized(l, z, a, h)
    <3>1. /\ memory' = IF l.size = 0 THEN WithNode(memory, a, x, NULL)
                       ELSE Linked(WithNode(memory, a, x, NULL), l.tail, a)
          /\ lists' = SetTo(lists, k, i, l2)
      BY <2>0, <2>4 DEF Insert_End, NewNode, WithNode, Linked, SetTo, Resized, l
    <3>2. h \in Link /\ z \in Nat /\ a \in Link
      BY <2>1 DEF ListRecord, Link
    <3>3. /\ l2 \in ListRecord /\ l2.name = l.name /\ l2.type = l.type /\ l2.size = l.size + 1
          /\ l2.tail = a /\ l2.head = IF l.size = 0 THEN a ELSE l.head
      <4> HIDE DEF h, z
      <4>1. /\ l2 \in ListRecord /\ l2.name = l.name /\ l2.type = l.type
            /\ l2.size = z /\ l2.tail = a /\ l2.head = h
        <5> HIDE DEF l
        <5>1. l \in ListRecord
          BY <2>1 DEF l
        <5> QED BY <3>2, <5>1 DEF ListRecord, Resized
      <4> QED BY <4>1 DEF h, z
    <3> HIDE DEF l2
    <3>4. /\ Replaced(memory, S, l, memory', l2)
          /\ Contents(memory', l2) = Append(Contents(memory, l), x)
      BY <1>1, <2>1, <3>1, <3>3, EndList
    <3>5. ShelvesInv' /\ Boxes' = Refill(Boxes, n, Append(Contents(memory, l), x))
      BY <1>4, <2>1, <3>1, <3>3, <3>4, ReplaceStep, ZenonT(60) DEF l
    <3> QED BY <1>4, <2>2, <2>4, <3>5 DEF Abstract!ContainersNext, Abstract!Push, Answer, Refill
  <2> QED BY <2>3, <2>4
<1> QED BY <1>2, <1>3, <1>4 DEF DoPush

LEMMA PopStep ==
  ASSUME ListsAssumption, ShelvesInv, NEW n \in ListNames, DoPop(n)
  PROVE  ShelvesInv' /\ [Abstract!ContainersNext]_<<Boxes, listReply>>
<1> DEFINE k == Letter[n]
           S == ListsIn(lists)
           i == nameexists(k, n)
           l == lists[k][i]
<1>1. /\ DOMAIN Boxes = {m.name : m \in S} /\ \A m \in S : Boxes[m.name] = BoxOf(memory, m)
      /\ Shelved(lists) /\ GoodLists(memory, S)
  BY BoxesIs, BoxesAre DEF ShelvesInv
<1>2. CASE Refuse
  <2>1. UNCHANGED <<lists, memory>> /\ listReply' = "invalid"
    BY <1>2 DEF Refuse, Answer
  <2>2. ShelvesInv' /\ Boxes' = Boxes
    BY <2>1, BoxesIs DEF ShelvesInv
  <2> QED BY <2>1, <2>2 DEF Abstract!ContainersNext, Abstract!Reject
<1>3. CASE /\ k \in Letters /\ i = 0
           /\ Answer("no such name") /\ UNCHANGED <<lists, memory>>
  <2>1. ShelvesInv' /\ Boxes' = Boxes
    BY <1>3, BoxesIs DEF ShelvesInv
  <2>2. n \notin DOMAIN Boxes
    BY <1>1, <1>3, NameExists
  <2> QED BY <1>3, <2>1, <2>2 DEF Abstract!ContainersNext, Abstract!Pop, Answer
<1>4. ASSUME k \in Letters, i # 0
      PROVE  /\ i \in DOMAIN lists[k] /\ l \in S /\ l.name = n /\ l \in ListRecord /\ l.size \in Nat
             /\ n \in DOMAIN Boxes /\ Boxes[n].contents = Contents(memory, l)
  <2>1. i \in DOMAIN lists[k] /\ l \in S /\ l.name = n
    BY <1>4, NameExists
  <2> HIDE DEF l, i
  <2>2. l \in ListRecord /\ l.size \in Nat
    BY <1>1, <2>1 DEF GoodLists, GoodList, ListRecord
  <2>3. n \in DOMAIN Boxes /\ Boxes[n] = BoxOf(memory, l)
    BY <1>1, <2>1
  <2> QED BY <2>1, <2>2, <2>3 DEF BoxOf
<1>5. CASE /\ k \in Letters /\ i # 0 /\ l.size = 0
           /\ Answer("empty") /\ UNCHANGED <<lists, memory>>
  <2>1. ShelvesInv' /\ Boxes' = Boxes
    BY <1>5, BoxesIs DEF ShelvesInv
  <2>2. Contents(memory, l) = <<>>
    <3> HIDE DEF l
    <3>1. Contents(memory, l) \in Seq(Items) /\ Len(Contents(memory, l)) = 0
      BY <1>1, <1>4, <1>5, ContentsOf DEF GoodLists
    <3> QED BY <3>1, EmptySeq
  <2> QED BY <1>4, <1>5, <2>1, <2>2 DEF Abstract!ContainersNext, Abstract!Pop, Answer
<1>6. CASE /\ k \in Letters /\ i # 0 /\ l.size # 0
           /\ Answer(memory[l.head].data) /\ Remove_Begin(k, i)
  <2> DEFINE h  == IF l.size = 1 THEN NULL ELSE memory[l.head].next
             t  == IF l.size = 1 THEN NULL ELSE l.tail
             z  == l.size - 1
             l2 == Resized(l, z, t, h)
  <2>1. memory' = Without(memory, l.head) /\ lists' = SetTo(lists, k, i, l2)
    BY <1>6 DEF Remove_Begin, Without, SetTo, Resized
  <2>3. l \in S /\ l.name = n /\ i \in DOMAIN lists[k] /\ l \in ListRecord /\ l.size \in Nat
        /\ n \in DOMAIN Boxes /\ Boxes[n].contents = Contents(memory, l)
    BY <1>4, <1>6
  <2> HIDE DEF l, i
  <2>4. /\ l2 \in ListRecord /\ l2.name = l.name /\ l2.type = l.type /\ l2.size = l.size - 1
        /\ l2.tail = (IF l.size = 1 THEN NULL ELSE l.tail)
        /\ l2.head = IF l.size = 1 THEN NULL ELSE memory[l.head].next
    <3>1. l.head \in DOMAIN memory /\ memory[l.head] \in [data : Items, next : Link]
      <4>1. /\ Path(memory, l) \in [1..l.size -> DOMAIN memory] /\ Chained(memory, Path(memory, l), l)
            /\ NodeTable(memory)
        BY <1>1, <2>3, NodesThere DEF GoodLists, GoodList
      <4>2. 1 \in 1..l.size /\ l.size > 0
        BY <1>6, <2>3
      <4> QED BY <4>1, <4>2 DEF Chained, Follows, NodeTable
    <3>2. h \in Link /\ t \in Link /\ z \in Nat
      BY <1>6, <2>3, <3>1 DEF ListRecord, Link
    <3> HIDE DEF h, t, z
    <3>3. /\ l2 \in ListRecord /\ l2.name = l.name /\ l2.type = l.type
          /\ l2.size = z /\ l2.tail = t /\ l2.head = h
      BY <2>3, <3>2, ListFields, SMTT(30)
    <3> QED BY <3>3 DEF h, t, z
  <2> HIDE DEF l2
  <2>5. /\ Replaced(memory, S, l, memory', l2)
        /\ Contents(memory, l) # <<>> /\ memory[l.head].data = Head(Contents(memory, l))
        /\ Contents(memory', l2) = Tail(Contents(memory, l))
    BY <1>1, <1>6, <2>1, <2>3, <2>4, RemoveList
  <2>6. ShelvesInv' /\ Boxes' = Refill(Boxes, n, Tail(Contents(memory, l)))
    BY <1>6, <2>1, <2>3, <2>4, <2>5, ReplaceStep DEF l
  <2> QED BY <1>6, <2>3, <2>5, <2>6 DEF Abstract!ContainersNext, Abstract!Pop, Answer, Refill
<1> QED BY <1>2, <1>3, <1>5, <1>6 DEF DoPop

LEMMA ListsSteps ==
  ASSUME ListsAssumption, ShelvesInv, [ListsNext]_listVars
  PROVE  ShelvesInv' /\ [Abstract!ContainersNext]_<<Boxes, listReply>>
<1>1. CASE UNCHANGED listVars
  BY <1>1, BoxesIs DEF ShelvesInv, listVars
<1>2. CASE ListsNext
  BY <1>2, CreateStep, PushStep, PopStep DEF ListsNext
<1> QED BY <1>1, <1>2

LEMMA ListsInvariance == ListsSpec => []ShelvesInv
<1>1. ListsInit => ShelvesInv
  BY InitShelves
<1>2. ShelvesInv /\ [ListsNext]_listVars => ShelvesInv'
  BY ListsAssumption, ListsSteps
<1> QED BY <1>1, <1>2, PTL DEF ListsSpec

\* The linked lists of the interpreter stay sound, wherever new puts the
\* nodes (StacksQueues.cpp:69-105).
THEOREM ListsStaySound == ListsSpec => []ListsSound
<1>1. ShelvesInv => ListsSound
  BY ShelvesSound
<1> QED BY <1>1, ListsInvariance, PTL

\* Every command does to the named stacks and queues what the opening comment
\* of the file says (StacksQueues.cpp:5-24), for all addresses, values and names.
THEOREM ListsRefineContainers == ListsSpec => RefinesContainers
<1>1. ListsInit => Abstract!ContainersInit
  BY InitShelves
<1>2. ShelvesInv /\ [ListsNext]_listVars => [Abstract!ContainersNext]_Abstract!containerVars
  BY ListsAssumption, ListsSteps DEF Abstract!containerVars
<1> QED BY <1>1, <1>2, ListsInvariance, PTL DEF ListsSpec, RefinesContainers, Abstract!ContainersSpec

------------------------------------------------------------------------------

(***************************************************************************)
(* The cat of Project1 (Copycat.tla).                                      *)
(***************************************************************************)

(***************************************************************************)
(* FlattenSeq of a sequence to which one more is appended.                 *)
(***************************************************************************)
\* g is what FlattenSeq makes of the first n sequences of s.
Flattened(s, n, g) == g = [i \in 1..n |-> IF i = 1 THEN s[i] ELSE g[i - 1] \o s[i]]

LEMMA FlattenedOne ==
  ASSUME NEW s, NEW n \in Nat, NEW g, NEW h, Flattened(s, n, g), Flattened(s, n, h)
  PROVE  g = h
<1> DEFINE T == {k \in Nat : \A i \in 1..n : i <= k => g[i] = h[i]}
<1>1. \A i \in 1..n : /\ g[i] = IF i = 1 THEN s[i] ELSE g[i - 1] \o s[i]
                      /\ h[i] = IF i = 1 THEN s[i] ELSE h[i - 1] \o s[i]
  BY DEF Flattened
<1>2. g = [i \in 1..n |-> g[i]] /\ h = [i \in 1..n |-> h[i]]
  BY DEF Flattened
<1>3. 0 \in T
  OBVIOUS
<1>4. ASSUME NEW k \in Nat, k \in T PROVE k + 1 \in T
  <2> SUFFICES ASSUME NEW i \in 1..n, i = k + 1
               PROVE  g[i] = h[i]
    BY <1>4
  <2>1. i = 1 \/ g[i - 1] = h[i - 1]
    BY <1>4
  <2> QED BY <1>1, <2>1
<1>5. n \in T
  <2> HIDE DEF T
  <2> QED BY <1>3, <1>4, Induct
<1> QED BY <1>2, <1>5

LEMMA FlattenIs ==
  ASSUME NEW X, NEW s \in Seq(X), s # <<>>, NEW g, Flattened(s, Len(s), g)
  PROVE  FlattenSeq(s) = g[Len(s)]
<1> DEFINE f == CHOOSE h : Flattened(s, Len(s), h)
<1>1. Len(s) \in Nat /\ Len(s) # 0
  BY EmptySeq
<1>2. Flattened(s, Len(s), f)
  BY Zenon
<1>3. FlattenSeq(s) = f[Len(s)]
  BY <1>1, Zenon DEF FlattenSeq, Flattened
<1> HIDE DEF f
<1> QED BY <1>1, <1>2, <1>3, FlattenedOne

LEMMA FlattenedExists ==
  ASSUME NEW X, NEW s \in Seq(Seq(X))
  PROVE  \E g \in [1..Len(s) -> Seq(X)] : Flattened(s, Len(s), g)
<1> DEFINE G(n) == \E g \in [1..n -> Seq(X)] : Flattened(s, n, g)
           T == {n \in Nat : n <= Len(s) => G(n)}
<1>0. Len(s) \in Nat /\ \A i \in 1..Len(s) : s[i] \in Seq(X)
  OBVIOUS
<1>1. 0 \in T
  <2>1. Flattened(s, 0, <<>>) /\ <<>> \in [1..0 -> Seq(X)]
    BY DEF Flattened
  <2> QED BY <2>1
<1>2. ASSUME NEW n \in Nat, n \in T PROVE n + 1 \in T
  <2> SUFFICES ASSUME n + 1 <= Len(s) PROVE G(n + 1)
    OBVIOUS
  <2>1. PICK g \in [1..n -> Seq(X)] : Flattened(s, n, g)
    BY <1>0, <1>2
  <2> DEFINE e == IF n = 0 THEN s[n + 1] ELSE g[n] \o s[n + 1]
             h == [i \in 1..n + 1 |-> IF i = n + 1 THEN e ELSE g[i]]
  <2>2. n + 1 \in 1..Len(s) /\ s[n + 1] \in Seq(X)
    BY <1>0
  <2>3. e \in Seq(X)
    <3>1. n # 0 => g[n] \in Seq(X)
      OBVIOUS
    <3> QED BY <2>2, <3>1, ConcatProperties
  <2>4. h \in [1..n + 1 -> Seq(X)]
    <3> HIDE DEF e
    <3> QED BY <2>3
  <2>5. \A i \in 1..n : g[i] = IF i = 1 THEN s[i] ELSE g[i - 1] \o s[i]
    BY <2>1 DEF Flattened
  <2>6. ASSUME NEW i \in 1..n + 1
        PROVE  h[i] = IF i = 1 THEN s[i] ELSE h[i - 1] \o s[i]
    <3>1. CASE i = n + 1
      <4>1. n # 0 => h[n] = g[n] /\ i - 1 = n
        BY <3>1
      <4> QED BY <3>1, <4>1
    <3>2. CASE i # n + 1
      <4>1. i \in 1..n /\ h[i] = g[i] /\ (i # 1 => h[i - 1] = g[i - 1])
        BY <3>2
      <4> QED BY <2>5, <4>1
    <3> QED BY <3>1, <3>2
  <2>7. Flattened(s, n + 1, h)
    <3>1. h = [i \in 1..n + 1 |-> h[i]]
      OBVIOUS
    <3> HIDE DEF h
    <3>2. [i \in 1..n + 1 |-> h[i]] = [i \in 1..n + 1 |-> IF i = 1 THEN s[i] ELSE h[i - 1] \o s[i]]
      BY <2>6
    <3> QED BY <3>1, <3>2 DEF Flattened
  <2> QED BY <2>4, <2>7
<1>3. Len(s) \in T
  <2> HIDE DEF T
  <2> QED BY <1>0, <1>1, <1>2, Induct
<1> QED BY <1>0, <1>3

LEMMA FlattenAppend ==
  ASSUME NEW X, NEW s \in Seq(Seq(X)), NEW u \in Seq(X)
  PROVE  /\ FlattenSeq(<<>>) = <<>>
         /\ FlattenSeq(s) \in Seq(X)
         /\ FlattenSeq(Append(s, u)) = FlattenSeq(s) \o u
<1> DEFINE t == Append(s, u)
           n == Len(s)
<1>0. FlattenSeq(<<>>) = <<>>
  BY DEF FlattenSeq
<1>1. /\ n \in Nat /\ t \in Seq(Seq(X)) /\ t # <<>> /\ Len(t) = n + 1
      /\ \A i \in 1..n : t[i] = s[i]
      /\ t[n + 1] = u
  BY AppendProperties
<1> HIDE DEF t
<1>2. PICK g \in [1..n + 1 -> Seq(X)] : Flattened(t, n + 1, g)
  BY <1>1, FlattenedExists
<1>3. FlattenSeq(t) = g[n + 1]
  BY <1>1, <1>2, FlattenIs
<1>4. \A i \in 1..n + 1 : g[i] = IF i = 1 THEN t[i] ELSE g[i - 1] \o t[i]
  BY <1>2 DEF Flattened
<1>5. CASE s = <<>>
  <2>1. n = 0 /\ g[n + 1] = u
    BY <1>1, <1>4, <1>5
  <2>2. FlattenSeq(s) = <<>> /\ <<>> \in Seq(X) /\ <<>> \o u = u
    BY <1>0, <1>5, ConcatEmptySeq, EmptySeq
  <2>3. FlattenSeq(t) = u
    BY <1>3, <2>1
  <2> HIDE DEF n
  <2> QED BY <1>0, <2>2, <2>3 DEF t
<1>6. CASE s # <<>>
  <2>0. n # 0
    BY <1>6, EmptySeq
  <2> DEFINE h == [i \in 1..n |-> g[i]]
  <2>1. Flattened(s, n, h)
    <3>1. \A i \in 1..n : h[i] = IF i = 1 THEN s[i] ELSE h[i - 1] \o s[i]
      <4> TAKE i \in 1..n
      <4>1. i \in 1..n + 1 /\ h[i] = g[i] /\ t[i] = s[i] /\ (i # 1 => h[i - 1] = g[i - 1])
        BY <1>1
      <4> QED BY <1>4, <4>1
    <3>2. h = [i \in 1..n |-> h[i]]
      OBVIOUS
    <3> HIDE DEF h
    <3>3. [i \in 1..n |-> h[i]] = [i \in 1..n |-> IF i = 1 THEN s[i] ELSE h[i - 1] \o s[i]]
      BY <3>1
    <3> QED BY <3>2, <3>3 DEF Flattened
  <2>2. FlattenSeq(s) = g[n]
    <3>1. h[n] = g[n]
      BY <1>1, <2>0
    <3> HIDE DEF h
    <3> QED BY <1>6, <2>1, <3>1, FlattenIs
  <2>3. g[n + 1] = g[n] \o u /\ g[n] \in Seq(X)
    <3>1. n + 1 \in 1..n + 1 /\ (n + 1) - 1 = n /\ n + 1 # 1 /\ n \in 1..n + 1
      BY <1>1, <2>0
    <3> HIDE DEF n
    <3> QED BY <1>1, <1>4, <3>1
  <2> QED BY <1>0, <1>3, <2>2, <2>3 DEF t
<1> QED BY <1>5, <1>6

(***************************************************************************)
(* A sequence that is another one without some of its elements.            *)
(***************************************************************************)
LEMMA SparseEmpty ==
  ASSUME NEW t
  PROVE  Sparse(<<>>, t)
<1>1. {} \in SUBSET (1..Len(t)) /\ Cardinality({}) = 0 /\ Len(<<>>) = 0
  BY FS_EmptySet
<1> QED BY <1>1 DEF Sparse

\* Both get the same at their end.
LEMMA SparseBoth ==
  ASSUME NEW X, NEW s \in Seq(X), NEW t \in Seq(X), NEW u \in Seq(X), Sparse(s, t)
  PROVE  Sparse(s \o u, t \o u)
<1> DEFINE n == Len(t)
           m == Len(s)
           d == Len(u)
<1>1. /\ n \in Nat /\ m \in Nat /\ d \in Nat
      /\ Len(s \o u) = m + d /\ Len(t \o u) = n + d
      /\ \A i \in 1..m + d : (s \o u)[i] = IF i <= m THEN s[i] ELSE u[i - m]
      /\ \A i \in 1..n + d : (t \o u)[i] = IF i <= n THEN t[i] ELSE u[i - n]
  BY ConcatProperties
<1> HIDE DEF m, d
<1>2. PICK P \in SUBSET (1..n) : /\ Cardinality(P) = m
                                 /\ \A p \in P : t[p] = s[Cardinality({q \in P : q <= p})]
  BY DEF Sparse, m
<1> HIDE DEF n
<1>3. IsFiniteSet(P)
  <2>1. IsFiniteSet(1..n)
    BY <1>1, FS_Interval
  <2> QED BY <2>1, FS_Subset
<1> DEFINE Q == P \cup (n + 1..n + d)
<1>4. ASSUME NEW k \in 0..d
      PROVE  IsFiniteSet(P \cup (n + 1..n + k)) /\ Cardinality(P \cup (n + 1..n + k)) = m + k
  <2>1. IsFiniteSet(n + 1..n + k) /\ Cardinality(n + 1..n + k) = k
    <3>1. n + 1 \in Int /\ n + k \in Int /\ (n + k) - (n + 1) + 1 = k /\ (n + 1 > n + k => k = 0)
      BY <1>1
    <3> DEFINE b == n + k
               c == n + 1
    <3> HIDE DEF b, c
    <3> QED BY <3>1, FS_Interval DEF b, c
  <2>2. P \cap (n + 1..n + k) = {}
    BY <1>1
  <2> DEFINE I == n + 1..n + k
  <2>3. Cardinality(P \cap I) = 0
    BY <2>2, FS_EmptySet
  <2> HIDE DEF I
  <2>4. IsFiniteSet(I) /\ Cardinality(I) = k
    BY <2>1 DEF I
  <2>5. IsFiniteSet(P \cup I) /\ Cardinality(P \cup I) = Cardinality(P) + Cardinality(I) - Cardinality(P \cap I)
    BY <1>3, <2>4, FS_Union
  <2> QED BY <1>1, <1>2, <2>3, <2>4, <2>5 DEF I
<1>5. Q \in SUBSET (1..n + d) /\ Cardinality(Q) = m + d
  <2>1. Q \in SUBSET (1..n + d)
    <3>1. n \in Nat /\ d \in Nat
      BY <1>1
    <3> QED BY ONLY <3>1, P \in SUBSET (1..n) DEF Q
  <2>2. d \in 0..d
    BY <1>1
  <2> QED BY <1>4, <2>1, <2>2
<1>6. ASSUME NEW p \in Q
      PROVE  (t \o u)[p] = (s \o u)[Cardinality({q \in Q : q <= p})]
  <2>1. CASE p \in P
    <3> DEFINE R == {q \in P : q <= p}
    <3>1. {q \in Q : q <= p} = R
      BY <1>1, <2>1
    <3>2. IsFiniteSet(R) /\ Cardinality(R) <= m /\ Cardinality(R) \in Nat
      BY <1>2, <1>3, FS_Subset, FS_CardinalityType
    <3>3. Cardinality(R) # 0
      <4>1. p \in R
        BY <1>1, <2>1
      <4> QED BY <3>2, <4>1, FS_EmptySet
    <3>4. t[p] = s[Cardinality(R)]
      BY <1>2, <2>1
    <3>5. p \in 1..n + d /\ p <= n
      BY <1>1, <2>1
    <3> HIDE DEF R, Q
    <3>6. (s \o u)[Cardinality(R)] = s[Cardinality(R)]
      BY <1>1, <3>2, <3>3
    <3> QED BY <1>1, <3>1, <3>4, <3>5, <3>6
  <2>2. CASE p \notin P
    <3>1. PICK k \in 1..d : p = n + k
      <4>1. n \in Nat /\ d \in Nat /\ p \in n + 1..n + d
        BY <1>1, <2>2
      <4>2. p - n \in 1..d /\ p = n + (p - n)
        BY ONLY <4>1
      <4> QED BY ONLY <4>2
    <3>2. {q \in Q : q <= p} = P \cup (n + 1..n + k)
      <4>1. \A q \in n + 1..n + d : q <= n + k <=> q \in n + 1..n + k
        BY <1>1
      <4>2. \A q \in P : q <= n + k
        BY <1>1
      <4>3. n + 1..n + k \subseteq n + 1..n + d
        BY <1>1
      <4> QED BY <3>1, <4>1, <4>2, <4>3
    <3>3. Cardinality({q \in Q : q <= p}) = m + k
      <4>1. k \in 0..d
        BY <1>1
      <4> QED BY <1>4, <3>2, <4>1
    <3> HIDE DEF Q
    <3>4. p \in 1..n + d /\ ~(p <= n) /\ p - n = k
      BY <1>1, <3>1
    <3>5. m + k \in 1..m + d /\ ~(m + k <= m) /\ (m + k) - m = k
      BY <1>1
    <3>6. (t \o u)[p] = u[k]
      BY <1>1, <3>4
    <3>7. (s \o u)[m + k] = u[k]
      BY <1>1, <3>5
    <3> QED BY <3>3, <3>6, <3>7
  <2> QED BY <2>1, <2>2
<1> HIDE DEF Q
<1> QED BY <1>1, <1>5, <1>6 DEF Sparse

\* The other one gets more.
LEMMA SparseMore ==
  ASSUME NEW X, NEW s \in Seq(X), NEW t \in Seq(X), NEW u \in Seq(X), Sparse(s, t)
  PROVE  Sparse(s, t \o u)
<1>1. /\ Len(t) \in Nat /\ Len(u) \in Nat /\ Len(t \o u) = Len(t) + Len(u)
      /\ \A i \in 1..Len(t) : (t \o u)[i] = t[i]
  BY ConcatProperties
<1>2. PICK P \in SUBSET (1..Len(t)) : /\ Cardinality(P) = Len(s)
                                      /\ \A p \in P : t[p] = s[Cardinality({q \in P : q <= p})]
  BY DEF Sparse
<1>3. P \in SUBSET (1..Len(t \o u))
  BY <1>1
<1>4. \A p \in P : (t \o u)[p] = s[Cardinality({q \in P : q <= p})]
  BY <1>1, <1>2
<1> QED BY <1>2, <1>3, <1>4 DEF Sparse

LEMMA SparseSame ==
  ASSUME NEW X, NEW t \in Seq(X)
  PROVE  Sparse(t, t)
<1>1. Sparse(<<>>, <<>>) /\ <<>> \in Seq(X)
  BY SparseEmpty, EmptySeq
<1>2. Sparse(<<>> \o t, <<>> \o t)
  BY <1>1, SparseBoth
<1> QED BY <1>2, ConcatEmptySeq

(***************************************************************************)
(* What the outputs should have.                                           *)
(***************************************************************************)
Outs == {"stdout", "outfile"}
Byte == (DOMAIN Length) \X Nat

\* The first j arguments.
Share(o, k) == IF Goes(k) = o THEN Part(k) ELSE <<>>
Upto(o, j)  == FlattenSeq([k \in 1..j |-> Share(o, k)])
Valid(j)    == \A k \in 1..j : argv[k] \in DOMAIN Length
FileIn(j)   == \E k \in 1..j : argv[k] # Dash
StdinLeft(j) == IF \E k \in 1..j : argv[k] = Dash THEN <<>> ELSE Bytes(Dash)

LEMMA BytesSeq ==
  ASSUME CopyAssumption, NEW f \in DOMAIN Length
  PROVE  Bytes(f) \in Seq(Byte)
<1>1. Length[f] \in Nat
  BY DEF CopyAssumption
<1>2. Bytes(f) \in [1..Length[f] -> Byte]
  <2>1. \A k \in 1..Length[f] : <<f, k>> \in Byte
    <3>1. 1..Length[f] \subseteq Nat
      BY <1>1
    <3> QED BY <3>1, Zenon DEF Byte
  <2> QED BY <2>1 DEF Bytes
<1> QED BY <1>1, <1>2, SeqDef

LEMMA PartSeq ==
  ASSUME CopyAssumption
  PROVE  \A o, k : Part(k) \in Seq(Byte) /\ Share(o, k) \in Seq(Byte)
<1>1. <<>> \in Seq(Byte)
  BY EmptySeq
<1>2. ASSUME NEW k PROVE Part(k) \in Seq(Byte)
  <2>1. CASE argv[k] \in DOMAIN Length
    BY <1>1, <2>1, BytesSeq DEF Part
  <2>2. CASE argv[k] \notin DOMAIN Length
    BY <1>1, <2>2 DEF Part
  <2> QED BY <2>1, <2>2
<1> QED BY <1>1, <1>2 DEF Share

LEMMA UptoStep ==
  ASSUME CopyAssumption, NEW o
  PROVE  /\ Upto(o, 0) = <<>>
         /\ \A j \in Nat : /\ Upto(o, j) \in Seq(Byte)
                           /\ Upto(o, j + 1) = Upto(o, j) \o Share(o, j + 1)
<1>1. Upto(o, 0) = <<>>
  <2>1. [k \in 1..0 |-> Share(o, k)] = <<>>
    OBVIOUS
  <2> QED BY <2>1, FlattenAppend, EmptySeq DEF Upto
<1>2. ASSUME NEW j \in Nat
      PROVE  Upto(o, j) \in Seq(Byte) /\ Upto(o, j + 1) = Upto(o, j) \o Share(o, j + 1)
  <2> DEFINE s == [k \in 1..j |-> Share(o, k)]
             t == [k \in 1..j + 1 |-> Share(o, k)]
             u == Share(o, j + 1)
  <2>1. s \in [1..j -> Seq(Byte)] /\ t \in [1..j + 1 -> Seq(Byte)] /\ u \in Seq(Byte)
    BY PartSeq
  <2>2. s \in Seq(Seq(Byte)) /\ t \in Seq(Seq(Byte)) /\ Len(s) = j /\ Len(t) = j + 1
    <3> HIDE DEF s, t
    <3>1. j + 1 \in Nat
      OBVIOUS
    <3>2. s \in Seq(Seq(Byte)) /\ t \in Seq(Seq(Byte))
      BY <2>1, <3>1, SeqDef
    <3> QED BY <2>1, <3>1, <3>2, LenProperties
  <2>3. (\A k \in 1..j : t[k] = s[k]) /\ t[j + 1] = u
    OBVIOUS
  <2> HIDE DEF s, t, u
  <2>4. t = Append(s, u)
    <3>1. /\ Append(s, u) \in Seq(Seq(Byte)) /\ Len(Append(s, u)) = j + 1
          /\ \A k \in 1..j : Append(s, u)[k] = s[k]
          /\ Append(s, u)[j + 1] = u
      BY <2>1, <2>2, AppendProperties
    <3>2. \A k \in 1..Len(t) : t[k] = Append(s, u)[k]
      BY <2>2, <2>3, <3>1
    <3> QED BY <2>2, <3>1, <3>2, SeqEqual
  <2> QED BY <2>1, <2>2, <2>4, FlattenAppend DEF Upto, s, t, u
<1> QED BY <1>1, <1>2

\* The rest comes after the first arguments.
LEMMA UptoPrefix ==
  ASSUME CopyAssumption, NEW o, NEW n \in Nat, NEW j \in 0..n
  PROVE  \E u \in Seq(Byte) : Upto(o, n) = Upto(o, j) \o u
<1> DEFINE T == {d \in Nat : \E u \in Seq(Byte) : Upto(o, j + d) = Upto(o, j) \o u}
<1>1. 0 \in T
  <2>1. Upto(o, j) = Upto(o, j) \o <<>> /\ <<>> \in Seq(Byte)
    BY UptoStep, ConcatEmptySeq, EmptySeq
  <2>2. j + 0 = j
    OBVIOUS
  <2>3. Upto(o, j + 0) = Upto(o, j) \o <<>>
    BY <2>1, <2>2
  <2> QED BY <2>1, <2>3
<1>2. ASSUME NEW d \in Nat, d \in T PROVE d + 1 \in T
  <2>1. PICK u \in Seq(Byte) : Upto(o, j + d) = Upto(o, j) \o u
    BY <1>2
  <2>2. j + d \in Nat /\ j \in Nat /\ j + (d + 1) = (j + d) + 1
    OBVIOUS
  <2> DEFINE w == Share(o, (j + d) + 1)
  <2>3. Upto(o, (j + d) + 1) = (Upto(o, j) \o u) \o w
    BY <2>1, <2>2, UptoStep
  <2>4. w \in Seq(Byte) /\ u \o w \in Seq(Byte) /\ Upto(o, j) \in Seq(Byte)
    BY <2>2, PartSeq, ConcatProperties, UptoStep
  <2> HIDE DEF w
  <2>5. (Upto(o, j) \o u) \o w = Upto(o, j) \o (u \o w)
    BY <2>4, ConcatAssociative, SMTT(30)
  <2>6. Upto(o, j + (d + 1)) = Upto(o, j) \o (u \o w)
    BY <2>2, <2>3, <2>5
  <2>7. d + 1 \in Nat
    OBVIOUS
  <2> DEFINE v == u \o w
  <2>8. v \in Seq(Byte) /\ Upto(o, j + (d + 1)) = Upto(o, j) \o v
    BY <2>4, <2>6
  <2> HIDE DEF v
  <2> QED BY <2>7, <2>8
<1>3. n - j \in T
  <2> HIDE DEF T
  <2> QED BY <1>1, <1>2, Induct
<1>4. j + (n - j) = n
  OBVIOUS
<1> QED BY <1>3, <1>4

ArgvOK == argv \in Seq(ToSet(argv))

LEMMA ExpectedIs ==
  ASSUME CopyAssumption, ArgvOK, NEW o \in Outs
  PROVE  /\ Len(argv) \in Nat
         /\ Expected(o) \in Seq(Byte)
         /\ Len(argv) # 0 /\ Valid(Len(argv)) => Expected(o) = Upto(o, Len(argv))
         /\ Len(argv) = 0 => Expected(o) = IF o = fdo THEN Bytes(Dash) ELSE <<>>
<1>1. Len(argv) \in Nat /\ DOMAIN argv = 1..Len(argv)
  BY LenProperties DEF ArgvOK
<1>2. FromArgs(o) = Upto(o, Len(argv))
  BY DEF FromArgs, Upto, Share
<1>3. Bytes(Dash) \in Seq(Byte) /\ <<>> \in Seq(Byte) /\ FromArgs(o) \in Seq(Byte)
  BY <1>1, <1>2, BytesSeq, EmptySeq, UptoStep DEF CopyAssumption
<1>4. Expected(o) \in Seq(Byte)
  BY <1>3 DEF Expected
<1>5. ASSUME Len(argv) # 0, Valid(Len(argv))
      PROVE  Expected(o) = Upto(o, Len(argv))
  <2>1. 1 \in DOMAIN argv /\ argv[1] \in DOMAIN Length
    BY <1>1, <1>5 DEF Valid
  <2>2. ToSet(argv) \cap DOMAIN Length # {}
    BY <2>1 DEF ToSet
  <2> QED BY <1>2, <2>2 DEF Expected
<1>6. ASSUME Len(argv) = 0
      PROVE  Expected(o) = IF o = fdo THEN Bytes(Dash) ELSE <<>>
  <2>1. ToSet(argv) = {}
    BY <1>1, <1>6 DEF ToSet
  <2> QED BY <2>1 DEF Expected
<1> QED BY <1>1, <1>4, <1>5, <1>6

\* What is right after some of the arguments is in order in the end.
LEMMA SparseExpected ==
  ASSUME CopyAssumption, ArgvOK, NEW o \in Outs, NEW s \in Seq(Byte), NEW j \in 0..Len(argv),
         Valid(j), Sparse(s, Upto(o, j))
  PROVE  Sparse(s, Expected(o))
<1>1. Len(argv) \in Nat /\ DOMAIN argv = 1..Len(argv) /\ j \in Nat
  BY LenProperties DEF ArgvOK
<1>2. CASE ToSet(argv) \cap DOMAIN Length # {}
  <2>1. Expected(o) = Upto(o, Len(argv))
    BY <1>2 DEF Expected, FromArgs, Upto, Share
  <2>2. PICK u \in Seq(Byte) : Upto(o, Len(argv)) = Upto(o, j) \o u
    BY <1>1, UptoPrefix
  <2>3. Upto(o, j) \in Seq(Byte)
    BY <1>1, UptoStep
  <2> QED BY <2>1, <2>2, <2>3, SparseMore
<1>3. CASE ToSet(argv) \cap DOMAIN Length = {}
  <2>1. j = 0
    <3> SUFFICES ASSUME j # 0 PROVE FALSE
      OBVIOUS
    <3>1. 1 \in 1..j /\ 1 \in DOMAIN argv
      BY <1>1
    <3>2. argv[1] \in DOMAIN Length /\ argv[1] \in ToSet(argv)
      BY <3>1 DEF Valid, ToSet
    <3> QED BY <1>3, <3>2
  <2>2. Sparse(s, <<>>)
    BY <2>1, UptoStep
  <2>3. Len(s) = 0
    <3>1. PICK P \in SUBSET (1..Len(<<>>)) : Cardinality(P) = Len(s)
      BY <2>2 DEF Sparse
    <3>2. P = {}
      BY <3>1
    <3> QED BY <3>1, <3>2, FS_EmptySet
  <2>4. s = <<>>
    BY <2>3, EmptySeq
  <2> QED BY <2>4, SparseEmpty
<1> QED BY <1>2, <1>3

(***************************************************************************)
(* The inductive invariant.                                                *)
(***************************************************************************)
CopyTyped ==
    /\ ArgvOK /\ bvalue \in Nat /\ oflag \in BOOLEAN /\ lost \in BOOLEAN
    /\ argn \in Nat \ {0} /\ opened \in BOOLEAN
    /\ files \in [Outs -> Seq(Byte)] /\ fdout \in Outs
    /\ tail \in Seq(Byte) /\ stdin \in Seq(Byte) /\ wbuf \in Seq(Byte)
    /\ copy \in {"options", "loop", "read", "write", "ended", "error"}

\* Of t has come s, complete unless a write has failed.
Got(s, t, failed) == Sparse(s, t) /\ (~failed => s = t)

\* Before argument j, and while the input of argument j is copied; after the
\* last argument the input is the standard input.
LoopOf(j, fs, in, op, wb, l) ==
    /\ j <= Len(argv) + 1 /\ Valid(j - 1)
    /\ in = StdinLeft(j - 1) /\ (op <=> FileIn(j - 1)) /\ wb = <<>>
    /\ \A o \in Outs : Got(fs[o], Upto(o, j - 1), l)

\* Once that input is at its end.
Target(o, j) == IF j <= Len(argv) THEN Upto(o, j) ELSE Expected(o)

ArgOf(j, src, dst, tl, in, op) ==
    /\ Valid(j) /\ src = argv[j] /\ dst = Goes(j) /\ (op <=> FileIn(j))
    /\ in = IF src = Dash THEN tl ELSE StdinLeft(j)

OutOf(j, fs, dst, rest, l) ==
    /\ \A o \in Outs \ {dst} : Got(fs[o], Target(o, j), l)
    /\ \E t \in Seq(Byte) : Got(fs[dst], t, l) /\ t \o rest = Target(dst, j)

AtLoop == LoopOf(argn, files, stdin, opened, wbuf, lost)
AtCopy == /\ argn <= Len(argv) => ArgOf(argn, fdin, fdout, tail, stdin, opened)
          /\ OutOf(argn, files, fdout, wbuf \o tail, lost)

\* With a buffer of 0 bytes nothing is copied.
CopyInv ==
    /\ CopyTyped
    /\ bvalue = 0 => (\A o \in Outs : files[o] = <<>>) /\ copy # "write"
    /\ bvalue > 0 =>
          /\ copy \in {"options", "loop"} => AtLoop
          /\ copy = "read" => AtCopy /\ wbuf = <<>>
          /\ copy = "write" => AtCopy
          /\ copy = "ended" => \A o \in Outs : Got(files[o], Expected(o), lost)
          /\ copy = "error" => \A o \in Outs : Sparse(files[o], Expected(o))

\* The arguments do not change, and so neither does what is expected.
LEMMA CopySame ==
  ASSUME argv' = argv, oflag' = oflag
  PROVE  /\ ArgvOK' <=> ArgvOK
         /\ \A o, j : Upto(o, j)' = Upto(o, j)
         /\ \A o : Expected(o)' = Expected(o)
         /\ \A j : /\ Valid(j)' <=> Valid(j)
                   /\ FileIn(j)' <=> FileIn(j)
                   /\ StdinLeft(j)' = StdinLeft(j)
                   /\ Goes(j)' = Goes(j)
BY DEF ArgvOK, Upto, Share, Part, Goes, fdo, Expected, FromArgs, Valid, FileIn, StdinLeft, Bytes

LEMMA InitCopy ==
  ASSUME CopyAssumption, CopyInit
  PROVE  CopyInv
<1>1. /\ argv \in CopyArgs /\ bvalue \in Nat /\ oflag \in BOOLEAN /\ copy = "options"
      /\ argn = 1 /\ opened = FALSE /\ fdin = Dash /\ fdout = "stdout"
      /\ tail = <<>> /\ stdin = Bytes(Dash) /\ wbuf = <<>>
      /\ files = [o \in Outs |-> <<>>] /\ lost = FALSE
  BY DEF CopyInit, CopyRest, CopyAssumption, Outs
<1>2. ArgvOK
  BY <1>1 DEF CopyAssumption, ArgvOK
<1>3. Bytes(Dash) \in Seq(Byte) /\ <<>> \in Seq(Byte)
  BY BytesSeq, EmptySeq DEF CopyAssumption
<1>4. CopyTyped
  <2>1. files \in [Outs -> Seq(Byte)]
    BY <1>1, <1>3
  <2>2. "stdout" \in Outs
    BY DEF Outs
  <2>3. argn \in Nat \ {0}
    BY <1>1
  <2>4. opened \in BOOLEAN /\ lost \in BOOLEAN
    BY Zenon DEF CopyInit, CopyRest
  <2> HIDE DEF Byte, ArgvOK
  <2> QED BY <1>1, <1>2, <1>3, <2>1, <2>2, <2>3, <2>4, Zenon DEF CopyTyped
<1>5. Len(argv) \in Nat
  BY <1>2, LenProperties DEF ArgvOK
<1>6. AtLoop
  <2>1. \A o \in Outs : files[o] = <<>> /\ Upto(o, 0) = <<>>
    BY <1>1, UptoStep
  <2>2. argn - 1 = 0 /\ argn <= Len(argv) + 1
    BY <1>1, <1>5
  <2>3. \A o \in Outs : Got(files[o], Upto(o, 0), lost)
    BY <2>1, SparseEmpty DEF Got
  <2>4. Valid(0) /\ ~FileIn(0) /\ StdinLeft(0) = Bytes(Dash)
    BY DEF Valid, FileIn, StdinLeft
  <2> QED BY <1>1, <2>2, <2>3, <2>4 DEF AtLoop, LoopOf
<1> QED BY <1>1, <1>4, <1>6 DEF CopyInv

LEMMA CopyTypedStep ==
  ASSUME CopyAssumption, CopyTyped, CopyNext
  PROVE  CopyTyped'
<1>0. ArgvOK /\ DOMAIN argv = 1..Len(argv) /\ Len(argv) \in Nat
  BY LenProperties DEF CopyTyped, ArgvOK
<1>1. CASE Options
  BY <1>1, CopySame DEF Options, CopyTyped
<1>2. CASE NextDash
  BY <1>2, CopySame DEF NextDash, CopyTyped, Outs
<1>3. CASE NextFile
  <2>1. Bytes(argv[argn]) \in Seq(Byte) /\ fdo \in Outs
    BY <1>3, BytesSeq DEF NextFile, fdo, Outs
  <2> QED BY <1>3, <2>1, CopySame DEF NextFile, CopyTyped
<1>4. CASE NextMissing
  BY <1>4, CopySame DEF NextMissing, CopyTyped
<1>5. CASE LoopDone
  <2>1. fdo \in Outs
    BY DEF fdo, Outs
  <2> QED BY <1>5, <2>1, CopySame DEF LoopDone, CopyTyped
<1>6. CASE CopyRead
  <2>1. PICK n \in 0..bvalue :
          /\ n <= Len(tail)
          /\ wbuf' = SubSeq(tail, 1, n)
          /\ tail' = SubSeq(tail, n + 1, Len(tail))
    BY <1>6 DEF CopyRead
  <2>2. Len(tail) \in Nat /\ n \in Nat /\ \A i \in 1..Len(tail) : tail[i] \in Byte
    BY <2>1, LenProperties DEF CopyTyped
  <2>3. wbuf' \in Seq(Byte)
    <3>1. \A i \in 1..n : tail[i] \in Byte
      BY <2>1, <2>2
    <3> QED BY <2>1, <2>2, <3>1, SubSeqProperties
  <2>4. tail' \in Seq(Byte)
    <3>1. \A i \in n + 1..Len(tail) : tail[i] \in Byte
      BY <2>2
    <3>2. n + 1 \in Int /\ Len(tail) \in Int
      BY <2>2
    <3> QED BY <2>1, <3>1, <3>2, SubSeqProperties
  <2> QED BY <1>6, <2>3, <2>4, CopySame DEF CopyRead, NextArg, CopyTyped
<1>6a. CASE ReadError
  <2>1. <<>> \in Seq(Byte)
    BY EmptySeq
  <2> QED BY <1>6a, <2>1, CopySame DEF ReadError, NextArg, CopyTyped
<1>7. CASE CopyWrite
  <2>1. PICK n \in 1..Len(wbuf) :
          /\ files' = [files EXCEPT ![fdout] = @ \o SubSeq(wbuf, 1, n)]
          /\ wbuf' = SubSeq(wbuf, n + 1, Len(wbuf))
          /\ copy' = IF n < Len(wbuf) THEN "write" ELSE "read"
    BY <1>7 DEF CopyWrite
  <2>2. Len(wbuf) \in Nat /\ n \in Nat /\ \A i \in 1..Len(wbuf) : wbuf[i] \in Byte
    BY <2>1, LenProperties DEF CopyTyped
  <2>3. SubSeq(wbuf, 1, n) \in Seq(Byte)
    <3>1. \A i \in 1..n : wbuf[i] \in Byte
      BY <2>1, <2>2
    <3> QED BY <2>2, <3>1, SubSeqProperties
  <2>4. wbuf' \in Seq(Byte)
    <3>1. \A i \in n + 1..Len(wbuf) : wbuf[i] \in Byte
      BY <2>2
    <3>2. n + 1 \in Int /\ Len(wbuf) \in Int
      BY <2>2
    <3> QED BY <2>1, <3>1, <3>2, SubSeqProperties
  <2>5. files' \in [Outs -> Seq(Byte)]
    <3>1. files[fdout] \o SubSeq(wbuf, 1, n) \in Seq(Byte)
      BY <2>3, ConcatProperties DEF CopyTyped
    <3> QED BY <2>1, <3>1 DEF CopyTyped
  <2> QED BY <1>7, <2>1, <2>4, <2>5, CopySame DEF CopyWrite, CopyTyped
<1>8. CASE WriteFails
  <2>1. <<>> \in Seq(Byte)
    BY EmptySeq
  <2> QED BY <1>8, <2>1, CopySame DEF WriteFails, CopyTyped
<1> QED BY <1>1, <1>2, <1>3, <1>4, <1>5, <1>6, <1>6a, <1>7, <1>8 DEF CopyNext

\* What the parts of the invariant are in the next state.
LEMMA ThenIs ==
  ASSUME argv' = argv, oflag' = oflag
  PROVE  /\ LoopOf(argn', files', stdin', opened', wbuf', lost') => AtLoop'
         /\ (argn' <= Len(argv) => ArgOf(argn', fdin', fdout', tail', stdin', opened'))
              /\ OutOf(argn', files', fdout', wbuf' \o tail', lost') => AtCopy'
         /\ \A o : Expected(o)' = Expected(o)
<1>1. ASSUME LoopOf(argn', files', stdin', opened', wbuf', lost')
      PROVE  AtLoop'
  BY <1>1 DEF LoopOf, AtLoop, Upto, Share, Part, Goes, fdo, Valid, FileIn, StdinLeft, Bytes
<1>2. ASSUME argn' <= Len(argv) => ArgOf(argn', fdin', fdout', tail', stdin', opened'),
             OutOf(argn', files', fdout', wbuf' \o tail', lost')
      PROVE  AtCopy'
  <2>1. (argn <= Len(argv) => ArgOf(argn, fdin, fdout, tail, stdin, opened))'
    BY <1>2 DEF ArgOf, Goes, fdo, Valid, FileIn, StdinLeft, Bytes
  <2>2. OutOf(argn, files, fdout, wbuf \o tail, lost)'
    BY <1>2 DEF OutOf, Target, Expected, FromArgs, Upto, Share, Part, Goes, fdo, Bytes
  <2> QED BY <2>1, <2>2 DEF AtCopy
<1> QED BY <1>1, <1>2, CopySame

\* One more argument.
LEMMA PieceStep ==
  ASSUME CopyAssumption, NEW k \in Nat \ {0}, Valid(k - 1), argv[k] \in DOMAIN Length
  PROVE  /\ Valid(k)
         /\ FileIn(k) <=> FileIn(k - 1) \/ argv[k] # Dash
         /\ StdinLeft(k) = IF argv[k] = Dash THEN <<>> ELSE StdinLeft(k - 1)
         /\ Part(k) = IF argv[k] = Dash THEN StdinLeft(k - 1) ELSE Bytes(argv[k])
         /\ \A o : Upto(o, k) = IF Goes(k) = o THEN Upto(o, k - 1) \o Part(k) ELSE Upto(o, k - 1)
<1>1. \A i \in 1..k : i = k \/ i \in 1..k - 1
  OBVIOUS
<1>2. k \in 1..k /\ 1..k - 1 \subseteq 1..k
  OBVIOUS
<1>3. Valid(k)
  BY <1>1 DEF Valid
<1>4. FileIn(k) <=> FileIn(k - 1) \/ argv[k] # Dash
  BY <1>1, <1>2 DEF FileIn
<1>5. StdinLeft(k) = IF argv[k] = Dash THEN <<>> ELSE StdinLeft(k - 1)
  BY <1>1, <1>2 DEF StdinLeft
<1>6. Part(k) = IF argv[k] = Dash THEN StdinLeft(k - 1) ELSE Bytes(argv[k])
  BY DEF Part, StdinLeft
<1>7. ASSUME NEW o
      PROVE  Upto(o, k) = IF Goes(k) = o THEN Upto(o, k - 1) \o Part(k) ELSE Upto(o, k - 1)
  <2>1. k - 1 \in Nat /\ (k - 1) + 1 = k
    OBVIOUS
  <2>2. Upto(o, k - 1) \in Seq(Byte) /\ Upto(o, k) = Upto(o, k - 1) \o Share(o, k)
    BY <2>1, UptoStep
  <2>3. Upto(o, k - 1) \o <<>> = Upto(o, k - 1)
    BY <2>2, ConcatEmptySeq
  <2> QED BY <2>2, <2>3 DEF Share
<1> QED BY <1>3, <1>4, <1>5, <1>6, <1>7

\* What has come of an input is in order in the end.
LEMMA CopyInOrder ==
  ASSUME CopyAssumption, CopyTyped, AtCopy
  PROVE  \A o \in Outs : Sparse(files[o], Expected(o))
<1> TAKE o \in Outs
<1>0. files[o] \in Seq(Byte) /\ wbuf \o tail \in Seq(Byte) /\ ArgvOK
  BY ConcatProperties DEF CopyTyped
<1>1. Sparse(files[o], Target(o, argn))
  <2>1. CASE o # fdout
    BY <2>1 DEF AtCopy, OutOf, Got
  <2>2. CASE o = fdout
    <3>1. PICK t \in Seq(Byte) : Sparse(files[o], t) /\ t \o (wbuf \o tail) = Target(o, argn)
      BY <2>2 DEF AtCopy, OutOf, Got
    <3> DEFINE rest == wbuf \o tail
    <3>2. rest \in Seq(Byte) /\ t \o rest = Target(o, argn)
      BY <1>0, <3>1
    <3> HIDE DEF rest
    <3>3. Sparse(files[o], t \o rest)
      BY <1>0, <3>1, <3>2, SparseMore
    <3> QED BY <3>2, <3>3
  <2> QED BY <2>1, <2>2
<1>2. Len(argv) \in Nat
  BY <1>0, LenProperties DEF ArgvOK
<1>3. CASE argn <= Len(argv)
  <2>1. Valid(argn) /\ Target(o, argn) = Upto(o, argn) /\ argn \in 0..Len(argv)
    BY <1>2, <1>3 DEF AtCopy, ArgOf, Target, CopyTyped
  <2> QED BY <1>0, <1>1, <2>1, SparseExpected
<1>4. CASE ~(argn <= Len(argv))
  BY <1>1, <1>4 DEF Target
<1> QED BY <1>3, <1>4

LEMMA LoopInOrder ==
  ASSUME CopyAssumption, CopyTyped, AtLoop
  PROVE  \A o \in Outs : Sparse(files[o], Expected(o))
<1> TAKE o \in Outs
<1>0. files[o] \in Seq(Byte) /\ ArgvOK /\ argn \in Nat \ {0}
  BY DEF CopyTyped
<1>1. Len(argv) \in Nat
  BY <1>0, LenProperties DEF ArgvOK
<1>2. argn - 1 \in 0..Len(argv) /\ Valid(argn - 1) /\ Sparse(files[o], Upto(o, argn - 1))
  BY <1>0, <1>1 DEF AtLoop, LoopOf, Got
<1> QED BY <1>0, <1>2, SparseExpected

LEMMA SplitSeq ==
  ASSUME NEW X, NEW s \in Seq(X), NEW n \in 0..Len(s)
  PROVE  /\ SubSeq(s, 1, n) \in Seq(X) /\ SubSeq(s, n + 1, Len(s)) \in Seq(X)
         /\ SubSeq(s, 1, n) \o SubSeq(s, n + 1, Len(s)) = s
<1>1. Len(s) \in Nat /\ \A i \in 1..Len(s) : s[i] \in X
  BY LenProperties
<1>2. SubSeq(s, 1, n) \in Seq(X)
  BY <1>1, SubSeqProperties
<1>3. SubSeq(s, n + 1, Len(s)) \in Seq(X)
  <2>1. n + 1 \in Int /\ Len(s) \in Int /\ \A i \in n + 1..Len(s) : s[i] \in X
    BY <1>1
  <2> QED BY <2>1, SubSeqProperties
<1>4. SubSeq(s, 1, n) \o SubSeq(s, n + 1, Len(s)) = SubSeq(s, 1, Len(s))
  <2>1. 1 \in 1..Len(s) + 1 /\ n \in 1 - 1..Len(s) /\ Len(s) \in n..Len(s)
    BY <1>1
  <2> QED BY <2>1, ConcatAdjacentSubSeq
<1> QED BY <1>2, <1>3, <1>4, SubSeqFull

Assoc(t, u, w)       == (t \o u) \o w = t \o (u \o w)
Regroups(t, u, r, v) == (t \o u) \o (r \o v) = t \o ((u \o r) \o v)

LEMMA AssocSeq ==
  ASSUME NEW X, NEW t \in Seq(X), NEW u \in Seq(X), NEW w \in Seq(X)
  PROVE  Assoc(t, u, w)
BY ConcatAssociative DEF Assoc

LEMMA Regroup ==
  ASSUME NEW X, NEW t \in Seq(X), NEW u \in Seq(X), NEW r \in Seq(X), NEW v \in Seq(X)
  PROVE  t \o u \in Seq(X) /\ Regroups(t, u, r, v)
<1> DEFINE w == r \o v
<1>1. t \o u \in Seq(X) /\ w \in Seq(X)
  BY ConcatProperties
<1>2. Assoc(u, r, v)
  BY AssocSeq
<1> HIDE DEF w
<1>3. Assoc(t, u, w)
  BY <1>1, AssocSeq
<1> QED BY <1>1, <1>2, <1>3 DEF Assoc, Regroups, w

\* An argument that is copied next is in its place.
LEMMA BeginArg ==
  ASSUME CopyAssumption, CopyTyped, AtLoop, NEW dst \in Outs, NEW tl \in Seq(Byte),
         argn <= Len(argv), argv[argn] \in DOMAIN Length, dst = Goes(argn), tl = Part(argn),
         NEW op, op <=> opened \/ argv[argn] # Dash
  PROVE  /\ ArgOf(argn, argv[argn], dst, tl, stdin, op)
         /\ OutOf(argn, files, dst, <<>> \o tl, lost)
<1>1. /\ Valid(argn) /\ (op <=> FileIn(argn))
      /\ stdin = StdinLeft(argn - 1)
      /\ StdinLeft(argn) = IF argv[argn] = Dash THEN <<>> ELSE StdinLeft(argn - 1)
      /\ Part(argn) = IF argv[argn] = Dash THEN StdinLeft(argn - 1) ELSE Bytes(argv[argn])
      /\ \A o : Upto(o, argn) = IF Goes(argn) = o THEN Upto(o, argn - 1) \o Part(argn) ELSE Upto(o, argn - 1)
      /\ \A o \in Outs : Got(files[o], Upto(o, argn - 1), lost)
  BY PieceStep DEF AtLoop, LoopOf, CopyTyped
<1>2. ArgOf(argn, argv[argn], dst, tl, stdin, op)
  BY <1>1 DEF ArgOf
<1>3. \A o \in Outs \ {dst} : Got(files[o], Target(o, argn), lost)
  BY <1>1 DEF Target
<1>4. \E t \in Seq(Byte) : Got(files[dst], t, lost) /\ t \o (<<>> \o tl) = Target(dst, argn)
  <2>1. <<>> \o tl = tl
    BY ConcatEmptySeq
  <2>2. Upto(dst, argn - 1) \in Seq(Byte)
    <3>1. argn - 1 \in Nat
      BY DEF CopyTyped
    <3> QED BY <3>1, UptoStep
  <2>3. Target(dst, argn) = Upto(dst, argn - 1) \o tl
    BY <1>1 DEF Target
  <2> QED BY <1>1, <2>1, <2>2, <2>3
<1> QED BY <1>2, <1>3, <1>4 DEF OutOf

\* When what an argument names has been read, or reading it has failed.
LEMMA ArgDone ==
  ASSUME argv' = argv, oflag' = oflag, argn \in Nat \ {0}, Len(argv) \in Nat, AtCopy, NextArg,
         UNCHANGED <<opened, fdin, fdout, files>>, wbuf' = <<>>,
         stdin' = IF fdin = Dash THEN <<>> ELSE stdin,
         \A o \in Outs : Got(files[o], Target(o, argn), lost')
  PROVE  \/ copy' = "ended" /\ \A o \in Outs : Got(files'[o], Expected(o), lost')
         \/ copy' = "loop" /\ AtLoop'
<1>1. CASE argn > Len(argv)
  <2>1. copy' = "ended" /\ ~(argn <= Len(argv))
    BY <1>1 DEF NextArg
  <2> QED BY <2>1 DEF Target
<1>2. CASE ~(argn > Len(argv))
  <2>1. copy' = "loop" /\ argn' = argn + 1 /\ argn <= Len(argv)
    BY <1>2 DEF NextArg
  <2>2. argn' - 1 = argn /\ argn' <= Len(argv) + 1
    BY <2>1
  <2>3. /\ Valid(argn) /\ fdin = argv[argn] /\ (opened <=> FileIn(argn))
        /\ stdin = IF fdin = Dash THEN tail ELSE StdinLeft(argn)
    BY <2>1 DEF AtCopy, ArgOf
  <2>4. stdin' = StdinLeft(argn)
    <3>1. CASE fdin = Dash
      <4>1. argn \in 1..argn
        OBVIOUS
      <4>2. StdinLeft(argn) = <<>>
        BY <2>3, <3>1, <4>1 DEF StdinLeft
      <4> QED BY <3>1, <4>2
    <3>2. CASE fdin # Dash
      BY <2>3, <3>2
    <3> QED BY <3>1, <3>2
  <2>5. \A o \in Outs : Got(files'[o], Upto(o, argn), lost')
    BY <2>1 DEF Target
  <2>6. LoopOf(argn', files', stdin', opened', wbuf', lost')
    BY <2>2, <2>3, <2>4, <2>5 DEF LoopOf
  <2>7. AtLoop'
    BY <2>6, ThenIs
  <2> QED BY <2>1, <2>7
<1> QED BY <1>1, <1>2

\* A step of a run with a buffer.
LEMMA CopyMoves ==
  ASSUME CopyAssumption, CopyInv, CopyNext, bvalue > 0
  PROVE  /\ copy' \in {"options", "loop"} => AtLoop'
         /\ copy' = "read" => AtCopy' /\ wbuf' = <<>>
         /\ copy' = "write" => AtCopy'
         /\ copy' = "ended" => \A o \in Outs : Got(files'[o], Expected(o), lost')
         /\ copy' = "error" => \A o \in Outs : Sparse(files'[o], Expected(o))
<1>0. /\ CopyTyped
      /\ copy \in {"options", "loop"} => AtLoop
      /\ copy = "read" => AtCopy /\ wbuf = <<>>
      /\ copy = "write" => AtCopy
  BY DEF CopyInv
<1>1. /\ argv' = argv /\ oflag' = oflag /\ ArgvOK
      /\ argn \in Nat \ {0} /\ Len(argv) \in Nat
      /\ tail \in Seq(Byte) /\ stdin \in Seq(Byte) /\ wbuf \in Seq(Byte) /\ fdout \in Outs
      /\ files \in [Outs -> Seq(Byte)] /\ bvalue \in Nat
  <2>1. argv' = argv /\ oflag' = oflag
    BY DEF CopyNext, Options, NextDash, NextFile, NextMissing, LoopDone, CopyRead, ReadError, CopyWrite,
           WriteFails
  <2>2. Len(argv) \in Nat
    BY <1>0, LenProperties DEF CopyTyped, ArgvOK
  <2> QED BY <1>0, <2>1, <2>2 DEF CopyTyped
<1>2. CASE Options
  <2>1. AtLoop /\ UNCHANGED <<argv, oflag, argn, opened, stdin, wbuf, files, lost>>
        /\ copy' \in {"loop", "error"}
    BY <1>0, <1>2 DEF Options
  <2>2. AtLoop'
    BY <1>1, <2>1, ThenIs DEF AtLoop
  <2>3. \A o \in Outs : Sparse(files'[o], Expected(o))
    BY <1>0, <2>1, LoopInOrder
  <2> QED BY <2>1, <2>2, <2>3
<1>3. CASE NextDash
  <2>1. /\ AtLoop /\ argn <= Len(argv) /\ argv[argn] = Dash
        /\ fdin' = Dash /\ fdout' = "stdout" /\ tail' = stdin /\ copy' = "read"
        /\ UNCHANGED <<argn, opened, stdin, wbuf, files, lost>>
    BY <1>0, <1>3 DEF NextDash
  <2>2. wbuf = <<>> /\ stdin = StdinLeft(argn - 1) /\ Valid(argn - 1)
    BY <2>1 DEF AtLoop, LoopOf
  <2>3. Dash \in DOMAIN Length /\ "stdout" \in Outs /\ Goes(argn) = "stdout"
    BY <2>1 DEF CopyAssumption, Outs, Goes
  <2>4. stdin = Part(argn)
    BY <1>1, <2>1, <2>2, <2>3, PieceStep
  <2>5. /\ ArgOf(argn, Dash, "stdout", stdin, stdin, opened)
        /\ OutOf(argn, files, "stdout", <<>> \o stdin, lost)
    BY <1>0, <1>1, <2>1, <2>3, <2>4, BeginArg
  <2>6. ArgOf(argn', fdin', fdout', tail', stdin', opened') /\ OutOf(argn', files', fdout', wbuf' \o tail', lost')
    BY <2>1, <2>2, <2>5
  <2>7. AtCopy'
    BY <1>1, <2>6, ThenIs
  <2> QED BY <2>1, <2>2, <2>7
<1>4. CASE NextFile
  <2>1. /\ AtLoop /\ argn <= Len(argv) /\ argv[argn] \in DOMAIN Length \ {Dash}
        /\ fdin' = argv[argn] /\ fdout' = fdo /\ tail' = Bytes(argv[argn]) /\ copy' = "read"
        /\ opened' = TRUE
        /\ UNCHANGED <<argn, stdin, wbuf, files, lost>>
    BY <1>0, <1>4 DEF NextFile
  <2>2. wbuf = <<>> /\ Valid(argn - 1)
    BY <2>1 DEF AtLoop, LoopOf
  <2>3. fdo \in Outs /\ Goes(argn) = fdo /\ Bytes(argv[argn]) \in Seq(Byte)
    BY <2>1, BytesSeq DEF Outs, Goes, fdo
  <2>4. Bytes(argv[argn]) = Part(argn)
    BY <1>1, <2>1, <2>2, <2>3, PieceStep
  <2>5. /\ ArgOf(argn, argv[argn], fdo, Bytes(argv[argn]), stdin, TRUE)
        /\ OutOf(argn, files, fdo, <<>> \o Bytes(argv[argn]), lost)
    BY <1>0, <1>1, <2>1, <2>3, <2>4, BeginArg
  <2>6. ArgOf(argn', fdin', fdout', tail', stdin', opened') /\ OutOf(argn', files', fdout', wbuf' \o tail', lost')
    BY <2>1, <2>2, <2>5
  <2>7. AtCopy'
    BY <1>1, <2>6, ThenIs
  <2> QED BY <2>1, <2>2, <2>7
<1>5. CASE NextMissing
  <2>1. AtLoop /\ files' = files /\ copy' = "error"
    BY <1>0, <1>5 DEF NextMissing
  <2> QED BY <1>0, <2>1, LoopInOrder
<1>6. CASE LoopDone
  <2>1. AtLoop /\ argn = Len(argv) + 1 /\ UNCHANGED <<opened, stdin, wbuf, files, lost>>
    BY <1>0, <1>6 DEF LoopDone
  <2>2. argn - 1 = Len(argv)
    BY <1>1, <2>1
  <2>3. /\ Valid(Len(argv)) /\ stdin = StdinLeft(Len(argv)) /\ (opened <=> FileIn(Len(argv))) /\ wbuf = <<>>
        /\ \A o \in Outs : Got(files[o], Upto(o, Len(argv)), lost)
    BY <2>1, <2>2 DEF AtLoop, LoopOf
  <2>4. CASE opened
    <3>1. copy' = "ended"
      BY <1>6, <2>4 DEF LoopDone
    <3>2. Len(argv) # 0
      BY <2>3, <2>4 DEF FileIn
    <3>3. \A o \in Outs : Expected(o) = Upto(o, Len(argv))
      BY <1>1, <2>3, <3>2, ExpectedIs
    <3> QED BY <2>1, <2>3, <3>1, <3>3
  <2>5. CASE ~opened
    <3>1. argn' = argn + 1 /\ fdin' = Dash /\ fdout' = fdo /\ tail' = stdin /\ copy' = "read"
      BY <1>6, <2>5 DEF LoopDone
    <3>2. ~(argn' <= Len(argv)) /\ fdo \in Outs
      BY <1>1, <2>1, <3>1 DEF fdo, Outs
    <3>3. ASSUME NEW o \in Outs
          PROVE  /\ Upto(o, Len(argv)) \in Seq(Byte)
                 /\ Expected(o) = IF o = fdo THEN Upto(o, Len(argv)) \o stdin ELSE Upto(o, Len(argv))
      <4>1. Upto(o, Len(argv)) \in Seq(Byte)
        BY <1>1, UptoStep
      <4>2. CASE Len(argv) = 0
        <5>1. Upto(o, Len(argv)) = <<>> /\ stdin = Bytes(Dash)
          BY <2>3, <4>2, UptoStep DEF StdinLeft
        <5>2. <<>> \o stdin = stdin
          BY <1>1, ConcatEmptySeq
        <5>3. Expected(o) = IF o = fdo THEN Bytes(Dash) ELSE <<>>
          BY <1>1, <4>2, ExpectedIs
        <5> QED BY <4>1, <5>1, <5>2, <5>3
      <4>3. CASE Len(argv) # 0
        <5>1. Expected(o) = Upto(o, Len(argv))
          BY <1>1, <2>3, <4>3, ExpectedIs
        <5>2. 1 \in 1..Len(argv) /\ argv[1] = Dash
          BY <1>1, <2>3, <2>5, <4>3 DEF FileIn
        <5>3. stdin = <<>>
          BY <2>3, <5>2 DEF StdinLeft
        <5> QED BY <4>1, <5>1, <5>3, ConcatEmptySeq
      <4> QED BY <4>2, <4>3
    <3>4. \A o \in Outs \ {fdo} : Got(files[o], Target(o, argn'), lost)
      BY <2>3, <3>2, <3>3 DEF Target
    <3>5. \E t \in Seq(Byte) : Got(files[fdo], t, lost) /\ t \o (<<>> \o stdin) = Target(fdo, argn')
      <4>1. <<>> \o stdin = stdin
        BY <1>1, ConcatEmptySeq
      <4>2. Target(fdo, argn') = Upto(fdo, Len(argv)) \o stdin
        BY <3>2, <3>3 DEF Target
      <4> QED BY <2>3, <3>2, <3>3, <4>1, <4>2
    <3>6. OutOf(argn', files', fdout', wbuf' \o tail', lost')
      BY <2>1, <2>3, <3>1, <3>4, <3>5 DEF OutOf
    <3>7. AtCopy'
      BY <1>1, <3>2, <3>6, ThenIs
    <3> QED BY <2>1, <2>3, <3>1, <3>7
  <2> QED BY <2>4, <2>5
<1>7. CASE CopyRead
  <2>1. PICK n \in 0..bvalue :
          /\ n <= Len(tail) /\ (n = 0 => tail = <<>> \/ bvalue = 0)
          /\ wbuf' = SubSeq(tail, 1, n)
          /\ tail' = SubSeq(tail, n + 1, Len(tail))
          /\ stdin' = IF fdin = Dash THEN tail' ELSE stdin
          /\ IF n > 0 THEN copy' = "write" /\ UNCHANGED argn ELSE NextArg
    BY <1>7, Zenon DEF CopyRead
  <2>2. AtCopy /\ wbuf = <<>> /\ UNCHANGED <<opened, fdin, fdout, files, lost>>
    BY <1>0, <1>7 DEF CopyRead
  <2>3. n \in Nat /\ Len(tail) \in Nat
    BY <1>1, <2>1, LenProperties
  <2>4. <<>> \o tail = tail
    BY <1>1, ConcatEmptySeq
  <2>5. CASE n > 0
    <3>1. wbuf' \o tail' = tail
      <4> DEFINE w == SubSeq(tail, 1, n)
                 r == SubSeq(tail, n + 1, Len(tail))
      <4>1. w \o r = tail
        <5>1. n \in 0..Len(tail)
          BY <2>1, <2>3
        <5> QED BY <1>1, <5>1, SplitSeq
      <4> QED BY <2>1, <4>1
    <3>2. copy' = "write" /\ argn' = argn
      BY <2>1, <2>5
    <3>3. OutOf(argn', files', fdout', wbuf' \o tail', lost')
      BY <2>2, <2>4, <3>1, <3>2 DEF AtCopy
    <3>4. argn' <= Len(argv) => ArgOf(argn', fdin', fdout', tail', stdin', opened')
      BY <2>1, <2>2, <3>2 DEF AtCopy, ArgOf
    <3>5. AtCopy'
      BY <1>1, <3>3, <3>4, ThenIs
    <3> QED BY <3>2, <3>5
  <2>6. CASE ~(n > 0)
    <3>1. n = 0 /\ tail = <<>> /\ Len(tail) = 0
      BY <2>1, <2>3, <2>6, EmptySeq
    <3>2. wbuf' = <<>> /\ tail' = <<>>
      <4>1. n + 1 = 1
        BY <3>1
      <4>2. SubSeq(tail, 1, 0) = <<>>
        BY SubSeqEmpty, <3>1
      <4> QED BY <2>1, <3>1, <4>1, <4>2
    <3>3. \A o \in Outs : Got(files[o], Target(o, argn), lost)
      <4>1. PICK t \in Seq(Byte) : Got(files[fdout], t, lost) /\ t \o (wbuf \o tail) = Target(fdout, argn)
        BY <2>2 DEF AtCopy, OutOf
      <4>2. t \o <<>> = t
        BY ConcatEmptySeq
      <4>3. Got(files[fdout], Target(fdout, argn), lost)
        BY <2>2, <2>4, <3>1, <4>1, <4>2
      <4> QED BY <2>2, <4>3 DEF AtCopy, OutOf
    <3>4. stdin' = IF fdin = Dash THEN <<>> ELSE stdin
      BY <2>1, <3>2
    <3> QED BY <1>1, <2>1, <2>2, <2>6, <3>2, <3>3, <3>4, ArgDone
  <2> QED BY <2>5, <2>6
<1>7a. CASE ReadError
  <2>1. /\ AtCopy /\ wbuf = <<>> /\ wbuf' = <<>> /\ lost' = TRUE /\ NextArg
        /\ UNCHANGED <<opened, fdin, fdout, files>> /\ stdin' = IF fdin = Dash THEN <<>> ELSE stdin
    BY <1>0, <1>7a DEF ReadError
  <2>2. PICK t \in Seq(Byte) : Got(files[fdout], t, lost) /\ t \o (wbuf \o tail) = Target(fdout, argn)
    BY <2>1 DEF AtCopy, OutOf
  <2>3. <<>> \o tail = tail
    BY <1>1, ConcatEmptySeq
  <2>4. Sparse(files[fdout], t \o tail)
    BY <1>1, <2>2, SparseMore DEF Got
  <2>5. \A o \in Outs : Got(files[o], Target(o, argn), lost')
    BY <2>1, <2>2, <2>3, <2>4 DEF AtCopy, OutOf, Got
  <2> QED BY <1>1, <2>1, <2>5, ArgDone
<1>8. CASE CopyWrite
  <2>1. PICK n \in 1..Len(wbuf) :
          /\ files' = [files EXCEPT ![fdout] = @ \o SubSeq(wbuf, 1, n)]
          /\ wbuf' = SubSeq(wbuf, n + 1, Len(wbuf))
          /\ copy' = IF n < Len(wbuf) THEN "write" ELSE "read"
    BY <1>8 DEF CopyWrite
  <2>2. AtCopy /\ UNCHANGED <<argn, opened, fdin, fdout, tail, stdin, lost>>
    BY <1>0, <1>8 DEF CopyWrite
  <2>3. n \in Nat /\ Len(wbuf) \in Nat /\ n <= Len(wbuf)
    BY <1>1, <2>1, LenProperties
  <2> DEFINE u == SubSeq(wbuf, 1, n)
  <2>4. u \in Seq(Byte) /\ wbuf' \in Seq(Byte) /\ u \o wbuf' = wbuf
    <3>1. n \in 0..Len(wbuf)
      BY <2>3
    <3>2. /\ SubSeq(wbuf, 1, n) \in Seq(Byte) /\ SubSeq(wbuf, n + 1, Len(wbuf)) \in Seq(Byte)
          /\ SubSeq(wbuf, 1, n) \o SubSeq(wbuf, n + 1, Len(wbuf)) = wbuf
      BY <1>1, <3>1, SplitSeq
    <3> QED BY <2>1, <3>2
  <2>5. PICK t \in Seq(Byte) : Got(files[fdout], t, lost) /\ t \o (wbuf \o tail) = Target(fdout, argn)
    BY <2>2 DEF AtCopy, OutOf
  <2>6. files'[fdout] = files[fdout] \o u /\ \A o \in Outs \ {fdout} : files'[o] = files[o]
    BY <1>1, <2>1
  <2> HIDE DEF u
  <2>7. Got(files'[fdout], t \o u, lost)
    <3>1. Sparse(files[fdout] \o u, t \o u)
      BY <1>1, <2>4, <2>5, SparseBoth DEF Got
    <3> QED BY <2>5, <2>6, <3>1 DEF Got
  <2>8. t \o u \in Seq(Byte) /\ (t \o u) \o (wbuf' \o tail) = t \o (wbuf \o tail)
    <3> DEFINE r == wbuf'
    <3>1. r \in Seq(Byte) /\ u \o r = wbuf
      BY <2>4
    <3> HIDE DEF r
    <3>2. t \o u \in Seq(Byte) /\ Regroups(t, u, r, tail)
      BY <1>1, <2>4, <2>5, <3>1, Regroup
    <3> QED BY <3>1, <3>2 DEF r, Regroups
  <2>9. OutOf(argn', files', fdout', wbuf' \o tail', lost')
    <3>1. \A o \in Outs \ {fdout} : Got(files'[o], Target(o, argn), lost)
      BY <2>2, <2>6 DEF AtCopy, OutOf
    <3>2. \E v \in Seq(Byte) : Got(files'[fdout], v, lost) /\ v \o (wbuf' \o tail) = Target(fdout, argn)
      BY <2>5, <2>7, <2>8
    <3> QED BY <2>2, <3>1, <3>2 DEF OutOf
  <2>10. argn' <= Len(argv) => ArgOf(argn', fdin', fdout', tail', stdin', opened')
    BY <2>2 DEF AtCopy
  <2>11. AtCopy'
    BY <1>1, <2>9, <2>10, ThenIs
  <2>12. copy' = "read" => wbuf' = <<>>
    <3> SUFFICES ASSUME copy' = "read" PROVE wbuf' = <<>>
      OBVIOUS
    <3>1. n = Len(wbuf)
      BY <2>1, <2>3
    <3>2. n + 1 > Len(wbuf) /\ n + 1 \in Int /\ Len(wbuf) \in Int
      BY <2>3, <3>1
    <3> QED BY <2>1, <3>2, SubSeqEmpty
  <2> QED BY <2>1, <2>11, <2>12
<1>9. CASE WriteFails
  <2>1. /\ AtCopy /\ copy' = "read" /\ wbuf' = <<>> /\ lost' = TRUE
        /\ UNCHANGED <<argn, opened, fdin, fdout, tail, stdin, files>>
    BY <1>0, <1>9 DEF WriteFails
  <2>2. PICK t \in Seq(Byte) : Got(files[fdout], t, lost) /\ t \o (wbuf \o tail) = Target(fdout, argn)
    BY <2>1 DEF AtCopy, OutOf
  <2>3. Sparse(files[fdout], t \o wbuf)
    BY <1>1, <2>2, SparseMore DEF Got
  <2>4. t \o wbuf \in Seq(Byte) /\ (t \o wbuf) \o (<<>> \o tail) = t \o (wbuf \o tail)
    <3>1. <<>> \o tail = tail
      BY <1>1, ConcatEmptySeq
    <3>2. t \o wbuf \in Seq(Byte) /\ Assoc(t, wbuf, tail)
      BY <1>1, <2>2, AssocSeq, ConcatProperties
    <3> QED BY <3>1, <3>2 DEF Assoc
  <2>5. OutOf(argn', files', fdout', wbuf' \o tail', lost')
    <3>1. \A o \in Outs \ {fdout} : Got(files[o], Target(o, argn), TRUE)
      BY <2>1 DEF AtCopy, OutOf, Got
    <3>2. \E v \in Seq(Byte) : Got(files[fdout], v, TRUE) /\ v \o (<<>> \o tail) = Target(fdout, argn)
      BY <2>2, <2>3, <2>4 DEF Got
    <3> QED BY <2>1, <3>1, <3>2 DEF OutOf
  <2>6. argn' <= Len(argv) => ArgOf(argn', fdin', fdout', tail', stdin', opened')
    BY <2>1 DEF AtCopy
  <2>7. AtCopy'
    BY <1>1, <2>5, <2>6, ThenIs
  <2> QED BY <2>1, <2>7
<1> QED BY <1>2, <1>3, <1>4, <1>5, <1>6, <1>7, <1>7a, <1>8, <1>9 DEF CopyNext

LEMMA CopyInvStep ==
  ASSUME CopyAssumption, CopyInv, CopyNext
  PROVE  CopyInv'
<1>1. CopyTyped /\ CopyTyped'
  BY CopyTypedStep DEF CopyInv
<1>2. argv' = argv /\ oflag' = oflag /\ bvalue' = bvalue
  BY DEF CopyNext, Options, NextDash, NextFile, NextMissing, LoopDone, CopyRead, ReadError, CopyWrite,
         WriteFails
<1>3. \A o : Expected(o)' = Expected(o)
  BY <1>2, CopySame
<1>4. ASSUME bvalue = 0
      PROVE  (\A o \in Outs : files'[o] = <<>>) /\ copy' # "write"
  <2>1. (\A o \in Outs : files[o] = <<>>) /\ copy # "write"
    BY <1>4 DEF CopyInv
  <2> QED BY <1>4, <2>1 DEF CopyNext, Options, NextDash, NextFile, NextMissing, LoopDone, CopyRead,
                            ReadError, NextArg, CopyWrite, WriteFails
<1>5. ASSUME bvalue > 0
      PROVE  /\ copy' \in {"options", "loop"} => AtLoop'
             /\ copy' = "read" => AtCopy' /\ wbuf' = <<>>
             /\ copy' = "write" => AtCopy'
             /\ copy' = "ended" => \A o \in Outs : Got(files'[o], Expected(o), lost')
             /\ copy' = "error" => \A o \in Outs : Sparse(files'[o], Expected(o))
  BY <1>5, CopyMoves
<1>6. CopyTyped'
  BY <1>1
<1>7. (bvalue = 0 => (\A o \in Outs : files[o] = <<>>) /\ copy # "write")'
  BY <1>2, <1>4
<1>8. (bvalue > 0 =>
          /\ copy \in {"options", "loop"} => AtLoop
          /\ copy = "read" => AtCopy /\ wbuf = <<>>
          /\ copy = "write" => AtCopy
          /\ copy = "ended" => \A o \in Outs : Got(files[o], Expected(o), lost)
          /\ copy = "error" => \A o \in Outs : Sparse(files[o], Expected(o)))'
  <2> SUFFICES ASSUME bvalue' > 0
               PROVE  (/\ copy \in {"options", "loop"} => AtLoop
                       /\ copy = "read" => AtCopy /\ wbuf = <<>>
                       /\ copy = "write" => AtCopy
                       /\ copy = "ended" => \A o \in Outs : Got(files[o], Expected(o), lost)
                       /\ copy = "error" => \A o \in Outs : Sparse(files[o], Expected(o)))'
    OBVIOUS
  <2>1. bvalue > 0
    BY <1>2
  <2>2. (\A o \in Outs : Got(files'[o], Expected(o), lost')) => \A o \in Outs : Got(files[o], Expected(o), lost)'
    BY <1>3 DEF Got
  <2>3. (\A o \in Outs : Sparse(files'[o], Expected(o))) => \A o \in Outs : Sparse(files[o], Expected(o))'
    BY <1>3
  <2> QED BY <1>5, <2>1, <2>2, <2>3
<1> QED BY <1>6, <1>7, <1>8 DEF CopyInv

LEMMA CopyInvRight ==
  ASSUME CopyAssumption, CopyInv
  PROVE  CopyRight
<1>1. CopyTyped
  BY DEF CopyInv
<1>2. CopyExact
  BY <1>1 DEF CopyInv, CopyExact, Got, Outs, CopyTyped
<1>3. CopyOrdered
  <2>1. ASSUME NEW o \in Outs PROVE Sparse(files[o], Expected(o))
    <3>1. CASE bvalue = 0
      BY <3>1, SparseEmpty DEF CopyInv
    <3>2. CASE bvalue > 0
      <4>1. CASE copy \in {"options", "loop"}
        BY <1>1, <3>2, <4>1, LoopInOrder DEF CopyInv
      <4>2. CASE copy \in {"read", "write"}
        BY <1>1, <3>2, <4>2, CopyInOrder DEF CopyInv
      <4>3. CASE copy \in {"ended", "error"}
        BY <3>2, <4>3 DEF CopyInv, Got
      <4> QED BY <1>1, <4>1, <4>2, <4>3 DEF CopyTyped
    <3> QED BY <1>1, <3>1, <3>2 DEF CopyTyped
  <2> QED BY <2>1 DEF CopyOrdered, Outs
<1> QED BY <1>2, <1>3 DEF CopyRight

\* However reads and writes cut up the inputs, an output ends with exactly the
\* bytes it should have, once and in order, if no read or write fails, and at
\* all times has them in order without what failing ones have lost
\* (copycat.c:54-121).
THEOREM CopyIsRight == CopySpec => []CopyRight
<1>1. CopyInit => CopyInv
  BY CopyAssumption, InitCopy
<1>2. CopyInv /\ [CopyNext]_copyVars => CopyInv'
  <2> SUFFICES ASSUME CopyInv, [CopyNext]_copyVars PROVE CopyInv'
    OBVIOUS
  <2>1. CASE CopyNext
    BY <2>1, CopyAssumption, CopyInvStep
  <2>2. CASE UNCHANGED copyVars
    <3>1. /\ UNCHANGED <<argv, bvalue, oflag, copy, argn, opened, fdin, fdout, tail, stdin, wbuf, files, lost>>
      BY <2>2 DEF copyVars
    <3>2. CopyTyped'
      BY <3>1, CopySame DEF CopyInv, CopyTyped
    <3>3. (AtLoop => AtLoop') /\ (AtCopy => AtCopy') /\ \A o : Expected(o)' = Expected(o)
      BY <3>1, ThenIs DEF AtLoop, AtCopy
    <3>4. /\ (\A o \in Outs : Got(files[o], Expected(o), lost)) => \A o \in Outs : Got(files[o], Expected(o), lost)'
          /\ (\A o \in Outs : Sparse(files[o], Expected(o))) => \A o \in Outs : Sparse(files[o], Expected(o))'
      BY <3>1, <3>3 DEF Got
    <3> QED BY <3>1, <3>2, <3>3, <3>4 DEF CopyInv
  <2> QED BY <2>1, <2>2
<1>3. CopyInv => CopyRight
  BY CopyAssumption, CopyInvRight
<1> QED BY <1>1, <1>2, <1>3, PTL DEF CopySpec

------------------------------------------------------------------------------

(***************************************************************************)
(* The spell checker (Spell.tla).                                          *)
(***************************************************************************)

(***************************************************************************)
(* Pieces of a line.                                                       *)
(***************************************************************************)
Character == {ToLower[c] : c \in DOMAIN ToLower}

\* t stands in s after place k.
Inside(t, s, k) == /\ t \in Seq(Character) /\ s \in Seq(Character) /\ k \in Nat
                   /\ k + Len(t) <= Len(s) /\ \A i \in 1..Len(t) : t[i] = s[k + i]

\* Its first n characters are those of s after place k.
Piece(t, s, k, n) == /\ SubSeq(t, 1, n) = SubSeq(s, k + 1, k + n)
                     /\ Inside(SubSeq(t, 1, n), s, k) /\ Len(SubSeq(t, 1, n)) = n

LEMMA PieceIs ==
  ASSUME NEW s, NEW t, NEW k, Inside(t, s, k), NEW n \in 0..Len(t)
  PROVE  Piece(t, s, k, n)
<1> DEFINE a == SubSeq(t, 1, n)
           b == SubSeq(s, k + 1, k + n)
<1>1. /\ t \in Seq(Character) /\ s \in Seq(Character) /\ k \in Nat /\ n \in Nat
      /\ Len(t) \in Nat /\ Len(s) \in Nat /\ n <= Len(t)
      /\ k + Len(t) <= Len(s) /\ \A i \in 1..Len(t) : t[i] = s[k + i]
      /\ \A i \in 1..Len(t) : t[i] \in Character
      /\ \A i \in 1..Len(s) : s[i] \in Character
  BY LenProperties DEF Inside
<1>2. a \in Seq(Character) /\ Len(a) = n /\ \A i \in 1..n : a[i] = t[i]
  <2>1. \A i \in 1..n : t[i] \in Character
    BY <1>1
  <2>2. /\ a \in Seq(Character) /\ Len(a) = IF 1 <= n THEN n - 1 + 1 ELSE 0
        /\ \A i \in 1..n - 1 + 1 : a[i] = t[1 + i - 1]
    BY <1>1, <2>1, SubSeqProperties
  <2> HIDE DEF a
  <2> QED BY <1>1, <2>2
<1>3. b \in Seq(Character) /\ Len(b) = n /\ \A i \in 1..n : b[i] = s[k + i]
  <2>1. k + 1 \in Int /\ k + n \in Int /\ \A i \in k + 1..k + n : s[i] \in Character
    BY <1>1
  <2>2. /\ b \in Seq(Character) /\ Len(b) = IF k + 1 <= k + n THEN (k + n) - (k + 1) + 1 ELSE 0
        /\ \A i \in 1..(k + n) - (k + 1) + 1 : b[i] = s[(k + 1) + i - 1]
    BY <2>1, SubSeqProperties
  <2> HIDE DEF b
  <2> QED BY <1>1, <2>2
<1> HIDE DEF a, b
<1>4. ASSUME NEW i \in 1..n PROVE a[i] = b[i]
  <2>1. i \in 1..Len(t)
    BY <1>1
  <2> QED BY <1>1, <1>2, <1>3, <2>1
<1>5. a = b
  BY <1>2, <1>3, <1>4, SeqEqual
<1>6. Inside(a, s, k)
  <2>1. k + Len(a) <= Len(s)
    BY ONLY <1>1, <1>2
  <2>2. ASSUME NEW i \in 1..Len(a) PROVE a[i] = s[k + i]
    <3>1. i \in 1..n /\ i \in 1..Len(t)
      BY <1>1, <1>2
    <3>2. a[i] = t[i]
      BY <1>2, <3>1
    <3>3. t[i] = s[k + i]
      BY <1>1, <3>1
    <3> QED BY ONLY <3>2, <3>3
  <2> QED BY ONLY <1>1, <1>2, <2>1, <2>2 DEF Inside
<1> QED BY <1>2, <1>5, <1>6 DEF a, b, Piece

\* What stands after the first n characters.
Rest(t, s, k, n) == /\ SubSeq(t, n + 1, Len(t)) \in Seq(Character)
                    /\ n <= Len(t) => /\ Inside(SubSeq(t, n + 1, Len(t)), s, k + n)
                                      /\ Len(SubSeq(t, n + 1, Len(t))) = Len(t) - n
                    /\ n > Len(t) => SubSeq(t, n + 1, Len(t)) = <<>>

LEMMA RestIs ==
  ASSUME NEW s, NEW t, NEW k, Inside(t, s, k), NEW n \in Nat
  PROVE  Rest(t, s, k, n)
<1> DEFINE m == Len(t)
           a == SubSeq(t, n + 1, m)
<1>1. /\ t \in Seq(Character) /\ s \in Seq(Character) /\ k \in Nat /\ n \in Nat
      /\ m \in Nat /\ Len(s) \in Nat
      /\ k + m <= Len(s) /\ \A i \in 1..m : t[i] = s[k + i]
      /\ \A i \in 1..m : t[i] \in Character
  BY LenProperties DEF Inside
<1> HIDE DEF m
<1>2. /\ a \in Seq(Character) /\ Len(a) = IF n + 1 <= m THEN m - (n + 1) + 1 ELSE 0
      /\ \A i \in 1..m - (n + 1) + 1 : a[i] = t[(n + 1) + i - 1]
  <2>1. n + 1 \in Int /\ m \in Int /\ \A i \in n + 1..m : t[i] \in Character
    BY <1>1
  <2> QED BY <2>1, SubSeqProperties
<1>3. n > m => a = <<>>
  <2>1. n > m => m < n + 1
    BY <1>1
  <2>2. n + 1 \in Int /\ m \in Int
    BY <1>1
  <2> QED BY <2>1, <2>2, SubSeqEmpty
<1> HIDE DEF a
<1>4. n <= m => Inside(a, s, k + n) /\ Len(a) = m - n
  <2> SUFFICES ASSUME n <= m PROVE Inside(a, s, k + n) /\ Len(a) = m - n
    OBVIOUS
  <2>1. Len(a) = m - n
    BY <1>1, <1>2
  <2>2. ASSUME NEW i \in 1..m - n PROVE a[i] = s[(k + n) + i]
    <3>1. a[i] = t[n + i] /\ n + i \in 1..m
      <4>1. i \in 1..m - (n + 1) + 1 /\ (n + 1) + i - 1 = n + i /\ n + i \in 1..m
        <5>1. m \in Nat /\ n \in Nat /\ i \in 1..m - n
          BY <1>1
        <5> QED BY ONLY <5>1
      <4> QED BY <1>2, <4>1
    <3>2. k + (n + i) = (k + n) + i
      BY <1>1
    <3> QED BY <1>1, <3>1, <3>2
  <2> QED BY <1>1, <1>2, <2>1, <2>2 DEF Inside
<1> QED BY <1>2, <1>3, <1>4 DEF a, m, Rest

\* find_first_not_of
LEMMA FoundIs ==
  ASSUME text \in Seq(Character)
  PROVE  /\ Found \in 1..Len(text) + 1
         /\ \A i \in 1..Found - 1 : text[i] \in ValidChars
         /\ Found <= Len(text) => text[Found] \notin ValidChars
<1> DEFINE n == Len(text)
           u == Append(text, "end")
           I == {i \in 1..Len(u) : u[i] \notin ValidChars}
<1>1. /\ n \in Nat /\ Len(u) = n + 1
      /\ (\A i \in 1..n : u[i] = text[i]) /\ u[n + 1] = "end"
  <2> DEFINE X == Character \cup {"end"}
  <2>1. text \in Seq(X) /\ "end" \in X
    BY SeqMonotonic
  <2> HIDE DEF X
  <2>2. /\ Len(Append(text, "end")) = Len(text) + 1
        /\ (\A i \in 1..Len(text) : Append(text, "end")[i] = text[i])
        /\ Append(text, "end")[Len(text) + 1] = "end"
    BY <2>1, AppendProperties
  <2> QED BY <2>1, <2>2, LenProperties
<1>2. Found = IF I # {} THEN Min(I) ELSE 0
  BY DEF Found, SelectInSeq
<1> HIDE DEF u, n
<1>3. n + 1 \in I
  <2>1. n + 1 \in 1..Len(u)
    BY <1>1
  <2> QED BY <1>1, <2>1, SpellAssumption
<1>4. I \subseteq Nat
  <2>1. 1..Len(u) \subseteq Nat
    BY <1>1
  <2> QED BY <2>1
<1>5. PICK k \in I : \A m \in I : k <= m
  <2> HIDE DEF I
  <2> QED BY <1>3, <1>4, Least
<1>6. Min(I) \in I /\ \A m \in I : Min(I) <= m
  <2> HIDE DEF I
  <2> QED BY <1>5 DEF Min
<1>7. Found \in I /\ \A m \in I : Found <= m
  BY <1>2, <1>3, <1>6
<1>8. Found \in 1..n + 1 /\ u[Found] \notin ValidChars
  BY <1>1, <1>7
<1>9. \A i \in 1..Found - 1 : text[i] \in ValidChars
  <2> SUFFICES ASSUME NEW i \in 1..Found - 1, text[i] \notin ValidChars PROVE FALSE
    OBVIOUS
  <2>1. i \in 1..n /\ i < Found
    BY <1>1, <1>8
  <2>2. i \in 1..Len(u) /\ u[i] = text[i]
    BY <1>1, <2>1
  <2>3. i \in I
    BY <2>2
  <2> HIDE DEF I
  <2> QED BY <1>1, <1>7, <1>8, <2>1, <2>3
<1> QED BY <1>1, <1>8, <1>9 DEF n

(***************************************************************************)
(* The wrong words in the order of the text.                               *)
(***************************************************************************)
Line(l) == Lowered(document[l])
Places  == {<<l, r>> : l \in 1..Len(document), r \in UNION {Wrong(m) : m \in 1..Len(document)}}
WrongPlaces == {p \in Places : p[2] \in Wrong(p[1])}
Earlier(p, q) == q[1] < p[1] \/ (q[1] = p[1] /\ q[2][1] < p[2][1])
AllBefore(p) == {q \in WrongPlaces : Earlier(p, q)}
Long(p) == p[2][2] - p[2][1] >= MaxWord
Said(p) == <<p[1], IF Long(p) THEN "long" ELSE "unknown",
             SubSeq(Line(p[1]), p[2][1], IF Long(p) THEN p[2][1] + MaxWord - 1 ELSE p[2][2])>>

\* What has been written is what there is to say of the places D.
Reported(c, D) == /\ IsFiniteSet(D) /\ Len(c) = Cardinality(D)
                  /\ \A p \in D : c[Cardinality(AllBefore(p)) + 1] = Said(p)

Complaint == Nat \X {"long", "unknown"} \X Seq(Character)

LEMMA DocumentSeq ==
  ASSUME document \in Documents
  PROVE  /\ Len(document) \in Nat /\ DOMAIN document = 1..Len(document)
         /\ \A l \in 1..Len(document) : /\ Line(l) \in Seq(Character) /\ Len(Line(l)) \in Nat
                                        /\ DOMAIN Line(l) = 1..Len(Line(l))
<1>1. document \in Seq(Seq(DOMAIN ToLower))
  BY SpellAssumption
<1>2. Len(document) \in Nat /\ DOMAIN document = 1..Len(document)
      /\ \A l \in 1..Len(document) : document[l] \in Seq(DOMAIN ToLower)
  BY <1>1, LenProperties
<1>3. ASSUME NEW l \in 1..Len(document) PROVE Line(l) \in Seq(Character)
  <2> DEFINE d == document[l]
  <2>1. d \in Seq(DOMAIN ToLower)
    BY <1>2
  <2> HIDE DEF d
  <2>2. Len(d) \in Nat /\ DOMAIN d = 1..Len(d) /\ \A k \in 1..Len(d) : d[k] \in DOMAIN ToLower
    BY <2>1, LenProperties
  <2> DEFINE n == Len(d)
  <2>3. Line(l) = [k \in 1..n |-> ToLower[d[k]]]
    BY <2>2 DEF Line, Lowered, d
  <2>4. \A k \in 1..n : ToLower[d[k]] \in Character
    BY <2>2 DEF Character
  <2> HIDE DEF n
  <2>5. Line(l) \in [1..n -> Character]
    BY <2>3, <2>4
  <2> QED BY <2>2, <2>5, SeqDef DEF n
<1> QED BY <1>2, <1>3, LenProperties

LEMMA PlaceIs ==
  ASSUME document \in Documents, NEW p
  PROVE  p \in WrongPlaces <=> \E l \in 1..Len(document) : \E r \in Wrong(l) : p = <<l, r>>
<1>1. ASSUME p \in WrongPlaces
      PROVE  \E l \in 1..Len(document) : \E r \in Wrong(l) : p = <<l, r>>
  BY <1>1 DEF WrongPlaces, Places
<1>2. ASSUME NEW l \in 1..Len(document), NEW r \in Wrong(l), p = <<l, r>>
      PROVE  p \in WrongPlaces
  <2>1. r \in UNION {Wrong(m) : m \in 1..Len(document)}
    OBVIOUS
  <2>2. p \in Places
    BY <1>2, <2>1 DEF Places
  <2> QED BY <1>2, <2>2 DEF WrongPlaces
<1> QED BY <1>1, <1>2

\* A run of a line.
LEMMA RunIs ==
  ASSUME NEW s \in Seq(Character), NEW r
  PROVE  r \in Runs(s) <=>
            \E a \in 1..Len(s), b \in 1..Len(s) :
               /\ r = <<a, b>> /\ a <= b /\ \A k \in a..b : s[k] \in ValidChars
               /\ a = 1 \/ s[a - 1] \notin ValidChars
               /\ b = Len(s) \/ s[b + 1] \notin ValidChars
<1>1. DOMAIN s = 1..Len(s) /\ Len(s) \in Nat
  BY LenProperties
<1> DEFINE n == Len(s)
<1>2. DOMAIN s = 1..n /\ n \in Nat
  BY <1>1
<1> HIDE DEF n
<1>3. ASSUME NEW a \in 1..n, NEW b \in 1..n
      PROVE  /\ a - 1 \in 1..n <=> a # 1
             /\ b + 1 \in 1..n <=> b # n
             /\ \A k \in a..b : k \in 1..n
  BY <1>2
<1>4. ASSUME NEW a \in 1..n, NEW b \in 1..n, r = <<a, b>>
      PROVE  r \in Runs(s) <=> /\ a <= b /\ \A k \in a..b : s[k] \in ValidChars
                               /\ a = 1 \/ s[a - 1] \notin ValidChars
                               /\ b = n \/ s[b + 1] \notin ValidChars
  <2>1. r \in (1..n) \X (1..n) /\ r[1] = a /\ r[2] = b
    BY <1>4
  <2> QED BY <1>2, <1>3, <2>1 DEF Runs
<1>5. ASSUME r \in Runs(s)
      PROVE  \E a \in 1..n, b \in 1..n : r = <<a, b>>
  <2>1. r \in (1..n) \X (1..n)
    BY <1>2, <1>5 DEF Runs
  <2> QED BY <2>1
<1>6. ASSUME r \in Runs(s)
      PROVE  \E a \in 1..n, b \in 1..n :
               /\ r = <<a, b>> /\ a <= b /\ \A k \in a..b : s[k] \in ValidChars
               /\ a = 1 \/ s[a - 1] \notin ValidChars
               /\ b = n \/ s[b + 1] \notin ValidChars
  <2>1. PICK a \in 1..n, b \in 1..n : r = <<a, b>>
    BY <1>5, <1>6
  <2>2. /\ a <= b /\ \A k \in a..b : s[k] \in ValidChars
        /\ a = 1 \/ s[a - 1] \notin ValidChars
        /\ b = n \/ s[b + 1] \notin ValidChars
    BY <1>4, <1>6, <2>1
  <2> QED BY <2>1, <2>2
<1> QED BY <1>4, <1>6 DEF n

\* In one line no two runs begin at the same place, or inside of one another.
LEMMA RunsApart ==
  ASSUME NEW s \in Seq(Character), NEW q \in Runs(s), NEW r \in Runs(s), q[1] \in r[1]..r[2]
  PROVE  q = r
<1> DEFINE n == Len(s)
<1>0. n \in Nat
  BY LenProperties
<1> HIDE DEF n
<1>1. PICK a \in 1..n, b \in 1..n :
         /\ r = <<a, b>> /\ a <= b /\ \A k \in a..b : s[k] \in ValidChars
         /\ a = 1 \/ s[a - 1] \notin ValidChars
         /\ b = n \/ s[b + 1] \notin ValidChars
  BY RunIs DEF n
<1>2. PICK c \in 1..n, d \in 1..n :
         /\ q = <<c, d>> /\ c <= d /\ \A k \in c..d : s[k] \in ValidChars
         /\ c = 1 \/ s[c - 1] \notin ValidChars
         /\ d = n \/ s[d + 1] \notin ValidChars
  BY RunIs DEF n
<1>3. c \in a..b
  BY <1>1, <1>2
<1>4. c = a
  <2> SUFFICES ASSUME c # a PROVE FALSE
    OBVIOUS
  <2>1. c - 1 \in a..b /\ c # 1
    BY <1>0, <1>3
  <2> QED BY <1>1, <1>2, <2>1
<1>5. ~(d < b)
  <2> SUFFICES ASSUME d < b PROVE FALSE
    OBVIOUS
  <2>1. d + 1 \in a..b /\ d # n
    BY <1>0, <1>2, <1>4
  <2> QED BY <1>1, <1>2, <2>1
<1>6. ~(b < d)
  <2> SUFFICES ASSUME b < d PROVE FALSE
    OBVIOUS
  <2>1. b + 1 \in c..d /\ b # n
    BY <1>0, <1>1, <1>4
  <2> QED BY <1>1, <1>2, <2>1
<1> QED BY <1>0, <1>1, <1>2, <1>4, <1>5, <1>6

\* The wrong words that begin at most at place k of line l, or in a line before.
DoneTo(l, k) == {p \in WrongPlaces : p[1] < l \/ (p[1] = l /\ p[2][1] <= k)}

LEMMA PlaceFacts ==
  ASSUME document \in Documents, NEW p \in WrongPlaces
  PROVE  /\ p[1] \in 1..Len(document) /\ p[2] \in Runs(Line(p[1])) /\ p[2] \in Wrong(p[1])
         /\ p[2][1] \in 1..Len(Line(p[1])) /\ p[2][2] \in 1..Len(Line(p[1]))
         /\ p[1] \in Nat /\ p[2][1] \in Nat /\ p[2][1] > 0
         /\ p = <<p[1], p[2]>>
<1>1. PICK l \in 1..Len(document) : \E r \in Wrong(l) : p = <<l, r>>
  BY PlaceIs
<1>2. PICK r \in Wrong(l) : p = <<l, r>>
  BY <1>1
<1>3. r \in Runs(Line(l))
  BY <1>2 DEF Wrong, Line
<1>4. Line(l) \in Seq(Character) /\ Len(Line(l)) \in Nat /\ Len(document) \in Nat
  BY DocumentSeq
<1>5. PICK a \in 1..Len(Line(l)), b \in 1..Len(Line(l)) : r = <<a, b>>
  BY <1>3, <1>4, RunIs
<1> DEFINE s == Line(l)
           n == Len(s)
<1>6. r \in Runs(s) /\ r[1] = a /\ r[2] = b /\ a \in 1..n /\ b \in 1..n /\ n \in Nat
  BY <1>3, <1>4, <1>5
<1>7. p[1] = l /\ p[2] = r
  BY <1>2
<1> HIDE DEF s, n
<1>8. a \in Nat /\ a > 0 /\ l \in Nat
  BY <1>4, <1>6
<1> QED BY <1>2, <1>6, <1>7, <1>8 DEF s, n

\* Nothing more is wrong when nothing begins in between.
LEMMA DoneSame ==
  ASSUME document \in Documents, NEW l \in Nat, NEW k \in Nat, NEW m \in Nat, k <= m,
         \A r \in Wrong(l) : l \in 1..Len(document) => ~(r[1] \in k + 1..m)
  PROVE  DoneTo(l, m) = DoneTo(l, k)
<1>1. ASSUME NEW p \in WrongPlaces, p[1] = l
      PROVE  p[2][1] <= m <=> p[2][1] <= k
  <2>1. p[2] \in Wrong(l) /\ l \in 1..Len(document) /\ p[2][1] \in Nat
    BY <1>1, PlaceFacts
  <2>2. ~(p[2][1] \in k + 1..m)
    BY <2>1
  <2> QED BY <2>1, <2>2
<1> QED BY <1>1 DEF DoneTo

\* At the end of a line.
LEMMA DoneLine ==
  ASSUME document \in Documents, NEW l \in 1..Len(document)
  PROVE  DoneTo(l, Len(Line(l))) = DoneTo(l + 1, 0)
<1>1. ASSUME NEW p \in WrongPlaces
      PROVE  (p[1] < l \/ (p[1] = l /\ p[2][1] <= Len(Line(l)))) <=> (p[1] < l + 1 \/ (p[1] = l + 1 /\ p[2][1] <= 0))
  <2>1. p[1] \in Nat /\ p[2][1] \in 1..Len(Line(p[1])) /\ p[2][1] \in Nat /\ p[2][1] > 0
        /\ Len(document) \in Nat
    BY PlaceFacts, DocumentSeq
  <2>2. p[1] = l => p[2][1] \in 1..Len(Line(l))
    BY <2>1
  <2>3. Len(Line(l)) \in Nat
    BY DocumentSeq
  <2> DEFINE n == Len(Line(l))
             b == p[2][1]
             a == p[1]
  <2>4. a \in Nat /\ b \in Nat /\ b > 0 /\ n \in Nat /\ (a = l => b \in 1..n) /\ l \in Nat
    BY <2>1, <2>2, <2>3
  <2> HIDE DEF n, a, b
  <2>5. (a < l \/ (a = l /\ b <= n)) <=> (a < l + 1 \/ (a = l + 1 /\ b <= 0))
    BY <2>4
  <2> QED BY <2>5 DEF a, b, n
<1> QED BY <1>1 DEF DoneTo

\* One more wrong word.
LEMMA DoneMore ==
  ASSUME document \in Documents, NEW l \in 1..Len(document), NEW k \in Nat, NEW m \in Nat,
         NEW r \in Wrong(l), r[1] = k + 1, k + 1 <= m,
         \A q \in Wrong(l) : q[1] \in k + 1..m => q = r
  PROVE  /\ <<l, r>> \in WrongPlaces /\ AllBefore(<<l, r>>) = DoneTo(l, k)
         /\ DoneTo(l, m) = DoneTo(l, k) \cup {<<l, r>>} /\ <<l, r>> \notin DoneTo(l, k)
<1> DEFINE w == <<l, r>>
<1>1. w \in WrongPlaces
  BY PlaceIs
<1>2. w[1] = l /\ w[2][1] = k + 1 /\ l \in Nat
  BY DocumentSeq
<1> HIDE DEF w
<1>3. ASSUME NEW p \in WrongPlaces
      PROVE  /\ Earlier(w, p) <=> p \in DoneTo(l, k)
             /\ p \in DoneTo(l, m) <=> p \in DoneTo(l, k) \/ p = w
  <2>1. p[1] \in Nat /\ p[2][1] \in Nat /\ p = <<p[1], p[2]>> /\ p[2] \in Wrong(p[1])
    BY PlaceFacts
  <2>2. Earlier(w, p) <=> p \in DoneTo(l, k)
    BY <1>2, <2>1 DEF Earlier, DoneTo
  <2>3. p \in DoneTo(l, k) => p \in DoneTo(l, m)
    BY <1>2, <2>1 DEF DoneTo
  <2>4. w \in DoneTo(l, m)
    BY <1>1, <1>2 DEF DoneTo
  <2>5. ASSUME p \in DoneTo(l, m), p \notin DoneTo(l, k)
        PROVE  p = w
    <3>1. p[1] = l /\ p[2][1] \in k + 1..m
      BY <1>2, <2>1, <2>5 DEF DoneTo
    <3>2. p[2] = r
      BY <2>1, <3>1
    <3> QED BY <2>1, <3>1, <3>2 DEF w
  <2> QED BY <2>2, <2>3, <2>4, <2>5
<1>4. w \notin DoneTo(l, k)
  BY <1>2 DEF DoneTo
<1>5. AllBefore(w) = DoneTo(l, k)
  BY <1>3 DEF AllBefore, DoneTo
<1>6. DoneTo(l, m) = DoneTo(l, k) \cup {w}
  <2>1. DoneTo(l, m) \subseteq WrongPlaces /\ DoneTo(l, k) \subseteq WrongPlaces
    BY DEF DoneTo
  <2> QED BY <1>1, <1>3, <2>1
<1> QED BY <1>1, <1>4, <1>5, <1>6 DEF w

\* What is said of it comes at the end.
LEMMA ReportMore ==
  ASSUME document \in Documents, NEW c \in Seq(Complaint), NEW D, D \subseteq WrongPlaces, Reported(c, D),
         NEW w \in WrongPlaces, w \notin D, AllBefore(w) = D, Said(w) \in Complaint
  PROVE  Reported(c \o <<Said(w)>>, D \cup {w}) /\ c \o <<Said(w)>> \in Seq(Complaint)
<1> DEFINE u == <<Said(w)>>
           d == c \o u
           n == Cardinality(D)
<1>1. IsFiniteSet(D) /\ Len(c) = n /\ \A p \in D : c[Cardinality(AllBefore(p)) + 1] = Said(p)
  BY DEF Reported
<1>2. n \in Nat
  BY <1>1, FS_CardinalityType
<1>3. IsFiniteSet(D \cup {w}) /\ Cardinality(D \cup {w}) = n + 1
  BY <1>1, FS_AddElement
<1>4. u \in Seq(Complaint) /\ Len(u) = 1 /\ u[1] = Said(w)
  OBVIOUS
<1> HIDE DEF u
<1>5. /\ d \in Seq(Complaint) /\ Len(d) = Len(c) + Len(u)
      /\ \A i \in 1..Len(c) + Len(u) : d[i] = IF i <= Len(c) THEN c[i] ELSE u[i - Len(c)]
  BY <1>4, ConcatProperties
<1> HIDE DEF d, n
<1>6. Len(d) = n + 1 /\ (\A i \in 1..n : d[i] = c[i]) /\ d[n + 1] = Said(w)
  <2>1. Len(c) = n /\ Len(u) = 1
    BY <1>1, <1>4
  <2>2. \A i \in 1..n + 1 : d[i] = IF i <= n THEN c[i] ELSE u[i - n]
    BY <1>5, <2>1
  <2>3. d[n + 1] = u[1]
    <3>1. n + 1 \in 1..n + 1 /\ ~(n + 1 <= n) /\ (n + 1) - n = 1
      BY <1>2
    <3> QED BY <2>2, <3>1
  <2> QED BY <1>2, <1>4, <1>5, <2>1, <2>2, <2>3
<1>7. ASSUME NEW p \in D PROVE d[Cardinality(AllBefore(p)) + 1] = Said(p)
  <2>1. AllBefore(p) \subseteq D \ {p}
    <3>1. ASSUME NEW q \in AllBefore(p) PROVE q \in D /\ q # p
      <4>1. q \in WrongPlaces /\ Earlier(p, q) /\ Earlier(w, p) /\ p \in WrongPlaces
        BY <3>1 DEF AllBefore
      <4>2. /\ q[1] \in Nat /\ q[2][1] \in Nat /\ p[1] \in Nat /\ p[2][1] \in Nat
            /\ w[1] \in Nat /\ w[2][1] \in Nat
        BY <4>1, PlaceFacts
      <4>3. Earlier(w, q) /\ q # p
        BY ONLY <4>1, <4>2 DEF Earlier
      <4> QED BY <4>1, <4>3 DEF AllBefore
    <3> QED BY <3>1
  <2> DEFINE m == Cardinality(AllBefore(p))
  <2>2. IsFiniteSet(D \ {p}) /\ Cardinality(D \ {p}) = n - 1
    BY <1>1, FS_RemoveElement DEF n
  <2>3. m \in Nat /\ m <= n - 1
    BY <2>1, <2>2, FS_Subset, FS_CardinalityType
  <2>4. c[m + 1] = Said(p)
    BY <1>1
  <2> HIDE DEF m
  <2>5. m + 1 \in 1..n
    BY <1>2, <2>3
  <2>6. d[m + 1] = c[m + 1]
    BY <1>6, <2>5
  <2> QED BY <2>4, <2>6 DEF m
<1>8. d[Cardinality(AllBefore(w)) + 1] = Said(w)
  BY <1>6 DEF n
<1> QED BY <1>3, <1>5, <1>6, <1>7, <1>8 DEF Reported, d, u

(***************************************************************************)
(* The inductive invariant: k characters of the line have been cut off.    *)
(***************************************************************************)
CutAt(t, l, k, c) == /\ Inside(t, Line(l), k) /\ k + Len(t) = Len(Line(l))
                     /\ t = <<>> \/ k = 0 \/ Line(l)[k] \notin ValidChars
                     /\ Reported(c, DoneTo(l, k))

SpellInv ==
    /\ document \in Documents /\ complaints \in Seq(Complaint)
    /\ linecount \in 1..Len(document) + 1
    /\ checking \in {"getline", "words", "ended"}
    /\ checking \in {"getline", "ended"} => Reported(complaints, DoneTo(linecount, 0))
    /\ checking = "ended" => linecount = Len(document) + 1
    /\ checking = "words" => /\ linecount <= Len(document)
                             /\ \E k \in Nat : CutAt(text, linecount, k, complaints)

\* The word that stands next in the line.
LEMMA NextIs ==
  ASSUME document \in Documents, NEW l \in 1..Len(document), NEW k \in Nat, NEW c, CutAt(text, l, k, c),
         text # <<>>, NEW f, f = Found, f > 1, linecount = l
  PROVE  /\ f \in 2..Len(text) + 1
         /\ <<k + 1, k + f - 1>> \in Runs(Line(l))
         /\ f <= Len(text) => Line(l)[k + f] \notin ValidChars
         /\ \A q \in Runs(Line(l)) :
               q[1] \in k + 1..(IF f <= Len(text) THEN k + f ELSE k + f - 1) => q = <<k + 1, k + f - 1>>
<1> DEFINE s == Line(l)
           n == Len(s)
           m == Len(text)
           r == <<k + 1, k + f - 1>>
<1>1. /\ text \in Seq(Character) /\ s \in Seq(Character)
      /\ k + m = n /\ \A i \in 1..m : text[i] = s[k + i]
      /\ k = 0 \/ s[k] \notin ValidChars
  BY DEF CutAt, Inside
<1>2. m \in Nat /\ n \in Nat
  BY <1>1, LenProperties
<1>3. /\ f \in 1..m + 1
      /\ \A i \in 1..f - 1 : text[i] \in ValidChars
      /\ f <= m => text[f] \notin ValidChars
  BY <1>1, FoundIs
<1> HIDE DEF s, n, m
<1>4. f \in 2..m + 1
  BY <1>2, <1>3
<1>5. f <= m => s[k + f] \notin ValidChars
  BY <1>1, <1>3, <1>4
<1>6. \A i \in k + 1..k + f - 1 : s[i] \in ValidChars
  <2> TAKE i \in k + 1..k + f - 1
  <2>1. i - k \in 1..f - 1 /\ i - k \in 1..m /\ k + (i - k) = i
    BY <1>2, <1>4
  <2> QED BY <1>1, <1>3, <2>1
<1>7. r \in Runs(s)
  <2>1. k + 1 \in 1..n /\ k + f - 1 \in 1..n /\ k + 1 <= k + f - 1
    BY <1>1, <1>2, <1>4
  <2>2. k + 1 = 1 \/ s[(k + 1) - 1] \notin ValidChars
    BY <1>1
  <2>3. k + f - 1 = n \/ s[(k + f - 1) + 1] \notin ValidChars
    <3>1. (k + f - 1) + 1 = k + f /\ (f <= m \/ k + f - 1 = n)
      BY <1>1, <1>2, <1>4
    <3> QED BY <1>5, <3>1
  <2> DEFINE a == k + 1
             b == k + f - 1
  <2>4. a \in 1..n /\ b \in 1..n /\ r = <<a, b>> /\ a <= b /\ (\A i \in a..b : s[i] \in ValidChars)
        /\ (a = 1 \/ s[a - 1] \notin ValidChars) /\ (b = n \/ s[b + 1] \notin ValidChars)
    BY <1>6, <2>1, <2>2, <2>3
  <2> HIDE DEF a, b, r
  <2> QED BY <1>1, <2>4, RunIs DEF n
<1>8. ASSUME NEW q \in Runs(s), q[1] \in k + 1..(IF f <= m THEN k + f ELSE k + f - 1)
      PROVE  q = r
  <2>1. r[1] = k + 1 /\ r[2] = k + f - 1
    OBVIOUS
  <2>2. CASE q[1] \in k + 1..k + f - 1
    <3> HIDE DEF r
    <3> QED BY <1>1, <1>7, <2>1, <2>2, RunsApart
  <2>3. CASE ~(q[1] \in k + 1..k + f - 1)
    <3>1. f <= m /\ q[1] = k + f
      BY <1>2, <1>4, <1>8, <2>3
    <3>2. PICK a \in 1..Len(s), b \in 1..Len(s) :
             q = <<a, b>> /\ a <= b /\ \A i \in a..b : s[i] \in ValidChars
      BY <1>1, RunIs
    <3>3. a \in a..b /\ a = k + f
      BY <1>2, <3>1, <3>2 DEF n
    <3> QED BY <1>5, <3>1, <3>2, <3>3
  <2> QED BY <2>2, <2>3
<1> QED BY <1>4, <1>5, <1>7, <1>8 DEF s, m

\* What is written for it.
LEMMA VerdictIs ==
  ASSUME document \in Documents, NEW l \in 1..Len(document), NEW k \in Nat, NEW c, CutAt(text, l, k, c),
         text # <<>>, NEW f, f = Found, f > 1, linecount = l, NEW r, r = <<k + 1, k + f - 1>>
  PROVE  /\ r \in Wrong(l) => /\ Verdict(SubSeq(text, 1, f - 1)) = <<Said(<<l, r>>)>>
                              /\ Said(<<l, r>>) \in Complaint
         /\ r \notin Wrong(l) => Verdict(SubSeq(text, 1, f - 1)) = <<>>
<1> DEFINE s == Line(l)
           w == SubSeq(text, 1, f - 1)
<1>0. f \in 2..Len(text) + 1 /\ r \in Runs(s) /\ Inside(text, s, k) /\ Len(text) \in Nat
  BY NextIs, LenProperties DEF CutAt, Inside
<1>1. f - 1 \in 0..Len(text) /\ k + (f - 1) = k + f - 1
  BY <1>0
<1>2. w = SubSeq(s, k + 1, k + f - 1) /\ Inside(w, s, k) /\ Len(w) = f - 1
  <2> DEFINE n == f - 1
  <2>1. n \in 0..Len(text) /\ k + n = k + f - 1
    BY <1>1
  <2> HIDE DEF n, s
  <2>2. SubSeq(text, 1, n) = SubSeq(s, k + 1, k + n) /\ Inside(SubSeq(text, 1, n), s, k) /\ Len(SubSeq(text, 1, n)) = n
    <3>1. Inside(text, s, k)
      BY <1>0 DEF s
    <3>2. Piece(text, s, k, n)
      BY <2>1, <3>1, PieceIs
    <3> QED BY <3>2 DEF Piece
  <2> QED BY <2>1, <2>2 DEF n
<1>3. r[1] = k + 1 /\ r[2] = k + f - 1 /\ MaxWord \in Nat \ {0} /\ l \in Nat
  BY SpellAssumption, DocumentSeq
<1> HIDE DEF w
<1>4. Len(w) > MaxWord <=> r[2] - r[1] >= MaxWord
  BY <1>0, <1>2, <1>3
<1>5. ToSet(w) \cap DigitChars = {} <=> \A i \in r[1]..r[2] : s[i] \notin DigitChars
  <2>1. DOMAIN w = 1..f - 1 /\ \A i \in 1..f - 1 : w[i] = s[k + i]
    BY <1>2, LenProperties DEF Inside
  <2>2. ASSUME NEW i \in r[1]..r[2] PROVE i - k \in 1..f - 1 /\ k + (i - k) = i
    BY <1>0, <1>3
  <2>3. \A j \in 1..f - 1 : k + j \in r[1]..r[2]
    BY <1>0, <1>3
  <2>4. ASSUME ToSet(w) \cap DigitChars = {}, NEW i \in r[1]..r[2] PROVE s[i] \notin DigitChars
    <3>1. w[i - k] = s[i] /\ i - k \in DOMAIN w
      BY <2>1, <2>2
    <3> QED BY <2>4, <3>1 DEF ToSet
  <2>5. ASSUME \A i \in r[1]..r[2] : s[i] \notin DigitChars PROVE ToSet(w) \cap DigitChars = {}
    <3>1. \A j \in DOMAIN w : w[j] \notin DigitChars
      BY <2>1, <2>3, <2>5
    <3> QED BY <3>1 DEF ToSet
  <2> QED BY <2>4, <2>5
<1>6. r \in Wrong(l) <=> Len(w) > MaxWord \/ (w \notin dictionary /\ ToSet(w) \cap DigitChars = {})
  <2>1. w = SubSeq(s, r[1], r[2])
    BY <1>2, <1>3
  <2>2. r \in Wrong(l) <=> \/ r[2] - r[1] >= MaxWord
                           \/ SubSeq(s, r[1], r[2]) \notin dictionary /\ \A i \in r[1]..r[2] : s[i] \notin DigitChars
    BY <1>0 DEF Wrong, Line
  <2> QED BY <1>4, <1>5, <2>1, <2>2
<1> DEFINE p == <<l, r>>
<1>7. p[1] = l /\ p[2] = r
  OBVIOUS
<1> HIDE DEF p
<1>8. CASE Len(w) > MaxWord
  <2>1. Verdict(w) = <<<<l, "long", SubSeq(w, 1, MaxWord)>>>>
    BY <1>8 DEF Verdict
  <2>2. MaxWord \in 0..Len(w)
    BY <1>0, <1>2, <1>3, <1>8
  <2>3. SubSeq(w, 1, MaxWord) = SubSeq(s, k + 1, k + MaxWord) /\ SubSeq(w, 1, MaxWord) \in Seq(Character)
    <3> HIDE DEF s
    <3>1. Inside(w, s, k)
      BY <1>2 DEF s
    <3>2. SubSeq(w, 1, MaxWord) = SubSeq(s, k + 1, k + MaxWord) /\ Inside(SubSeq(w, 1, MaxWord), s, k)
      <4>1. Piece(w, s, k, MaxWord)
        BY <2>2, <3>1, PieceIs
      <4> QED BY <4>1 DEF Piece
    <3> QED BY <3>2 DEF Inside
  <2>4. r[1] + MaxWord - 1 = k + MaxWord
    BY <1>3
  <2>5. Said(p) = <<l, "long", SubSeq(w, 1, MaxWord)>>
    BY <1>3, <1>4, <1>7, <1>8, <2>3, <2>4 DEF Said, Long
  <2>6. Said(p) \in Complaint
    <3> DEFINE z == SubSeq(w, 1, MaxWord)
    <3>1. z \in Seq(Character) /\ l \in Nat
      BY <1>3, <2>3
    <3> HIDE DEF z
    <3>2. <<l, "long", z>> \in Complaint
      BY ONLY <3>1 DEF Complaint
    <3> QED BY <2>5, <3>2 DEF z
  <2> QED BY <1>6, <1>8, <2>1, <2>5, <2>6 DEF w, p
<1>9. CASE ~(Len(w) > MaxWord)
  <2>1. Verdict(w) = IF w \notin dictionary /\ ToSet(w) \cap DigitChars = {} THEN <<<<l, "unknown", w>>>> ELSE <<>>
    BY <1>9 DEF Verdict
  <2>2. Said(p) = <<l, "unknown", w>>
    BY <1>2, <1>3, <1>4, <1>7, <1>9 DEF Said, Long
  <2>3. w \in Seq(Character)
    BY <1>2 DEF Inside
  <2>4. Said(p) \in Complaint
    BY <1>3, <2>2, <2>3 DEF Complaint
  <2> QED BY <1>6, <1>9, <2>1, <2>2, <2>4 DEF w, p
<1> QED BY <1>8, <1>9

\* What is left once the first f characters are cut out, f being the place that
\* was found: it stands in the line after place m.
CutTo(f, k) == IF f <= Len(text) THEN k + f ELSE k + f - 1
Left(u, l, m) == /\ Inside(u, Line(l), m) /\ m + Len(u) = Len(Line(l))
                 /\ u = <<>> \/ Line(l)[m] \notin ValidChars

LEMMA LeftIs ==
  ASSUME document \in Documents, NEW l \in 1..Len(document), NEW k \in Nat, NEW c, CutAt(text, l, k, c),
         text # <<>>, NEW f, f = Found, NEW u, u = SubSeq(text, f + 1, Len(text))
  PROVE  /\ CutTo(f, k) \in Nat /\ k + 1 <= CutTo(f, k) /\ Left(u, l, CutTo(f, k))
         /\ f \in 1..Len(text) + 1
<1> DEFINE s == Line(l)
           n == Len(s)
           m == Len(text)
<1>1. /\ text \in Seq(Character) /\ s \in Seq(Character) /\ Inside(text, s, k)
      /\ k + m = n /\ \A i \in 1..m : text[i] = s[k + i]
  BY DEF CutAt, Inside
<1>2. m \in Nat /\ n \in Nat /\ m > 0
  BY <1>1, LenProperties, EmptySeq
<1>3. f \in 1..m + 1 /\ (f <= m => text[f] \notin ValidChars)
  BY <1>1, FoundIs
<1>4. Rest(text, s, k, f)
  <2>1. f \in Nat
    BY <1>2, <1>3
  <2> HIDE DEF s
  <2> QED BY <1>1, <2>1, RestIs
<1>5. CASE f <= m
  <2>1. CutTo(f, k) = k + f
    BY <1>5 DEF CutTo
  <2>2. Inside(u, s, k + f) /\ Len(u) = m - f
    BY <1>4, <1>5 DEF Rest
  <2> HIDE DEF s, n, m
  <2>3. s[k + f] \notin ValidChars
    BY <1>1, <1>3, <1>5
  <2>4. k + f \in Nat /\ k + 1 <= k + f /\ (k + f) + Len(u) = n
    <3>1. f \in 1..m + 1 /\ k + m = n /\ Len(u) = m - f
      BY <1>1, <1>3, <2>2
    <3> QED BY ONLY <1>2, <3>1, k \in Nat
  <2> QED BY <1>3, <2>1, <2>2, <2>3, <2>4 DEF Left, s, n, m
<1>6. CASE ~(f <= m)
  <2>1. CutTo(f, k) = k + f - 1
    BY <1>6 DEF CutTo
  <2>2. u = <<>>
    BY <1>2, <1>3, <1>4, <1>6 DEF Rest
  <2> HIDE DEF s, n, m
  <2>3. f = m + 1 /\ k + f - 1 = n /\ k + 1 <= n
    BY <1>1, <1>2, <1>3, <1>6
  <2>4. u \in Seq(Character) /\ Len(u) = 0
    <3>1. \A v : v = <<>> => v \in Seq(Character) /\ Len(v) = 0
      OBVIOUS
    <3> QED BY ONLY <2>2, <3>1
  <2>5. Inside(u, s, n)
    BY <1>1, <1>2, <2>4 DEF Inside, n
  <2>6. n + Len(u) = n
    BY <1>2, <2>4
  <2> QED BY <1>2, <1>3, <2>1, <2>2, <2>3, <2>5, <2>6 DEF Left, s, n, m
<1> QED BY <1>5, <1>6

LEMMA TailIs ==
  ASSUME NEW t \in Seq(Character), t # <<>>
  PROVE  Tail(t) = SubSeq(t, 1 + 1, Len(t))
<1> DEFINE n == Len(t)
           a == SubSeq(t, 2, n)
           b == Tail(t)
<1>1. n \in Nat /\ n > 0 /\ \A i \in 1..n : t[i] \in Character
  BY LenProperties, EmptySeq
<1>2. b \in Seq(Character) /\ Len(b) = n - 1 /\ \A i \in 1..Len(b) : b[i] = t[i + 1]
  BY HeadTailProperties
<1> HIDE DEF n
<1>3. a \in Seq(Character) /\ Len(a) = n - 1 /\ \A i \in 1..n - 1 : a[i] = t[i + 1]
  <2>1. 2 \in Int /\ n \in Int /\ \A i \in 2..n : t[i] \in Character
    BY <1>1
  <2>2. /\ a \in Seq(Character) /\ Len(a) = IF 2 <= n THEN n - 2 + 1 ELSE 0
        /\ \A i \in 1..n - 2 + 1 : a[i] = t[2 + i - 1]
    BY <2>1, SubSeqProperties
  <2> HIDE DEF a
  <2> QED BY <1>1, <2>2
<1> HIDE DEF a, b
<1>4. \A i \in 1..Len(a) : a[i] = b[i]
  BY <1>1, <1>2, <1>3
<1>5. a = b
  BY <1>2, <1>3, <1>4, SeqEqual
<1> QED BY <1>5 DEF a, b, n

(***************************************************************************)
(* The steps.                                                              *)
(***************************************************************************)
LEMMA InitSpell == SpellInit => SpellInv
<1> SUFFICES ASSUME SpellInit PROVE SpellInv
  OBVIOUS
<1>1. /\ document \in Documents /\ checking = "getline" /\ linecount = 1 /\ complaints = <<>>
  BY DEF SpellInit
<1>2. DoneTo(1, 0) = {}
  <2> SUFFICES ASSUME NEW p \in WrongPlaces, p[1] < 1 \/ (p[1] = 1 /\ p[2][1] <= 0) PROVE FALSE
    BY DEF DoneTo
  <2>1. p[1] \in 1..Len(document) /\ p[1] \in Nat /\ p[2][1] \in Nat /\ p[2][1] > 0 /\ Len(document) \in Nat
    BY <1>1, PlaceFacts, DocumentSeq
  <2> QED BY <2>1
<1>3. Reported(complaints, DoneTo(linecount, 0))
  BY <1>1, <1>2, FS_EmptySet DEF Reported
<1>4. linecount \in 1..Len(document) + 1 /\ complaints \in Seq(Complaint)
  BY <1>1, DocumentSeq
<1> QED BY <1>1, <1>3, <1>4 DEF SpellInv

LEMMA SpellSteady ==
  ASSUME document' = document, dictionary' = dictionary
  PROVE  /\ Reported(complaints', DoneTo(linecount', 0)) => Reported(complaints, DoneTo(linecount, 0))'
         /\ \A k : CutAt(text', linecount', k, complaints') => CutAt(text, linecount, k, complaints)'
         /\ Complaint' = Complaint
<1>1. \A l : Line(l)' = Line(l)
  BY DEF Line, Lowered
<1>2. \A l : Wrong(l)' = Wrong(l)
  BY DEF Wrong, Lowered
<1>3. WrongPlaces' = WrongPlaces
  <2>1. Places' = Places
    BY <1>2 DEF Places
  <2> QED BY <1>2, <2>1 DEF WrongPlaces
<1>4. \A p : AllBefore(p)' = AllBefore(p) /\ Said(p)' = Said(p)
  BY <1>1, <1>3 DEF AllBefore, Earlier, Said, Long
<1>5. \A k : DoneTo(linecount, k)' = DoneTo(linecount', k)
  BY <1>3 DEF DoneTo
<1>6. \A k : Reported(complaints, DoneTo(linecount, k))' <=> Reported(complaints', DoneTo(linecount', k))
  BY <1>4, <1>5 DEF Reported
<1>7. Line(linecount)' = Line(linecount')
  BY DEF Line, Lowered
<1>8. \A k : CutAt(text, linecount, k, complaints)' <=> CutAt(text', linecount', k, complaints')
  BY <1>6, <1>7 DEF CutAt, Inside, Character
<1> QED BY <1>6, <1>8 DEF Complaint, Character

\* Nothing begins where a delimiter stands.
LEMMA DelimiterStep ==
  ASSUME document \in Documents, NEW l \in 1..Len(document), NEW k \in Nat, NEW c, CutAt(text, l, k, c),
         text # <<>>, Found = 1, NEW u, u = Tail(text)
  PROVE  CutAt(u, l, k + 1, c)
<1> DEFINE f == Found
           s == Line(l)
<1>1. /\ text \in Seq(Character) /\ s \in Seq(Character) /\ Inside(text, s, k)
      /\ \A i \in 1..Len(text) : text[i] = s[k + i]
  BY DEF CutAt, Inside
<1>2. Len(text) \in Nat /\ Len(text) > 0 /\ Len(s) \in Nat
  BY <1>1, LenProperties, EmptySeq
<1>3. u = SubSeq(text, f + 1, Len(text))
  BY <1>1, TailIs
<1>4. CutTo(f, k) = k + 1
  BY <1>2 DEF CutTo
<1> HIDE DEF f
<1>5. Left(u, l, CutTo(f, k))
  BY <1>3, LeftIs DEF f
<1>6. Left(u, l, k + 1)
  BY <1>4, <1>5
<1>7. text[1] = s[k + 1] /\ text[1] \notin ValidChars
  <2>1. 1 \in 1..Len(text) /\ 1 <= Len(text)
    BY <1>2
  <2> QED BY <1>1, <2>1, FoundIs
<1>8. \A r \in Wrong(l) : ~(r[1] \in k + 1..k + 1)
  <2> SUFFICES ASSUME NEW r \in Wrong(l), r[1] \in k + 1..k + 1 PROVE FALSE
    OBVIOUS
  <2>1. r \in Runs(s)
    BY DEF Wrong, Line
  <2> HIDE DEF s
  <2>2. PICK a \in 1..Len(s), b \in 1..Len(s) : r = <<a, b>> /\ a <= b /\ \A i \in a..b : s[i] \in ValidChars
    BY <1>1, <2>1, RunIs
  <2>3. a \in a..b /\ a = k + 1
    BY <1>2, <2>2
  <2> QED BY <1>7, <2>2, <2>3
<1>9. DoneTo(l, k + 1) = DoneTo(l, k)
  <2>1. l \in Nat /\ k + 1 \in Nat /\ k <= k + 1
    BY DocumentSeq
  <2> QED BY <1>8, <2>1, DoneSame
<1>10. Reported(c, DoneTo(l, k + 1))
  BY <1>9 DEF CutAt
<1> QED BY <1>6, <1>10 DEF CutAt, Left

\* A word is cut out, and is reported if it is wrong.
LEMMA WordStep ==
  ASSUME document \in Documents, NEW l \in 1..Len(document), linecount = l, NEW k \in Nat,
         NEW c \in Seq(Complaint), CutAt(text, l, k, c), text # <<>>, NEW f, f = Found, f > 1,
         NEW u, u = SubSeq(text, f + 1, Len(text)), NEW v, v = Verdict(SubSeq(text, 1, f - 1))
  PROVE  CutAt(u, l, CutTo(f, k), c \o v) /\ c \o v \in Seq(Complaint) /\ CutTo(f, k) \in Nat
<1> DEFINE s == Line(l)
           m == CutTo(f, k)
           r == <<k + 1, k + f - 1>>
<1>1. m \in Nat /\ k + 1 <= m /\ Left(u, l, m)
  BY LeftIs
<1>2. r \in Runs(s) /\ \A q \in Runs(s) : q[1] \in k + 1..m => q = r
  BY NextIs DEF CutTo
<1>3. \A q \in Wrong(l) : q \in Runs(s)
  BY DEF Wrong, Line
<1>4. r[1] = k + 1 /\ l \in Nat /\ k <= m
  BY <1>1, DocumentSeq
<1>5. Reported(c, DoneTo(l, k))
  BY DEF CutAt
<1>6. /\ r \in Wrong(l) => v = <<Said(<<l, r>>)>> /\ Said(<<l, r>>) \in Complaint
      /\ r \notin Wrong(l) => v = <<>>
  BY VerdictIs
<1> HIDE DEF s, m, r
<1>7. CASE r \in Wrong(l)
  <2> DEFINE w == <<l, r>>
  <2>1. \A q \in Wrong(l) : q[1] \in k + 1..m => q = r
    BY <1>2, <1>3
  <2>2. w \in WrongPlaces /\ AllBefore(w) = DoneTo(l, k)
        /\ DoneTo(l, m) = DoneTo(l, k) \cup {w} /\ w \notin DoneTo(l, k)
    BY <1>1, <1>4, <1>7, <2>1, DoneMore
  <2>3. v = <<Said(w)>> /\ Said(w) \in Complaint
    BY <1>6, <1>7
  <2>4. DoneTo(l, k) \subseteq WrongPlaces
    BY DEF DoneTo
  <2> HIDE DEF w
  <2>5. Reported(c \o <<Said(w)>>, DoneTo(l, k) \cup {w}) /\ c \o <<Said(w)>> \in Seq(Complaint)
    BY <1>5, <2>2, <2>3, <2>4, ReportMore
  <2>6. Reported(c \o v, DoneTo(l, m)) /\ c \o v \in Seq(Complaint)
    BY <2>2, <2>3, <2>5
  <2> QED BY <1>1, <2>6 DEF CutAt, Left, m
<1>8. CASE r \notin Wrong(l)
  <2>1. \A q \in Wrong(l) : ~(q[1] \in k + 1..m)
    BY <1>2, <1>3, <1>8
  <2>2. DoneTo(l, m) = DoneTo(l, k)
    BY <1>1, <1>4, <2>1, DoneSame
  <2>3. c \o v = c
    BY <1>6, <1>8, ConcatEmptySeq
  <2>4. Reported(c, DoneTo(l, m))
    BY <1>5, <2>2
  <2> QED BY <1>1, <2>3, <2>4 DEF CutAt, Left, m
<1> QED BY <1>7, <1>8

LEMMA SpellInvStep == SpellInv /\ [SpellNext]_spellVars => SpellInv'
<1> SUFFICES ASSUME SpellInv, [SpellNext]_spellVars PROVE SpellInv'
  OBVIOUS
<1>0. document \in Documents /\ Len(document) \in Nat /\ linecount \in Nat
  <2>1. document \in Documents /\ linecount \in 1..Len(document) + 1
    BY DEF SpellInv
  <2> QED BY <2>1, DocumentSeq
<1>1. CASE GetLine
  <2>1. /\ document' = document /\ dictionary' = dictionary /\ linecount' = linecount
        /\ complaints' = complaints /\ checking' = "words" /\ text' = Line(linecount)
        /\ linecount \in 1..Len(document) /\ linecount <= Len(document)
        /\ complaints \in Seq(Complaint) /\ Reported(complaints, DoneTo(linecount, 0))
    <3>1. linecount \in 1..Len(document)
      BY <1>0, <1>1 DEF GetLine, SpellInv
    <3> QED BY <1>1, <3>1 DEF GetLine, SpellInv, Line
  <2>2. Line(linecount) \in Seq(Character) /\ Len(Line(linecount)) \in Nat
    BY <1>0, <2>1, DocumentSeq
  <2>3. CutAt(text', linecount', 0, complaints')
    BY <2>1, <2>2 DEF CutAt, Inside
  <2>4. CutAt(text, linecount, 0, complaints)' /\ Complaint' = Complaint
    BY <2>1, <2>3, SpellSteady
  <2> QED BY <1>0, <2>1, <2>4 DEF SpellInv
<1>2. CASE EndOfDocument
  <2>1. /\ document' = document /\ dictionary' = dictionary /\ linecount' = linecount
        /\ complaints' = complaints /\ checking' = "ended"
        /\ linecount \in 1..Len(document) + 1 /\ linecount = Len(document) + 1
        /\ complaints \in Seq(Complaint) /\ Reported(complaints, DoneTo(linecount, 0))
    <3>1. linecount = Len(document) + 1
      BY <1>0, <1>2 DEF EndOfDocument, SpellInv
    <3> QED BY <1>2, <3>1 DEF EndOfDocument, SpellInv
  <2>2. Reported(complaints, DoneTo(linecount, 0))' /\ Complaint' = Complaint
    BY <2>1, SpellSteady
  <2> QED BY <1>0, <2>1, <2>2 DEF SpellInv
<1>3. CASE Delimiter
  <2>1. /\ document' = document /\ dictionary' = dictionary /\ linecount' = linecount
        /\ complaints' = complaints /\ checking' = "words" /\ text' = Tail(text) /\ text # <<>> /\ Found = 1
        /\ linecount <= Len(document)
        /\ complaints \in Seq(Complaint)
    BY <1>3 DEF Delimiter, SpellInv
  <2>2. PICK k \in Nat : CutAt(text, linecount, k, complaints)
    BY <1>3 DEF Delimiter, SpellInv
  <2>3. linecount \in 1..Len(document)
    BY <1>0, <2>1 DEF SpellInv
  <2>4. CutAt(text', linecount', k + 1, complaints')
    BY <1>0, <2>1, <2>2, <2>3, DelimiterStep
  <2>5. CutAt(text, linecount, k + 1, complaints)' /\ Complaint' = Complaint
    BY <2>1, <2>4, SpellSteady
  <2>6. k + 1 \in Nat
    BY <2>2
  <2> QED BY <1>0, <2>1, <2>3, <2>5, <2>6 DEF SpellInv
<1>4. CASE NextWord
  <2> DEFINE v == Verdict(SubSeq(text, 1, Found - 1))
  <2>1. /\ document' = document /\ dictionary' = dictionary /\ linecount' = linecount
        /\ complaints' = complaints \o v /\ checking' = "words"
        /\ text' = SubSeq(text, Found + 1, Len(text)) /\ text # <<>> /\ Found > 1
        /\ linecount <= Len(document)
        /\ complaints \in Seq(Complaint)
    BY <1>4 DEF NextWord, SpellInv
  <2>2. PICK k \in Nat : CutAt(text, linecount, k, complaints)
    BY <1>4 DEF NextWord, SpellInv
  <2>3. linecount \in 1..Len(document)
    BY <1>0, <2>1 DEF SpellInv
  <2> DEFINE f == Found
  <2>4. text' = SubSeq(text, f + 1, Len(text)) /\ f > 1 /\ f = Found /\ v = Verdict(SubSeq(text, 1, f - 1))
    BY <2>1
  <2> HIDE DEF f, v
  <2>5. CutAt(text', linecount', CutTo(f, k), complaints') /\ complaints' \in Seq(Complaint) /\ CutTo(f, k) \in Nat
    BY <1>0, <2>1, <2>2, <2>3, <2>4, WordStep
  <2>6. PICK m \in Nat : CutAt(text', linecount', m, complaints')
    BY <2>5
  <2>7. CutAt(text, linecount, m, complaints)' /\ Complaint' = Complaint
    BY <2>1, <2>6, SpellSteady
  <2>8. complaints' \in Seq(Complaint)'
    BY <2>5, <2>7
  <2> HIDE DEF v
  <2> QED BY <1>0, <2>1, <2>3, <2>6, <2>7, <2>8 DEF SpellInv
<1>5. CASE EndOfLine
  <2>1. /\ document' = document /\ dictionary' = dictionary /\ linecount' = linecount + 1
        /\ complaints' = complaints /\ checking' = "getline" /\ text = <<>>
        /\ linecount <= Len(document)
        /\ complaints \in Seq(Complaint)
    BY <1>5 DEF EndOfLine, SpellInv
  <2>2. PICK k \in Nat : CutAt(text, linecount, k, complaints)
    BY <1>5 DEF EndOfLine, SpellInv
  <2>3. linecount \in 1..Len(document)
    BY <1>0, <2>1 DEF SpellInv
  <2>4. k = Len(Line(linecount)) /\ Reported(complaints, DoneTo(linecount, k))
    <3>1. k + Len(text) = Len(Line(linecount)) /\ Reported(complaints, DoneTo(linecount, k))
      BY <2>2 DEF CutAt
    <3>2. Len(text) = 0
      BY <2>1
    <3> QED BY <2>2, <3>1, <3>2
  <2>5. Reported(complaints', DoneTo(linecount', 0))
    BY <1>0, <2>1, <2>3, <2>4, DoneLine
  <2>6. Reported(complaints, DoneTo(linecount, 0))' /\ Complaint' = Complaint
    BY <2>1, <2>5, SpellSteady
  <2>7. linecount' \in 1..Len(document') + 1
    BY <1>0, <2>1, <2>3
  <2> QED BY <1>0, <2>1, <2>6, <2>7 DEF SpellInv
<1>6. CASE UNCHANGED spellVars
  <2>1. /\ document' = document /\ dictionary' = dictionary /\ linecount' = linecount /\ checking' = checking
        /\ complaints' = complaints /\ text' = text
    BY <1>6 DEF spellVars
  <2>2. /\ Reported(complaints, DoneTo(linecount, 0)) => Reported(complaints, DoneTo(linecount, 0))'
        /\ \A k : CutAt(text, linecount, k, complaints) => CutAt(text, linecount, k, complaints)'
        /\ Complaint' = Complaint
    BY <2>1, SpellSteady
  <2> QED BY <2>1, <2>2 DEF SpellInv
<1> QED BY <1>1, <1>2, <1>3, <1>4, <1>5, <1>6 DEF SpellNext

LEMMA SpellInvImplies == SpellInv => ReportsRight
<1> SUFFICES ASSUME SpellInv PROVE ReportsRight
  OBVIOUS
<1>1. CASE checking # "ended"
  BY <1>1 DEF ReportsRight
<1>2. CASE checking = "ended"
  <2>1. /\ document \in Documents /\ linecount = Len(document) + 1
        /\ Reported(complaints, DoneTo(linecount, 0))
    BY <1>2 DEF SpellInv
  <2>2. DoneTo(linecount, 0) = WrongPlaces
    <3>1. ASSUME NEW p \in WrongPlaces PROVE p[1] < linecount
      BY <2>1, PlaceFacts, DocumentSeq
    <3> QED BY <3>1 DEF DoneTo
  <2>3. /\ Len(complaints) = Cardinality(WrongPlaces)
        /\ \A p \in WrongPlaces : complaints[Cardinality(AllBefore(p)) + 1] = Said(p)
    BY <2>1, <2>2 DEF Reported
  <2>4. Len(complaints) = Cardinality(WrongPlaces)
    BY <2>3
  <2>5. ASSUME NEW p \in WrongPlaces PROVE complaints[Cardinality(AllBefore(p)) + 1] = Said(p)
    BY <2>3
  <2>6. ReportsRight <=>
          /\ Len(complaints) = Cardinality(WrongPlaces)
          /\ \A p \in WrongPlaces : complaints[Cardinality(AllBefore(p)) + 1] = Said(p)
    BY <1>2, SMTT(60) DEF ReportsRight, WrongPlaces, Places, AllBefore, Earlier, Said, Long, Line
  <2> QED BY <2>4, <2>5, <2>6
<1> QED BY <1>1, <1>2

\* When the document has been read the complaints are those of its wrong words,
\* one for each, in the order of the text, with their lines, for any document,
\* dictionary and longest length (spellcheck.cpp:46-83).
THEOREM SpellReports == SpellSpec => []ReportsRight
<1>1. SpellInit => SpellInv
  BY InitSpell
<1>2. SpellInv /\ [SpellNext]_spellVars => SpellInv'
  BY SpellInvStep
<1>3. SpellInv => ReportsRight
  BY SpellInvImplies
<1> QED BY <1>1, <1>2, <1>3, PTL DEF SpellSpec

------------------------------------------------------------------------------

(***************************************************************************)
(* Whether a line is a merge of two others (Merge.tla).                    *)
(***************************************************************************)

(***************************************************************************)
(* Positions of merge.                                                     *)
(***************************************************************************)
\* How many of P are among the first k.
AmongFirst(P, k) == Cardinality(P \cap (1..k))

LEMMA PartFinite ==
  ASSUME NEW n \in Nat, NEW P \in SUBSET (1..n)
  PROVE  IsFiniteSet(P) /\ Cardinality(P) \in Nat
<1>1. IsFiniteSet(1..n)
  BY FS_Interval
<1> QED BY <1>1, FS_Subset, FS_CardinalityType

\* One more position.
LEMMA StandsMore ==
  ASSUME NEW s, NEW i \in Nat, NEW n \in Nat, NEW P \in SUBSET (1..n), Stands(s, i, P),
         merge[n + 1] = s[i + 1]
  PROVE  Stands(s, i + 1, P \cup {n + 1})
<1> DEFINE Q == P \cup {n + 1}
<1>1. IsFiniteSet(P) /\ n + 1 \notin P /\ Cardinality(P) = i
  <2>1. n + 1 \notin P
    OBVIOUS
  <2>2. IsFiniteSet(P)
    BY PartFinite
  <2> QED BY <2>1, <2>2 DEF Stands
<1>2. Cardinality(Q) = i + 1
  BY <1>1, FS_AddElement
<1>3. ASSUME NEW p \in P PROVE merge[p] = s[Cardinality({q \in Q : q <= p})]
  <2>1. {q \in Q : q <= p} = {q \in P : q <= p}
    <3>1. p \in Nat /\ p <= n /\ ~(n + 1 <= p)
      OBVIOUS
    <3> QED BY <3>1
  <2> QED BY <2>1 DEF Stands
<1>4. {q \in Q : q <= n + 1} = Q
  <2>1. \A q \in Q : q <= n + 1
    OBVIOUS
  <2> QED BY <2>1
<1>5. ASSUME NEW p \in Q PROVE merge[p] = s[Cardinality({q \in Q : q <= p})]
  <2>1. p \in P \/ p = n + 1
    OBVIOUS
  <2> HIDE DEF Q
  <2> QED BY <1>2, <1>3, <1>4, <2>1
<1> HIDE DEF Q
<1>6. Stands(s, i + 1, Q)
  BY <1>2, <1>5 DEF Stands
<1> QED BY <1>6 DEF Q

\* One less.
LEMMA StandsLess ==
  ASSUME NEW s, NEW i, NEW n \in Nat, NEW P \in SUBSET (1..n + 1), n + 1 \in P, Stands(s, i, P)
  PROVE  /\ i \in Nat /\ i > 0 /\ merge[n + 1] = s[i]
         /\ P \ {n + 1} \in SUBSET (1..n) /\ Stands(s, i - 1, P \ {n + 1})
<1> DEFINE Q == P \ {n + 1}
<1>1. IsFiniteSet(P) /\ Cardinality(P) = i /\ i \in Nat
  <2>1. n + 1 \in Nat
    OBVIOUS
  <2> QED BY <2>1, PartFinite DEF Stands
<1>2. Q \in SUBSET (1..n)
  <2>1. \A q \in 1..n + 1 : q # n + 1 => q \in 1..n
    OBVIOUS
  <2> QED BY <2>1
<1>3. Cardinality(Q) = i - 1 /\ i > 0
  <2>1. Cardinality(Q) = i - 1
    BY <1>1, FS_RemoveElement
  <2>2. Cardinality(Q) \in Nat
    BY <1>2, PartFinite
  <2> HIDE DEF Q
  <2> QED BY <1>1, <2>1, <2>2
<1>4. merge[n + 1] = s[i]
  <2>1. \A q \in P : q <= n + 1
    OBVIOUS
  <2>2. {q \in P : q <= n + 1} = P
    BY <2>1
  <2> QED BY <1>1, <2>2 DEF Stands
<1>5. ASSUME NEW p \in Q PROVE merge[p] = s[Cardinality({q \in Q : q <= p})]
  <2>1. {q \in Q : q <= p} = {q \in P : q <= p} /\ p \in P
    <3>1. p \in 1..n /\ ~(n + 1 <= p)
      BY <1>2
    <3> QED BY <3>1
  <2> QED BY <2>1 DEF Stands
<1> HIDE DEF Q
<1>6. Stands(s, i - 1, Q)
  BY <1>3, <1>5 DEF Stands
<1> QED BY <1>1, <1>2, <1>3, <1>4, <1>6 DEF Q

(***************************************************************************)
(* Ways to take one more letter, or one less.                              *)
(***************************************************************************)
LEMMA WayA ==
  ASSUME NEW i \in Nat, NEW j \in Nat, NEW P \in WaysTo(i, j),
         i + j + 1 <= Len(merge), merge[i + j + 1] = wordA[i + 1]
  PROVE  P \cup {i + j + 1} \in WaysTo(i + 1, j)
<1> DEFINE n == i + j
           Q == P \cup {n + 1}
<1>1. n \in Nat /\ (i + 1) + j = n + 1 /\ i + j + 1 = n + 1
  OBVIOUS
<1>2. P \in SUBSET (1..n) /\ Stands(wordA, i, P) /\ Stands(wordB, j, (1..n) \ P)
  BY DEF WaysTo
<1>3. merge[n + 1] = wordA[i + 1] /\ n + 1 <= Len(merge)
  OBVIOUS
<1> HIDE DEF n
<1>4. Stands(wordA, i + 1, Q)
  BY <1>1, <1>2, <1>3, StandsMore
<1>5. Q \in SUBSET (1..n + 1) /\ (1..n + 1) \ Q = (1..n) \ P
  <2>1. \A q : q \in 1..n + 1 <=> q \in 1..n \/ q = n + 1
    BY <1>1
  <2>2. n + 1 \notin 1..n
    BY <1>1
  <2> QED BY <1>2, <2>1, <2>2
<1> HIDE DEF Q
<1>6. Q \in WaysTo(i + 1, j)
  BY <1>1, <1>2, <1>3, <1>4, <1>5 DEF WaysTo
<1> QED BY <1>1, <1>6 DEF Q

LEMMA WayB ==
  ASSUME NEW i \in Nat, NEW j \in Nat, NEW P \in WaysTo(i, j),
         i + j + 1 <= Len(merge), merge[i + j + 1] = wordB[j + 1]
  PROVE  P \in WaysTo(i, j + 1)
<1> DEFINE n == i + j
           Q == ((1..n) \ P) \cup {n + 1}
<1>1. n \in Nat /\ i + (j + 1) = n + 1 /\ i + j + 1 = n + 1
  OBVIOUS
<1>2. P \in SUBSET (1..n) /\ Stands(wordA, i, P) /\ Stands(wordB, j, (1..n) \ P)
  BY DEF WaysTo
<1>3. merge[n + 1] = wordB[j + 1] /\ n + 1 <= Len(merge)
  OBVIOUS
<1> HIDE DEF n
<1>4. Stands(wordB, j + 1, Q)
  <2> DEFINE R == (1..n) \ P
  <2>1. R \in SUBSET (1..n) /\ Stands(wordB, j, R)
    BY <1>2
  <2> HIDE DEF R
  <2>2. Stands(wordB, j + 1, R \cup {n + 1})
    BY <1>1, <1>3, <2>1, StandsMore
  <2> QED BY <2>2 DEF R
<1>5. P \in SUBSET (1..n + 1) /\ (1..n + 1) \ P = Q
  <2>1. \A q : q \in 1..n + 1 <=> q \in 1..n \/ q = n + 1
    BY <1>1
  <2>2. n + 1 \notin 1..n
    BY <1>1
  <2> QED BY <1>2, <2>1, <2>2
<1> HIDE DEF Q
<1> QED BY <1>1, <1>2, <1>3, <1>4, <1>5 DEF WaysTo

\* The last position.
LEMMA WayLast ==
  ASSUME NEW i \in Nat, NEW j \in Nat, NEW P \in WaysTo(i, j), i + j > 0, Len(merge) \in Nat
  PROVE  /\ i + j \in P => /\ i > 0 /\ merge[i + j] = wordA[i]
                           /\ P \ {i + j} \in WaysTo(i - 1, j)
         /\ i + j \notin P => /\ j > 0 /\ merge[i + j] = wordB[j]
                              /\ P \in WaysTo(i, j - 1)
<1> DEFINE n == i + j - 1
<1>1. n \in Nat /\ i + j = n + 1 /\ (i - 1) + j = n /\ i + (j - 1) = n
  OBVIOUS
<1>2. /\ P \in SUBSET (1..n + 1) /\ Stands(wordA, i, P) /\ Stands(wordB, j, (1..n + 1) \ P)
      /\ n + 1 <= Len(merge)
  BY <1>1 DEF WaysTo
<1> HIDE DEF n
<1>3. /\ \A q : q \in 1..n + 1 <=> q \in 1..n \/ q = n + 1
      /\ n + 1 \notin 1..n
  BY <1>1
<1>4. ASSUME n + 1 \in P
      PROVE  i > 0 /\ merge[n + 1] = wordA[i] /\ P \ {n + 1} \in WaysTo(i - 1, j)
  <2> DEFINE Q == P \ {n + 1}
  <2>1. i > 0 /\ merge[n + 1] = wordA[i] /\ Q \in SUBSET (1..n) /\ Stands(wordA, i - 1, Q)
    BY <1>1, <1>2, <1>4, StandsLess
  <2>2. (1..n) \ Q = (1..n + 1) \ P
    BY <1>3, <1>4
  <2> HIDE DEF Q
  <2>3. Q \in WaysTo(i - 1, j)
    <3>1. n <= Len(merge)
      BY <1>1, <1>2
    <3> QED BY <1>1, <1>2, <2>1, <2>2, <3>1 DEF WaysTo
  <2> QED BY <2>1, <2>3 DEF Q
<1>5. ASSUME n + 1 \notin P
      PROVE  j > 0 /\ merge[n + 1] = wordB[j] /\ P \in WaysTo(i, j - 1)
  <2> DEFINE R == (1..n + 1) \ P
  <2>1. R \in SUBSET (1..n + 1) /\ n + 1 \in R /\ Stands(wordB, j, R)
    BY <1>2, <1>3, <1>5
  <2> HIDE DEF R
  <2>2. j > 0 /\ merge[n + 1] = wordB[j] /\ Stands(wordB, j - 1, R \ {n + 1})
    BY <1>1, <2>1, StandsLess
  <2>3. R \ {n + 1} = (1..n) \ P /\ P \in SUBSET (1..n)
    BY <1>2, <1>3, <1>5 DEF R
  <2>4. n <= Len(merge)
    BY <1>1, <1>2
  <2> QED BY <1>1, <1>2, <2>2, <2>3, <2>4 DEF WaysTo
<1> QED BY <1>1, <1>4, <1>5

\* How often ch is among the first n letters of s.
Often(s, n, ch) == Cardinality({p \in 1..n : s[p] = ch})

LEMMA OftenMore ==
  ASSUME NEW s, NEW n \in Nat, NEW ch
  PROVE  Often(s, n, ch) \in Nat /\ Often(s, n + 1, ch) = Often(s, n, ch) + (IF s[n + 1] = ch THEN 1 ELSE 0)
<1> DEFINE P == {p \in 1..n : s[p] = ch}
           Q == {p \in 1..n + 1 : s[p] = ch}
<1>1. IsFiniteSet(P) /\ Cardinality(P) \in Nat
  BY PartFinite
<1>2. /\ \A q : q \in 1..n + 1 <=> q \in 1..n \/ q = n + 1
      /\ n + 1 \notin 1..n
  OBVIOUS
<1>3. Often(s, n, ch) = Cardinality(P) /\ Often(s, n + 1, ch) = Cardinality(Q)
  BY DEF Often
<1>4. s[n + 1] = ch => Q = P \cup {n + 1} /\ n + 1 \notin P
  BY <1>2
<1>5. s[n + 1] # ch => Q = P
  BY <1>2
<1> HIDE DEF P, Q
<1>6. s[n + 1] = ch => Cardinality(Q) = Cardinality(P) + 1
  BY <1>1, <1>4, FS_AddElement
<1> QED BY <1>1, <1>3, <1>5, <1>6

LEMMA OftenNone ==
  ASSUME NEW s, NEW ch
  PROVE  Often(s, 0, ch) = 0
<1>1. {p \in 1..0 : s[p] = ch} = {}
  OBVIOUS
<1> QED BY <1>1, FS_EmptySet DEF Often

\* Each letter is as often in merge as in the two words together.
LettersAdd(i, j) == \A P \in WaysTo(i, j) : \A ch : Often(merge, i + j, ch) = Often(wordA, i, ch) + Often(wordB, j, ch)

LEMMA WayCounts ==
  ASSUME Len(merge) \in Nat
  PROVE  \A i \in Nat, j \in Nat : LettersAdd(i, j)
<1> DEFINE T == {n \in Nat : \A i \in Nat, j \in Nat : i + j = n => LettersAdd(i, j)}
<1>1. 0 \in T
  <2> SUFFICES ASSUME NEW i \in Nat, NEW j \in Nat, i + j = 0 PROVE LettersAdd(i, j)
    OBVIOUS
  <2>1. i = 0 /\ j = 0
    OBVIOUS
  <2> QED BY <2>1, OftenNone DEF LettersAdd
<1>2. ASSUME NEW n \in Nat, n \in T PROVE n + 1 \in T
  <2> SUFFICES ASSUME NEW i \in Nat, NEW j \in Nat, i + j = n + 1, NEW P \in WaysTo(i, j), NEW ch
               PROVE  Often(merge, i + j, ch) = Often(wordA, i, ch) + Often(wordB, j, ch)
    BY DEF LettersAdd
  <2>0. \A k \in Nat, m \in Nat : k + m = n => LettersAdd(k, m)
    BY <1>2
  <2> HIDE DEF T
  <2>1. i + j > 0
    OBVIOUS
  <2>2. CASE n + 1 \in P
    <3>1. i > 0 /\ merge[n + 1] = wordA[i] /\ P \ {n + 1} \in WaysTo(i - 1, j)
      <4>1. i + j > 0 /\ i + j \in P
        BY <2>1, <2>2
      <4>2. i > 0 /\ merge[i + j] = wordA[i] /\ P \ {i + j} \in WaysTo(i - 1, j)
        BY <4>1, WayLast
      <4> QED BY <4>2
    <3> DEFINE k == i - 1
    <3>2. k \in Nat /\ i = k + 1 /\ k + j = n
      BY <3>1
    <3> HIDE DEF k
    <3>3. Often(merge, n, ch) = Often(wordA, k, ch) + Often(wordB, j, ch)
      BY <2>0, <3>1, <3>2 DEF LettersAdd, k
    <3>4. Often(merge, n + 1, ch) = Often(merge, n, ch) + (IF merge[n + 1] = ch THEN 1 ELSE 0)
      BY OftenMore
    <3>5. Often(wordA, k + 1, ch) = Often(wordA, k, ch) + (IF wordA[k + 1] = ch THEN 1 ELSE 0) /\ Often(wordA, k, ch) \in Nat
      BY <3>2, OftenMore
    <3>6. Often(wordB, j, ch) \in Nat
      BY OftenMore
    <3> QED BY <3>1, <3>2, <3>3, <3>4, <3>5, <3>6, SMTT(30)
  <2>3. CASE n + 1 \notin P
    <3>1. j > 0 /\ merge[n + 1] = wordB[j] /\ P \in WaysTo(i, j - 1)
      <4>1. i + j > 0 /\ i + j \notin P
        BY <2>1, <2>3
      <4>2. j > 0 /\ merge[i + j] = wordB[j] /\ P \in WaysTo(i, j - 1)
        BY <4>1, WayLast
      <4> QED BY <4>2
    <3> DEFINE k == j - 1
    <3>2. k \in Nat /\ j = k + 1 /\ i + k = n
      BY <3>1
    <3> HIDE DEF k
    <3>3. Often(merge, n, ch) = Often(wordA, i, ch) + Often(wordB, k, ch)
      BY <2>0, <3>1, <3>2 DEF LettersAdd, k
    <3>4. Often(merge, n + 1, ch) = Often(merge, n, ch) + (IF merge[n + 1] = ch THEN 1 ELSE 0)
      BY OftenMore
    <3>5. Often(wordB, k + 1, ch) = Often(wordB, k, ch) + (IF wordB[k + 1] = ch THEN 1 ELSE 0) /\ Often(wordB, k, ch) \in Nat
      BY <3>2, OftenMore
    <3>6. Often(wordA, i, ch) \in Nat
      BY OftenMore
    <3> QED BY <3>1, <3>2, <3>3, <3>4, <3>5, <3>6
  <2> QED BY <2>2, <2>3
<1>3. Nat \subseteq T
  <2> HIDE DEF T
  <2> QED BY <1>1, <1>2, Induct
<1> TAKE i \in Nat, j \in Nat
<1>4. i + j \in T
  <2> HIDE DEF T
  <2> QED BY <1>3
<1> QED BY <1>4

\* A letter that can be taken away is the last one.
LEMMA LastB ==
  ASSUME Len(merge) \in Nat, NEW i \in Nat, NEW j \in Nat, NEW P \in WaysTo(i, j + 1), NEW Q \in WaysTo(i, j)
  PROVE  merge[i + j + 1] = wordB[j + 1]
<1> DEFINE ch == wordB[j + 1]
           n == i + j
<1>1. n \in Nat /\ i + (j + 1) = n + 1 /\ i + j + 1 = n + 1 /\ j + 1 \in Nat
  OBVIOUS
<1> HIDE DEF ch
<1>2. /\ Often(merge, n + 1, ch) = Often(wordA, i, ch) + Often(wordB, j + 1, ch)
      /\ Often(merge, n, ch) = Often(wordA, i, ch) + Often(wordB, j, ch)
  BY <1>1, WayCounts DEF LettersAdd
<1>3. Often(wordB, j + 1, ch) = Often(wordB, j, ch) + (IF wordB[j + 1] = ch THEN 1 ELSE 0) /\ Often(wordB, j, ch) \in Nat
  BY OftenMore
<1>4. Often(merge, n + 1, ch) = Often(merge, n, ch) + (IF merge[n + 1] = ch THEN 1 ELSE 0)
  BY <1>1, OftenMore
<1>5. Often(wordA, i, ch) \in Nat
  BY OftenMore
<1> QED BY <1>1, <1>2, <1>3, <1>4, <1>5 DEF ch

LEMMA LastA ==
  ASSUME Len(merge) \in Nat, NEW i \in Nat, NEW j \in Nat, NEW P \in WaysTo(i + 1, j), NEW Q \in WaysTo(i, j)
  PROVE  merge[i + j + 1] = wordA[i + 1]
<1> DEFINE ch == wordA[i + 1]
           n == i + j
<1>1. n \in Nat /\ (i + 1) + j = n + 1 /\ i + j + 1 = n + 1 /\ i + 1 \in Nat
  OBVIOUS
<1> HIDE DEF ch
<1>2. /\ Often(merge, n + 1, ch) = Often(wordA, i + 1, ch) + Often(wordB, j, ch)
      /\ Often(merge, n, ch) = Often(wordA, i, ch) + Often(wordB, j, ch)
  BY <1>1, WayCounts DEF LettersAdd
<1>3. Often(wordA, i + 1, ch) = Often(wordA, i, ch) + (IF wordA[i + 1] = ch THEN 1 ELSE 0) /\ Often(wordA, i, ch) \in Nat
  BY OftenMore
<1>4. Often(merge, n + 1, ch) = Often(merge, n, ch) + (IF merge[n + 1] = ch THEN 1 ELSE 0)
  BY <1>1, OftenMore
<1>5. Often(wordB, j, ch) \in Nat
  BY OftenMore
<1> QED BY <1>1, <1>2, <1>3, <1>4, <1>5 DEF ch

(***************************************************************************)
(* The table.                                                              *)
(***************************************************************************)
Reach(i, j) == WaysTo(i, j) # {}

\* MergeLetter k of merge is the next one of s.
Next1(s, i, k) == k <= Len(merge) /\ merge[k] = s[i]

LEMMA ReachIs ==
  ASSUME Len(merge) \in Nat, NEW i \in Nat, NEW j \in Nat
  PROVE  Reach(i, j) <=> \/ i = 0 /\ j = 0
                         \/ i > 0 /\ Reach(i - 1, j) /\ Next1(wordA, i, i + j)
                         \/ j > 0 /\ Reach(i, j - 1) /\ Next1(wordB, j, i + j)
<1>1. ASSUME Reach(i, j), ~(i = 0 /\ j = 0)
      PROVE  \/ i > 0 /\ Reach(i - 1, j) /\ Next1(wordA, i, i + j)
             \/ j > 0 /\ Reach(i, j - 1) /\ Next1(wordB, j, i + j)
  <2>1. PICK P : P \in WaysTo(i, j)
    BY <1>1 DEF Reach
  <2>2. i + j > 0 /\ i + j <= Len(merge)
    BY <1>1, <2>1 DEF WaysTo
  <2>3. CASE i + j \in P
    <3>1. i > 0 /\ merge[i + j] = wordA[i] /\ P \ {i + j} \in WaysTo(i - 1, j)
      BY <2>1, <2>2, <2>3, WayLast
    <3> QED BY <2>2, <3>1 DEF Reach, Next1
  <2>4. CASE i + j \notin P
    <3>1. j > 0 /\ merge[i + j] = wordB[j] /\ P \in WaysTo(i, j - 1)
      BY <2>1, <2>2, <2>4, WayLast
    <3> QED BY <2>2, <3>1 DEF Reach, Next1
  <2> QED BY <2>3, <2>4
<1>2. ASSUME i = 0, j = 0 PROVE Reach(i, j)
  <2>1. 1..0 + 0 = {}
    OBVIOUS
  <2>2. Stands(wordA, 0, {}) /\ Stands(wordB, 0, {})
    BY FS_EmptySet DEF Stands
  <2>3. {} \in WaysTo(0, 0)
    BY <2>1, <2>2 DEF WaysTo
  <2> QED BY <1>2, <2>3 DEF Reach
<1>3. ASSUME i > 0, Reach(i - 1, j), Next1(wordA, i, i + j) PROVE Reach(i, j)
  <2> DEFINE k == i - 1
  <2>1. k \in Nat /\ i = k + 1 /\ k + j + 1 = i + j
    BY <1>3
  <2>2. PICK P : P \in WaysTo(k, j)
    BY <1>3 DEF Reach
  <2>3. k + j + 1 <= Len(merge) /\ merge[k + j + 1] = wordA[k + 1]
    BY <1>3, <2>1 DEF Next1
  <2> HIDE DEF k
  <2>4. P \cup {k + j + 1} \in WaysTo(k + 1, j)
    BY <2>1, <2>2, <2>3, WayA
  <2> QED BY <2>1, <2>4 DEF Reach
<1>4. ASSUME j > 0, Reach(i, j - 1), Next1(wordB, j, i + j) PROVE Reach(i, j)
  <2> DEFINE k == j - 1
  <2>1. k \in Nat /\ j = k + 1 /\ i + k + 1 = i + j
    BY <1>4
  <2>2. PICK P : P \in WaysTo(i, k)
    BY <1>4 DEF Reach
  <2>3. i + k + 1 <= Len(merge) /\ merge[i + k + 1] = wordB[k + 1]
    BY <1>4, <2>1 DEF Next1
  <2> HIDE DEF k
  <2>4. P \in WaysTo(i, k + 1)
    BY <2>1, <2>2, <2>3, WayB
  <2> QED BY <2>1, <2>4 DEF Reach
<1> QED BY <1>1, <1>2, <1>3, <1>4

MergeLetter == (UNION {UNION {ToSet(t[k]) : k \in 1..3} : t \in MergeInputs}) \ {Nul}

LinesRead == /\ wordA \in Seq(MergeLetter) /\ wordB \in Seq(MergeLetter) /\ merge \in Seq(MergeLetter)
             /\ Len(wordA) \in Nat /\ Len(wordB) \in Nat /\ Len(merge) \in Nat

\* What the comparison of two characters says.
LEMMA SameChr ==
  ASSUME LinesRead, NEW s \in Seq(MergeLetter), NEW i \in Nat, NEW k \in Nat
  PROVE  /\ i < Len(s) => (Chr(s, i) = Chr(merge, k) <=> Next1(s, i + 1, k + 1))
         /\ i >= Len(s) => (Chr(s, i) = Chr(merge, k) <=> k >= Len(merge))
<1>1. /\ Nul \notin MergeLetter /\ Len(s) \in Nat /\ Len(merge) \in Nat
      /\ \A q \in 1..Len(s) : s[q] \in MergeLetter
      /\ \A q \in 1..Len(merge) : merge[q] \in MergeLetter
  <2>1. Nul \notin MergeLetter
    BY DEF MergeLetter
  <2> QED BY <2>1, LenProperties DEF LinesRead
<1>2. i < Len(s) => Chr(s, i) = s[i + 1] /\ s[i + 1] \in MergeLetter
  BY <1>1 DEF Chr
<1>3. k < Len(merge) => Chr(merge, k) = merge[k + 1] /\ merge[k + 1] \in MergeLetter
  BY <1>1 DEF Chr
<1>4. (i >= Len(s) => Chr(s, i) = Nul) /\ (k >= Len(merge) => Chr(merge, k) = Nul)
  BY <1>1 DEF Chr
<1>5. k < Len(merge) <=> k + 1 <= Len(merge)
  BY <1>1
<1>6. (k < Len(merge) <=> ~(k >= Len(merge))) /\ (i < Len(s) <=> ~(i >= Len(s)))
  BY <1>1
<1> QED BY <1>1, <1>2, <1>3, <1>4, <1>5, <1>6, Zenon DEF Next1

\* The loops have passed entry (x, y) when they are at (i, j).
Passed(x, y, i, j) == y < j \/ (y = j /\ x < i)

FromA(x, y, i, j) == x > 0 /\ Passed(x - 1, y, i, j) /\ Reach(x - 1, y) /\ Next1(wordA, x, x + y)
FromB(x, y, i, j) == y > 0 /\ Passed(x, y - 1, i, j) /\ Reach(x, y - 1) /\ Next1(wordB, y, x + y)

TableAt(M, i, j) ==
    \A x \in 0..Len(wordA), y \in 0..Len(wordB) :
       M[<<x, y>>] <=> (x = 0 /\ y = 0) \/ FromA(x, y, i, j) \/ FromB(x, y, i, j)

TableDone(M) == \A x \in 0..Len(wordA), y \in 0..Len(wordB) : M[<<x, y>>] <=> Reach(x, y)

\* The entry that the loops are at is final.
LEMMA EntryIs ==
  ASSUME LinesRead, NEW M, NEW i \in 0..Len(wordA), NEW j \in 0..Len(wordB), TableAt(M, i, j)
  PROVE  M[<<i, j>>] <=> Reach(i, j)
<1>1. i \in Nat /\ j \in Nat
  BY DEF LinesRead
<1>2. Reach(i, j) <=> \/ i = 0 /\ j = 0
                      \/ i > 0 /\ Reach(i - 1, j) /\ Next1(wordA, i, i + j)
                      \/ j > 0 /\ Reach(i, j - 1) /\ Next1(wordB, j, i + j)
  BY <1>1, ReachIs DEF LinesRead
<1>3. Passed(i - 1, j, i, j) /\ Passed(i, j - 1, i, j)
  BY <1>1 DEF Passed
<1>4. M[<<i, j>>] <=> (i = 0 /\ j = 0) \/ FromA(i, j, i, j) \/ FromB(i, j, i, j)
  BY DEF TableAt
<1> QED BY <1>2, <1>3, <1>4 DEF FromA, FromB

\* The entries that the loops mark at (ai, bj).
Marks == IF Matrix[<<ai, bj>>] THEN ByA \cup ByB ELSE {}

LEMMA MarksAre ==
  ASSUME LinesRead, ai \in 0..Len(wordA), bj \in 0..Len(wordB), TableAt(Matrix, ai, bj)
  PROVE  /\ \A x \in 0..Len(wordA), y \in 0..Len(wordB) :
               <<x, y>> \in Marks <=>
                  Reach(ai, bj) /\ \/ x = ai + 1 /\ y = bj /\ Next1(wordA, x, x + y)
                                   \/ x = ai /\ y = bj + 1 /\ Next1(wordB, y, x + y)
         /\ Marks \subseteq (0..Len(wordA)) \X (0..Len(wordB)) <=>
               ~(ai = Len(wordA) /\ bj = Len(wordB) /\ Reach(ai, bj) /\ ai + bj >= Len(merge))
<1> DEFINE la == Len(wordA)
           lb == Len(wordB)
           k == ai + bj
<1>1. la \in Nat /\ lb \in Nat /\ ai \in Nat /\ bj \in Nat /\ k \in Nat /\ ai <= la /\ bj <= lb
  BY DEF LinesRead
<1>2. Matrix[<<ai, bj>>] <=> Reach(ai, bj)
  BY EntryIs
<1>3. /\ ai < la => (Chr(wordA, ai) = Chr(merge, k) <=> Next1(wordA, ai + 1, k + 1))
      /\ bj < lb => (Chr(wordB, bj) = Chr(merge, k) <=> Next1(wordB, bj + 1, k + 1))
      /\ bj >= lb => (Chr(wordB, bj) = Chr(merge, k) <=> k >= Len(merge))
  <2>1. wordA \in Seq(MergeLetter) /\ wordB \in Seq(MergeLetter)
    BY DEF LinesRead
  <2> HIDE DEF k
  <2> QED BY <1>1, <2>1, SameChr
<1> DEFINE A == ai < la /\ Next1(wordA, ai + 1, k + 1)
           B == bj < lb /\ Next1(wordB, bj + 1, k + 1)
           C == bj = lb /\ ai = la /\ k >= Len(merge)
<1>4. ByA = IF A THEN {<<ai + 1, bj>>} ELSE {}
  BY <1>3 DEF ByA
<1>5. ByB = IF B \/ C THEN {<<ai, bj + 1>>} ELSE {}
  <2>1. bj < lb \/ bj = lb
    BY <1>1
  <2> QED BY <1>1, <1>3, <2>1 DEF ByB
<1>6. (A => k + 1 = (ai + 1) + bj) /\ (B => k + 1 = ai + (bj + 1))
  BY <1>1
<1>7. ASSUME NEW x \in 0..la, NEW y \in 0..lb
      PROVE  <<x, y>> \in Marks <=> Reach(ai, bj) /\ \/ x = ai + 1 /\ y = bj /\ Next1(wordA, x, x + y)
                                                     \/ x = ai /\ y = bj + 1 /\ Next1(wordB, y, x + y)
  <2>1. <<x, y>> \in ByA <=> A /\ x = ai + 1 /\ y = bj
    BY <1>4
  <2>2. <<x, y>> \in ByB <=> (B \/ C) /\ x = ai /\ y = bj + 1
    BY <1>5
  <2>3. <<x, y>> \in Marks <=> Reach(ai, bj) /\ (<<x, y>> \in ByA \/ <<x, y>> \in ByB)
    BY <1>2 DEF Marks
  <2>4. A /\ x = ai + 1 /\ y = bj <=> x = ai + 1 /\ y = bj /\ Next1(wordA, x, x + y)
    <3>1. x = ai + 1 => ai < la
      BY <1>1
    <3>2. x = ai + 1 /\ y = bj => x + y = k + 1
      BY <1>1
    <3> HIDE DEF k, la
    <3> QED BY <3>1, <3>2
  <2>5. (B \/ C) /\ x = ai /\ y = bj + 1 <=> x = ai /\ y = bj + 1 /\ Next1(wordB, y, x + y)
    <3>1. y = bj + 1 => bj < lb /\ bj # lb
      BY <1>1
    <3>2. x = ai /\ y = bj + 1 => x + y = k + 1
      BY <1>1
    <3> HIDE DEF k, lb, la
    <3> QED BY <3>1, <3>2
  <2> HIDE DEF A, B, C
  <2> QED BY <2>1, <2>2, <2>3, <2>4, <2>5
<1>8. Marks \subseteq (0..la) \X (0..lb) <=> ~(ai = la /\ bj = lb /\ Reach(ai, bj) /\ k >= Len(merge))
  <2>1. A => <<ai + 1, bj>> \in (0..la) \X (0..lb)
    BY <1>1
  <2>2. B => <<ai, bj + 1>> \in (0..la) \X (0..lb)
    BY <1>1
  <2>3. C => <<ai, bj + 1>> \notin (0..la) \X (0..lb) /\ ~B
    BY <1>1
  <2>4. C <=> ai = la /\ bj = lb /\ k >= Len(merge)
    OBVIOUS
  <2> HIDE DEF A, B, C, la, lb, k
  <2>5. Marks = IF Reach(ai, bj) THEN ByA \cup ByB ELSE {}
    BY <1>2 DEF Marks
  <2> QED BY <1>4, <1>5, <2>1, <2>2, <2>3, <2>4, <2>5
<1> QED BY <1>7, <1>8

\* Where the loops go from (i, j).
LEMMA PassedNext ==
  ASSUME LinesRead, NEW i \in 0..Len(wordA), NEW j \in 0..Len(wordB), NEW m, NEW n,
         \/ i < Len(wordA) /\ m = i + 1 /\ n = j
         \/ i = Len(wordA) /\ m = 0 /\ n = j + 1,
         NEW x \in 0..Len(wordA), NEW y \in 0..Len(wordB)
  PROVE  Passed(x, y, m, n) <=> Passed(x, y, i, j) \/ (x = i /\ y = j)
<1>1. Len(wordA) \in Nat /\ Len(wordB) \in Nat
  BY DEF LinesRead
<1> QED BY <1>1 DEF Passed

LEMMA TableNext ==
  ASSUME LinesRead, NEW i \in 0..Len(wordA), NEW j \in 0..Len(wordB), NEW m, NEW n,
         \/ i < Len(wordA) /\ m = i + 1 /\ n = j
         \/ i = Len(wordA) /\ m = 0 /\ n = j + 1,
         NEW M, NEW N, TableAt(M, i, j),
         \A x \in 0..Len(wordA), y \in 0..Len(wordB) :
            N[<<x, y>>] <=> \/ M[<<x, y>>]
                            \/ Reach(i, j) /\ \/ x = i + 1 /\ y = j /\ Next1(wordA, x, x + y)
                                              \/ x = i /\ y = j + 1 /\ Next1(wordB, y, x + y)
  PROVE  TableAt(N, m, n)
<1>1. Len(wordA) \in Nat /\ Len(wordB) \in Nat /\ i \in Nat /\ j \in Nat
  BY DEF LinesRead
<1>2. ASSUME NEW x \in 0..Len(wordA), NEW y \in 0..Len(wordB)
      PROVE  N[<<x, y>>] <=> (x = 0 /\ y = 0) \/ FromA(x, y, m, n) \/ FromB(x, y, m, n)
  <2>1. FromA(x, y, m, n) <=> FromA(x, y, i, j) \/ (x = i + 1 /\ y = j /\ Reach(i, j) /\ Next1(wordA, x, x + y))
    <3>1. CASE x = 0
      <4>1. ~(x > 0) /\ x # i + 1
        BY <1>1, <3>1
      <4> QED BY <4>1 DEF FromA
    <3>2. CASE x # 0
      <4> DEFINE w == x - 1
      <4>1. w \in 0..Len(wordA) /\ x > 0 /\ (w = i <=> x = i + 1)
        BY <1>1, <3>2
      <4> HIDE DEF w
      <4>2. Passed(w, y, m, n) <=> Passed(w, y, i, j) \/ (w = i /\ y = j)
        BY <4>1, PassedNext
      <4> QED BY <4>1, <4>2 DEF FromA, w
    <3> QED BY <3>1, <3>2
  <2>2. FromB(x, y, m, n) <=> FromB(x, y, i, j) \/ (x = i /\ y = j + 1 /\ Reach(i, j) /\ Next1(wordB, y, x + y))
    <3>1. CASE y = 0
      <4>1. ~(y > 0) /\ y # j + 1
        BY <1>1, <3>1
      <4> QED BY <4>1 DEF FromB
    <3>2. CASE y # 0
      <4> DEFINE w == y - 1
      <4>1. w \in 0..Len(wordB) /\ y > 0 /\ (w = j <=> y = j + 1)
        BY <1>1, <3>2
      <4> HIDE DEF w
      <4>2. Passed(x, w, m, n) <=> Passed(x, w, i, j) \/ (x = i /\ w = j)
        BY <4>1, PassedNext
      <4> QED BY <4>1, <4>2 DEF FromB, w
    <3> QED BY <3>1, <3>2
  <2>3. M[<<x, y>>] <=> (x = 0 /\ y = 0) \/ FromA(x, y, i, j) \/ FromB(x, y, i, j)
    BY DEF TableAt
  <2>4. N[<<x, y>>] <=> \/ M[<<x, y>>]
                        \/ Reach(i, j) /\ \/ x = i + 1 /\ y = j /\ Next1(wordA, x, x + y)
                                          \/ x = i /\ y = j + 1 /\ Next1(wordB, y, x + y)
    OBVIOUS
  <2> QED BY <2>1, <2>2, <2>3, <2>4
<1> QED BY <1>2 DEF TableAt

\* In the last corner the table is done.
LEMMA TableLast ==
  ASSUME LinesRead, NEW M, TableAt(M, Len(wordA), Len(wordB))
  PROVE  TableDone(M)
<1> DEFINE la == Len(wordA)
           lb == Len(wordB)
<1>1. la \in Nat /\ lb \in Nat
  BY DEF LinesRead
<1>2. ASSUME NEW x \in 0..la, NEW y \in 0..lb
      PROVE  M[<<x, y>>] <=> Reach(x, y)
  <2>1. x \in Nat /\ y \in Nat
    BY <1>1
  <2>2. Reach(x, y) <=> \/ x = 0 /\ y = 0
                        \/ x > 0 /\ Reach(x - 1, y) /\ Next1(wordA, x, x + y)
                        \/ y > 0 /\ Reach(x, y - 1) /\ Next1(wordB, y, x + y)
    BY <2>1, ReachIs DEF LinesRead
  <2>3. /\ x > 0 => Passed(x - 1, y, la, lb)
        /\ y > 0 => Passed(x, y - 1, la, lb)
    BY <1>1 DEF Passed
  <2>4. M[<<x, y>>] <=> (x = 0 /\ y = 0) \/ FromA(x, y, la, lb) \/ FromB(x, y, la, lb)
    BY DEF TableAt
  <2> QED BY <2>2, <2>3, <2>4 DEF FromA, FromB
<1> QED BY <1>2 DEF TableDone

(***************************************************************************)
(* The beginnings of the ways, and which way comes first.                  *)
(***************************************************************************)
LEMMA AmongNext ==
  ASSUME NEW N \in Nat, NEW P \in SUBSET (1..N), NEW k \in Nat
  PROVE  /\ AmongFirst(P, k) \in Nat /\ AmongFirst(P, k) <= k
         /\ k + 1 \in P => AmongFirst(P, k + 1) = AmongFirst(P, k) + 1
         /\ k + 1 \notin P => AmongFirst(P, k + 1) = AmongFirst(P, k)
<1> DEFINE Q == P \cap (1..k)
           R == P \cap (1..k + 1)
<1>1. \A q : q \in 1..k + 1 <=> q \in 1..k \/ q = k + 1
  OBVIOUS
<1>2. k + 1 \notin 1..k
  OBVIOUS
<1>3. IsFiniteSet(Q) /\ Cardinality(Q) \in Nat /\ Cardinality(Q) <= k
  <2>1. IsFiniteSet(1..k) /\ Cardinality(1..k) = k
    <3>1. 1 \in Int /\ k \in Int
      OBVIOUS
    <3>2. Cardinality(1..k) = IF 1 > k THEN 0 ELSE k - 1 + 1
      BY <3>1, FS_Interval
    <3>3. (IF 1 > k THEN 0 ELSE k - 1 + 1) = k
      OBVIOUS
    <3> QED BY <3>1, <3>2, <3>3, FS_Interval
  <2>2. Q \subseteq 1..k
    OBVIOUS
  <2> HIDE DEF Q
  <2>3. IsFiniteSet(Q) /\ Cardinality(Q) <= Cardinality(1..k)
    BY <2>1, <2>2, FS_Subset
  <2> QED BY <2>1, <2>3, FS_CardinalityType
<1>4. k + 1 \in P => R = Q \cup {k + 1} /\ k + 1 \notin Q
  BY <1>1, <1>2
<1>5. k + 1 \notin P => R = Q
  BY <1>1
<1>6. AmongFirst(P, k) = Cardinality(Q) /\ AmongFirst(P, k + 1) = Cardinality(R)
  BY DEF AmongFirst
<1> HIDE DEF Q, R
<1>7. k + 1 \in P => Cardinality(R) = Cardinality(Q) + 1
  BY <1>3, <1>4, FS_AddElement
<1> QED BY <1>3, <1>5, <1>6, <1>7

LEMMA StandsPart ==
  ASSUME NEW s, NEW i, NEW N \in Nat, NEW P \in SUBSET (1..N), Stands(s, i, P), NEW n \in Nat
  PROVE  Stands(s, AmongFirst(P, n), P \cap (1..n))
<1> DEFINE Q == P \cap (1..n)
<1>1. ASSUME NEW p \in Q PROVE merge[p] = s[Cardinality({q \in Q : q <= p})]
  <2>1. {q \in Q : q <= p} = {q \in P : q <= p} /\ p \in P
    <3>1. p \in P /\ p \in Nat /\ p <= n
      OBVIOUS
    <3>2. \A q \in P : q <= p => q \in 1..n
      BY <3>1
    <3> QED BY <3>1, <3>2
  <2> QED BY <2>1 DEF Stands
<1>2. Cardinality(Q) = AmongFirst(P, n)
  BY DEF AmongFirst
<1> HIDE DEF Q
<1>3. Stands(s, AmongFirst(P, n), Q)
  BY <1>1, <1>2 DEF Stands
<1> QED BY <1>3 DEF Q

LEMMA WayPart ==
  ASSUME Len(merge) \in Nat, NEW i \in Nat, NEW j \in Nat, NEW W \in WaysTo(i, j), NEW n \in 0..i + j
  PROVE  /\ n - AmongFirst(W, n) \in Nat
         /\ W \cap (1..n) \in WaysTo(AmongFirst(W, n), n - AmongFirst(W, n))
<1> DEFINE N == i + j
           V == (1..N) \ W
           x == AmongFirst(W, n)
           y == AmongFirst(V, n)
           P == W \cap (1..n)
           Q == V \cap (1..n)
<1>1. N \in Nat /\ W \in SUBSET (1..N) /\ V \in SUBSET (1..N) /\ n \in Nat /\ n <= N
      /\ Stands(wordA, i, W) /\ Stands(wordB, j, V) /\ N <= Len(merge)
  BY DEF WaysTo
<1>2. x \in Nat /\ x <= n
  BY <1>1, AmongNext
<1>3. Q = (1..n) \ P /\ P \in SUBSET (1..n)
  <2>1. \A q \in 1..n : q \in 1..N
    BY <1>1
  <2> QED BY <2>1
<1>4. y = n - x
  <2>1. IsFiniteSet(1..n) /\ Cardinality(1..n) = n
    <3>1. 1 \in Int /\ n \in Int
      OBVIOUS
    <3>2. Cardinality(1..n) = IF 1 > n THEN 0 ELSE n - 1 + 1
      BY <3>1, FS_Interval
    <3>3. (IF 1 > n THEN 0 ELSE n - 1 + 1) = n
      BY <1>1
    <3> QED BY <3>1, <3>2, <3>3, FS_Interval
  <2>2. Cardinality(P) = x /\ Cardinality(Q) = y
    BY DEF AmongFirst
  <2>3. (1..n) \cap P = P
    BY <1>3
  <2> HIDE DEF P, Q, x, y
  <2>4. Cardinality((1..n) \ P) = Cardinality(1..n) - Cardinality((1..n) \cap P)
    BY <2>1, FS_Difference
  <2> QED BY <1>3, <2>1, <2>2, <2>3, <2>4
<1>5. Stands(wordA, x, P) /\ Stands(wordB, y, Q)
  <2> HIDE DEF V
  <2> QED BY <1>1, StandsPart
<1>6. x + (n - x) = n /\ n - x \in Nat /\ n <= Len(merge)
  BY <1>1, <1>2
<1> HIDE DEF P, Q, x, y
<1>7. P \in WaysTo(x, n - x)
  BY <1>3, <1>4, <1>5, <1>6 DEF WaysTo
<1> QED BY <1>6, <1>7 DEF P, x

\* From position n on, C has at least as many letters of a before each position
\* as any way to take i and j letters, if m of them stand up to n.
Ahead(C, m, n, i, j) == \A W \in WaysTo(i, j) : \A k \in n..i + j : AmongFirst(W, k) <= m + AmongFirst(C, k)

LEMMA AmongNone ==
  ASSUME NEW n \in Nat, NEW N \in Nat, NEW C \in SUBSET (n + 1..N), NEW k \in 0..n
  PROVE  AmongFirst(C, k) = 0
<1>1. C \cap (1..k) = {}
  OBVIOUS
<1> QED BY <1>1, FS_EmptySet DEF AmongFirst

LEMMA AheadB ==
  ASSUME Len(merge) \in Nat, NEW i \in Nat, NEW j \in Nat, NEW m \in Nat, NEW n \in Nat, n + 1 <= i + j,
         NEW C \in SUBSET (n + 2..i + j), Ahead(C, m, n + 1, i, j)
  PROVE  Ahead(C, m, n, i, j)
<1> SUFFICES ASSUME NEW W \in WaysTo(i, j), NEW k \in n..i + j
             PROVE  AmongFirst(W, k) <= m + AmongFirst(C, k)
  BY DEF Ahead
<1>1. CASE k \in n + 1..i + j
  BY <1>1 DEF Ahead
<1>2. CASE k = n
  <2>1. n + 1 \in n + 1..i + j
    OBVIOUS
  <2>2. AmongFirst(W, n + 1) <= m + AmongFirst(C, n + 1)
    BY <2>1 DEF Ahead
  <2>3. i + j \in Nat /\ W \in SUBSET (1..i + j)
    BY DEF WaysTo
  <2>4. AmongFirst(W, n) \in Nat /\ (AmongFirst(W, n + 1) = AmongFirst(W, n) \/ AmongFirst(W, n + 1) = AmongFirst(W, n) + 1)
    BY <2>3, AmongNext
  <2>5. AmongFirst(C, n + 1) = 0 /\ AmongFirst(C, n) = 0
    <3> DEFINE l == n + 1
    <3>1. l \in Nat /\ l + 1 = n + 2 /\ l \in 0..l /\ n \in 0..l
      OBVIOUS
    <3> HIDE DEF l
    <3>2. AmongFirst(C, l) = 0 /\ AmongFirst(C, n) = 0
      BY <2>3, <3>1, AmongNone
    <3> QED BY <3>2 DEF l
  <2> QED BY <1>2, <2>2, <2>4, <2>5
<1> QED BY <1>1, <1>2

LEMMA AheadA ==
  ASSUME Len(merge) \in Nat, NEW i \in Nat, NEW j \in Nat, NEW m \in Nat, NEW n \in Nat, n + 1 <= i + j,
         NEW C \in SUBSET (n + 2..i + j), Ahead(C, m + 1, n + 1, i, j), NEW l \in Nat, n = m + l,
         l > 0 => WaysTo(m + 1, l - 1) = {}
  PROVE  Ahead(C \cup {n + 1}, m, n, i, j)
<1> DEFINE D == C \cup {n + 1}
           N == i + j
<1>0. N \in Nat /\ n + 1 <= N
  OBVIOUS
<1> SUFFICES ASSUME NEW W \in WaysTo(i, j), NEW k \in n..N
             PROVE  AmongFirst(W, k) <= m + AmongFirst(D, k)
  BY DEF Ahead
<1>1. W \in SUBSET (1..N) /\ D \in SUBSET (1..N)
  BY DEF WaysTo
<1>2. CASE k \in n + 1..N
  <2>1. AmongFirst(W, k) <= m + 1 + AmongFirst(C, k)
    BY <1>2 DEF Ahead
  <2>2. D \cap (1..k) = (C \cap (1..k)) \cup {n + 1} /\ n + 1 \notin C \cap (1..k)
    BY <1>2
  <2>3. IsFiniteSet(C \cap (1..k))
    <3>1. C \cap (1..k) \in SUBSET (1..N)
      OBVIOUS
    <3> QED BY <1>0, <3>1, PartFinite
  <2>4. AmongFirst(D, k) = AmongFirst(C, k) + 1 /\ AmongFirst(C, k) \in Nat
    BY <2>2, <2>3, FS_AddElement, FS_CardinalityType DEF AmongFirst
  <2>5. AmongFirst(W, k) \in Nat
    <3>1. k \in Nat
      BY <1>2
    <3> QED BY <1>0, <1>1, <3>1, AmongNext
  <2> HIDE DEF D
  <2> QED BY <2>1, <2>4, <2>5
<1>3. CASE k = n
  <2>1. AmongFirst(C, n + 1) = 0
    <3> DEFINE b == n + 1
    <3>1. b \in Nat /\ b + 1 = n + 2 /\ b \in 0..b
      OBVIOUS
    <3> HIDE DEF b
    <3>2. AmongFirst(C, b) = 0
      BY <1>0, <3>1, AmongNone
    <3> QED BY <3>2 DEF b
  <2>2. AmongFirst(W, n + 1) <= m + 1
    <3>1. n + 1 \in n + 1..N
      OBVIOUS
    <3>2. AmongFirst(W, n + 1) <= m + 1 + AmongFirst(C, n + 1)
      BY <3>1 DEF Ahead
    <3> QED BY <2>1, <3>2
  <2>3. /\ AmongFirst(W, n) \in Nat /\ AmongFirst(D, n) \in Nat
        /\ n + 1 \in W => AmongFirst(W, n + 1) = AmongFirst(W, n) + 1
        /\ n + 1 \notin W => AmongFirst(W, n + 1) = AmongFirst(W, n)
    <3>1. n \in Nat /\ N \in Nat
      BY <1>0
    <3> HIDE DEF N, D
    <3> QED BY ONLY <3>1, <1>1, AmongNext
  <2>4. ASSUME n + 1 \notin W, AmongFirst(W, n + 1) = m + 1 PROVE FALSE
    <3> DEFINE b == n + 1
               P == W \cap (1..b)
    <3>1. b \in 0..i + j /\ AmongFirst(W, b) = m + 1
      BY <2>4
    <3>2. b - (m + 1) = l
      OBVIOUS
    <3> HIDE DEF b
    <3>3. P \in WaysTo(m + 1, l)
      BY <3>1, <3>2, WayPart
    <3>4. m + 1 \in Nat /\ (m + 1) + l > 0 /\ (m + 1) + l = b /\ b \notin P
      BY <2>4 DEF b
    <3> HIDE DEF P
    <3>5. l > 0 /\ P \in WaysTo(m + 1, l - 1)
      <4> DEFINE c == m + 1
      <4>1. c \in Nat /\ c + l > 0 /\ c + l \notin P /\ P \in WaysTo(c, l)
        BY <3>3, <3>4
      <4> HIDE DEF c
      <4>2. l > 0 /\ P \in WaysTo(c, l - 1)
        BY <4>1, WayLast
      <4> QED BY <4>2 DEF c
    <3> QED BY <3>5
  <2>5. AmongFirst(W, n) <= m
    <3> HIDE DEF D, N
    <3> QED BY <2>2, <2>3, <2>4
  <2> HIDE DEF D, N
  <2> QED BY <1>3, <2>3, <2>5
<1> QED BY <1>2, <1>3

\* If C is ahead of another way from the beginning on, it is the one that has a
\* letter of a where they first differ.
LEMMA FirstDifference ==
  ASSUME NEW i \in Nat, NEW j \in Nat, NEW C \in WaysTo(i, j), NEW W \in WaysTo(i, j), W # C, Ahead(C, 0, 0, i, j)
  PROVE  \E p \in C \ W : \A q \in W \ C : p < q
<1> DEFINE N == i + j
           D == (C \ W) \cup (W \ C)
<1>1. N \in Nat /\ C \in SUBSET (1..N) /\ W \in SUBSET (1..N)
  BY DEF WaysTo
<1>2. D \in SUBSET Nat /\ D # {}
  BY <1>1
<1>3. PICK p \in D : \A q \in D : p <= q
  <2> HIDE DEF D
  <2> QED BY <1>2, Least
<1>4. p \in 1..N
  BY <1>1
<1>5. p \notin W \ C
  <2> SUFFICES ASSUME p \in W, p \notin C PROVE FALSE
    OBVIOUS
  <2> DEFINE k == p - 1
  <2>1. k \in Nat /\ k + 1 = p /\ k \in 0..N
    BY <1>4
  <2>2. C \cap (1..k) = W \cap (1..k)
    <3>1. ASSUME NEW q \in 1..k PROVE q \in C <=> q \in W
      <4>1. q \notin D
        <5>1. ~(p <= q)
          BY <1>4
        <5> HIDE DEF D
        <5> QED BY <1>3, <5>1
      <4> QED BY <4>1
    <3> QED BY <3>1
  <2>3. AmongFirst(C, k) = AmongFirst(W, k)
    BY <2>2 DEF AmongFirst
  <2> HIDE DEF k, D
  <2>4. AmongFirst(C, k + 1) = AmongFirst(C, k) /\ AmongFirst(W, k + 1) = AmongFirst(W, k) + 1 /\ AmongFirst(C, k) \in Nat
    BY <1>1, <2>1, AmongNext
  <2>5. AmongFirst(W, p) <= 0 + AmongFirst(C, p)
    <3>1. p \in 0..i + j
      BY <1>4
    <3> QED BY <3>1 DEF Ahead
  <2> QED BY <2>1, <2>3, <2>4, <2>5
<1>6. p \in C \ W
  BY <1>5
<1>7. ASSUME NEW q \in W \ C PROVE p < q
  <2>1. q \in D /\ p # q /\ q \in Nat /\ p \in Nat
    BY <1>1, <1>4, <1>6
  <2>2. p <= q
    BY <1>3, <2>1
  <2> QED BY <2>1, <2>2
<1> QED BY <1>6, <1>7

(***************************************************************************)
(* The inductive invariant.                                                *)
(***************************************************************************)
Total == Len(wordA) + Len(wordB)

\* What the trace has written, from the end back to place n, if the letters of
\* a stand at C.
Written(w, C, n) ==
    /\ C \in SUBSET (n + 1..Total) /\ w \in Seq(MergeLetter \X {"capital", "small"}) /\ Len(w) = Total - n
    /\ \A k \in n + 1..Total : w[Total - k + 1] = <<merge[k], IF k \in C THEN "capital" ELSE "small">>

Traced(w, C, i, j) ==
    /\ Reach(i, j) /\ Written(w, C, i + j)
    /\ \A P \in WaysTo(i, j) : P \cup C \in Ways
    /\ Ahead(C, i, i + j, Len(wordA), Len(wordB))

MergeTyped ==
    /\ LinesRead /\ ai \in 0..Len(wordA) /\ bj \in 0..Len(wordB)
    /\ DOMAIN Matrix = (0..Len(wordA)) \X (0..Len(wordB))
    /\ phase \in {"fill", "decide", "trace", "printed", "not a merge"}

LeftTable == Reach(Len(wordA), Len(wordB)) /\ Len(merge) = Total

MergeInv ==
    /\ MergeTyped
    /\ phase = "fill" => TableAt(Matrix, ai, bj) /\ beyond = FALSE
    /\ phase \in {"fill", "decide"} => oss = <<>>
    /\ phase # "fill" => TableDone(Matrix) /\ (beyond <=> LeftTable)
    /\ phase = "decide" => ai = Len(wordA) /\ bj = Len(wordB)
    /\ phase = "not a merge" => Ways = {}
    /\ phase \in {"trace", "printed"} => \E C : Traced(oss, C, ai, bj)
    /\ phase = "printed" => ai = 0 /\ bj = 0

LEMMA MergeSteady ==
  ASSUME wordA' = wordA, wordB' = wordB, merge' = merge
  PROVE  /\ LinesRead' <=> LinesRead
         /\ Reach(Len(wordA), Len(wordB))' <=> Reach(Len(wordA), Len(wordB))
         /\ TableAt(Matrix, ai, bj)' <=> TableAt(Matrix', ai', bj')
         /\ TableDone(Matrix)' <=> TableDone(Matrix')
         /\ Ways' = Ways
         /\ \A C : Traced(oss, C, ai, bj)' <=> Traced(oss', C, ai', bj')
<1>1. LinesRead' <=> LinesRead
  BY DEF LinesRead, MergeLetter
<1>2. /\ \A s, n, P : Stands(s, n, P)' <=> Stands(s, n, P)
      /\ \A s, i, k : Next1(s, i, k)' <=> Next1(s, i, k)
      /\ Total' = Total
  BY DEF Stands, Next1, Total
<1>3. \A i, j : WaysTo(i, j)' = WaysTo(i, j)
  BY DEF WaysTo, Stands
<1>4. \A i, j : Reach(i, j)' <=> Reach(i, j)
  BY <1>3 DEF Reach
<1>5. TableAt(Matrix, ai, bj)' <=> TableAt(Matrix', ai', bj')
  BY <1>4 DEF TableAt, FromA, FromB, Passed, Next1
<1>6. TableDone(Matrix)' <=> TableDone(Matrix')
  BY <1>4 DEF TableDone
<1>7. Ways' = Ways
  BY DEF Ways, WaysTo, Stands
<1>8. Reach(Len(wordA), Len(wordB))' <=> Reach(Len(wordA), Len(wordB))
  BY DEF Reach, WaysTo, Stands
<1>9. \A C : Traced(oss, C, ai, bj)' <=> Traced(oss', C, ai', bj')
  <2> TAKE C
  <2>1. Reach(ai, bj)' <=> Reach(ai', bj')
    BY DEF Reach, WaysTo, Stands
  <2>2. WaysTo(ai, bj)' = WaysTo(ai', bj')
    BY DEF WaysTo, Stands
  <2>3. Written(oss, C, ai + bj)' <=> Written(oss', C, ai' + bj')
    BY <1>2 DEF Written
  <2>4. Ahead(C, ai, ai + bj, Len(wordA), Len(wordB))' <=> Ahead(C, ai', ai' + bj', Len(wordA), Len(wordB))
    <3>1. WaysTo(Len(wordA), Len(wordB))' = WaysTo(Len(wordA), Len(wordB))
      BY DEF WaysTo, Stands
    <3>2. \A P, k : AmongFirst(P, k)' = AmongFirst(P, k)
      BY DEF AmongFirst
    <3> QED BY <3>1, <3>2 DEF Ahead
  <2> QED BY <1>7, <2>1, <2>2, <2>3, <2>4 DEF Traced
<1> QED BY <1>1, <1>5, <1>6, <1>7, <1>8, <1>9

LEMMA InitMerge == MergeInit => MergeInv
<1> SUFFICES ASSUME MergeInit PROVE MergeInv
  OBVIOUS
<1>1. PICK t \in MergeInputs : wordA = t[1] /\ wordB = t[2] /\ merge = t[3]
  BY DEF MergeInit
<1>2. ASSUME NEW k \in 1..3 PROVE t[k] \in Seq(MergeLetter)
  <2>1. t[k] \in Seq(ToSet(t[k]) \ {Nul})
    BY <1>1, MergeAssumption
  <2>2. ToSet(t[k]) \ {Nul} \subseteq MergeLetter
    BY <1>1 DEF MergeLetter
  <2> QED BY <2>1, <2>2, SeqMonotonic
<1>3. LinesRead
  <2>1. wordA \in Seq(MergeLetter) /\ wordB \in Seq(MergeLetter) /\ merge \in Seq(MergeLetter)
    BY <1>1, <1>2
  <2> QED BY <2>1, LenProperties DEF LinesRead
<1>4. /\ ai = 0 /\ bj = 0 /\ phase = "fill" /\ oss = <<>> /\ beyond = FALSE
      /\ Matrix = [p \in (0..Len(wordA)) \X (0..Len(wordB)) |-> p = <<0, 0>>]
  BY DEF MergeInit
<1>5. TableAt(Matrix, ai, bj)
  <2> SUFFICES ASSUME NEW x \in 0..Len(wordA), NEW y \in 0..Len(wordB)
               PROVE  Matrix[<<x, y>>] <=> (x = 0 /\ y = 0) \/ FromA(x, y, 0, 0) \/ FromB(x, y, 0, 0)
    BY <1>4 DEF TableAt
  <2>1. Matrix[<<x, y>>] <=> x = 0 /\ y = 0
    BY <1>4
  <2>2. ~FromA(x, y, 0, 0) /\ ~FromB(x, y, 0, 0)
    BY <1>3 DEF FromA, FromB, Passed, LinesRead
  <2> QED BY <2>1, <2>2
<1>6. MergeTyped
  <2>1. Len(wordA) \in Nat /\ Len(wordB) \in Nat
    BY <1>3 DEF LinesRead
  <2> QED BY <1>3, <1>4, <2>1 DEF MergeTyped
<1> QED BY <1>4, <1>5, <1>6 DEF MergeInv

LEMMA FillStep ==
  ASSUME MergeInv, FillEntry
  PROVE  MergeInv'
<1> DEFINE la == Len(wordA)
           lb == Len(wordB)
<1>1. /\ wordA' = wordA /\ wordB' = wordB /\ merge' = merge /\ oss' = oss /\ oss = <<>>
      /\ Matrix' = [p \in DOMAIN Matrix |-> p \in Marks \/ Matrix[p]]
      /\ beyond' = ~(Marks \subseteq DOMAIN Matrix)
      /\ \/ ai < la /\ ai' = ai + 1 /\ bj' = bj /\ phase' = "fill"
         \/ ai = la /\ bj < lb /\ ai' = 0 /\ bj' = bj + 1 /\ phase' = "fill"
         \/ ai = la /\ bj = lb /\ ai' = ai /\ bj' = bj /\ phase' = "decide"
  BY DEF FillEntry, Marks, MergeInv
<1>2. /\ LinesRead /\ ai \in 0..la /\ bj \in 0..lb /\ DOMAIN Matrix = (0..la) \X (0..lb)
      /\ TableAt(Matrix, ai, bj)
  BY DEF MergeInv, MergeTyped, FillEntry
<1>3. la \in Nat /\ lb \in Nat /\ Len(merge) \in Nat
  BY <1>2 DEF LinesRead
<1>4. ASSUME NEW x \in 0..la, NEW y \in 0..lb
      PROVE  Matrix'[<<x, y>>] <=> \/ Matrix[<<x, y>>]
                                   \/ Reach(ai, bj) /\ \/ x = ai + 1 /\ y = bj /\ Next1(wordA, x, x + y)
                                                       \/ x = ai /\ y = bj + 1 /\ Next1(wordB, y, x + y)
  <2>1. <<x, y>> \in Marks <=>
            Reach(ai, bj) /\ \/ x = ai + 1 /\ y = bj /\ Next1(wordA, x, x + y)
                             \/ x = ai /\ y = bj + 1 /\ Next1(wordB, y, x + y)
    BY <1>2, MarksAre
  <2> DEFINE e == <<x, y>>
  <2>2. e \in DOMAIN Matrix
    BY <1>2
  <2> HIDE DEF e
  <2>3. Matrix'[e] = (e \in Marks \/ Matrix[e])
    BY <1>1, <2>2
  <2> QED BY <2>1, <2>3 DEF e
<1>5. Marks \subseteq (0..la) \X (0..lb) <=> ~(ai = la /\ bj = lb /\ Reach(ai, bj) /\ ai + bj >= Len(merge))
  BY <1>2, MarksAre
<1>6. DOMAIN Matrix' = (0..la) \X (0..lb)
  BY <1>1, <1>2
<1>7. CASE phase' = "fill"
  <2>1. \/ ai < la /\ ai' = ai + 1 /\ bj' = bj
        \/ ai = la /\ bj < lb /\ ai' = 0 /\ bj' = bj + 1
    BY <1>1, <1>7
  <2>2. \/ ai < la /\ ai' = ai + 1 /\ bj' = bj
        \/ ai = la /\ ai' = 0 /\ bj' = bj + 1
    BY <2>1
  <2>3. TableAt(Matrix', ai', bj')
    BY <1>2, <1>4, <2>2, TableNext
  <2>4. beyond' = FALSE
    <3>1. ~(ai = la /\ bj = lb)
      BY <1>3, <2>1
    <3>2. Marks \subseteq DOMAIN Matrix
      BY <1>2, <1>5, <3>1
    <3> QED BY <1>1, <3>2
  <2>5. ai' \in 0..la /\ bj' \in 0..lb
    BY <1>2, <1>3, <2>1
  <2>6. LinesRead' /\ TableAt(Matrix, ai, bj)'
    BY <1>1, <1>2, <2>3, MergeSteady
  <2>7. MergeTyped'
    BY <1>1, <1>6, <1>7, <2>5, <2>6 DEF MergeTyped
  <2> QED BY <1>1, <1>7, <2>4, <2>6, <2>7 DEF MergeInv
<1>8. CASE phase' = "decide"
  <2>1. ai = la /\ bj = lb /\ ai' = ai /\ bj' = bj
    BY <1>1, <1>8
  <2>2. TableDone(Matrix)
    BY <1>2, <2>1, TableLast
  <2>3. TableDone(Matrix')
    <3> SUFFICES ASSUME NEW x \in 0..la, NEW y \in 0..lb PROVE Matrix'[<<x, y>>] <=> Reach(x, y)
      BY DEF TableDone
    <3>1. x # ai + 1 /\ y # bj + 1
      BY <1>3, <2>1
    <3>2. Matrix[<<x, y>>] <=> Reach(x, y)
      BY <2>2 DEF TableDone
    <3> QED BY <1>4, <3>1, <3>2
  <2>4. beyond' <=> LeftTable
    <3>1. beyond' <=> Reach(la, lb) /\ la + lb >= Len(merge)
      BY <1>1, <1>2, <1>5, <2>1
    <3>2. Reach(la, lb) => la + lb <= Len(merge)
      BY DEF Reach, WaysTo
    <3>3. la + lb <= Len(merge) => (la + lb >= Len(merge) <=> Len(merge) = la + lb)
      BY <1>3
    <3> QED BY <3>1, <3>2, <3>3 DEF LeftTable, Total
  <2>5. LinesRead' /\ TableDone(Matrix)' /\ (LeftTable' <=> LeftTable)
    BY <1>1, <1>2, <2>3, MergeSteady DEF LeftTable, Total
  <2>6. ai' \in 0..la /\ bj' \in 0..lb
    BY <1>2, <2>1
  <2>7. MergeTyped'
    BY <1>1, <1>6, <1>8, <2>5, <2>6 DEF MergeTyped
  <2>8. ai' = Len(wordA') /\ bj' = Len(wordB')
    BY <1>1, <2>1
  <2> QED BY <1>1, <1>8, <2>4, <2>5, <2>7, <2>8 DEF MergeInv
<1> QED BY <1>1, <1>7, <1>8

LEMMA WaysAre == Ways = WaysTo(Len(wordA), Len(wordB)) /\ (Reach(Len(wordA), Len(wordB)) <=> Ways # {})
BY DEF Ways, Reach

LEMMA DecideStep ==
  ASSUME MergeInv, Decide
  PROVE  MergeInv'
<1> DEFINE la == Len(wordA)
           lb == Len(wordB)
           N == Total
<1>1. /\ wordA' = wordA /\ wordB' = wordB /\ merge' = merge /\ oss' = oss /\ oss = <<>>
      /\ Matrix' = Matrix /\ beyond' = beyond /\ ai' = ai /\ bj' = bj
      /\ phase' = IF Matrix[<<la, lb>>] THEN "trace" ELSE "not a merge"
      /\ LinesRead /\ TableDone(Matrix) /\ (beyond <=> LeftTable)
      /\ ai = la /\ bj = lb /\ MergeTyped
  BY DEF Decide, MergeInv, MergeTyped
<1>2. la \in Nat /\ lb \in Nat /\ N \in Nat /\ N = la + lb
  <2>1. LinesRead
    BY <1>1
  <2> QED BY <2>1 DEF LinesRead, Total
<1>3. LinesRead' /\ TableDone(Matrix)' /\ (LeftTable' <=> LeftTable) /\ Ways' = Ways
  BY <1>1, MergeSteady DEF LeftTable, Total
<1>4. Matrix[<<la, lb>>] <=> Reach(la, lb)
  <2>1. la \in 0..la /\ lb \in 0..lb
    BY <1>2
  <2> QED BY <1>1, <2>1 DEF TableDone
<1>5. MergeTyped'
  BY <1>1, <1>3 DEF MergeTyped
<1>6. CASE Reach(la, lb)
  <2>1. Written(<<>>, {}, N)
    <3>1. N + 1..N = {} /\ N - N = 0
      BY <1>2
    <3> QED BY <3>1 DEF Written
  <2>2. Ahead({}, la, N, la, lb)
    <3> SUFFICES ASSUME NEW W \in WaysTo(la, lb), NEW k \in N..la + lb PROVE AmongFirst(W, k) <= la + AmongFirst({}, k)
      BY DEF Ahead
    <3>1. k = N
      BY <1>2
    <3>2. W \in SUBSET (1..la + lb) /\ Cardinality(W) = la
      BY DEF WaysTo, Stands
    <3>3. W \cap (1..N) = W
      BY <1>2, <3>2
    <3>4. AmongFirst(W, k) = la
      BY <3>1, <3>2, <3>3 DEF AmongFirst
    <3>5. {} \cap (1..k) = {}
      OBVIOUS
    <3>6. AmongFirst({}, k) = 0
      BY <3>5, FS_EmptySet DEF AmongFirst
    <3> QED BY <1>2, <3>4, <3>6
  <2>3. \A P \in WaysTo(la, lb) : P \cup {} \in Ways
    BY WaysAre
  <2>4. Traced(oss', {}, ai', bj')
    BY <1>1, <1>2, <1>6, <2>1, <2>2, <2>3 DEF Traced
  <2>5. Traced(oss, {}, ai, bj)'
    BY <1>1, <2>4, MergeSteady
  <2>6. phase' = "trace"
    BY <1>1, <1>4, <1>6
  <2> QED BY <1>1, <1>3, <1>5, <2>5, <2>6 DEF MergeInv
<1>7. CASE ~Reach(la, lb)
  <2>1. phase' = "not a merge" /\ Ways = {}
    BY <1>1, <1>4, <1>7, WaysAre
  <2> QED BY <1>1, <1>3, <1>5, <2>1 DEF MergeInv
<1> QED BY <1>6, <1>7

\* One more letter is written.
LEMMA WrittenMore ==
  ASSUME LinesRead, NEW w, NEW C, NEW n \in Nat, n + 1 <= Total, Written(w, C, n + 1),
         NEW D, D = C \/ D = C \cup {n + 1}, merge[n + 1] \in MergeLetter,
         NEW e, e = <<merge[n + 1], IF n + 1 \in D THEN "capital" ELSE "small">>
  PROVE  Written(Append(w, e), D, n)
<1> DEFINE N == Total
           S == MergeLetter \X {"capital", "small"}
           v == Append(w, e)
<1>1. N \in Nat
  BY DEF LinesRead, Total
<1>2. /\ C \in SUBSET (n + 1 + 1..N) /\ w \in Seq(S) /\ Len(w) = N - (n + 1)
      /\ \A k \in n + 1 + 1..N : w[N - k + 1] = <<merge[k], IF k \in C THEN "capital" ELSE "small">>
  BY DEF Written
<1>3. e \in S
  OBVIOUS
<1> HIDE DEF N, S
<1>4. v \in Seq(S) /\ Len(v) = Len(w) + 1 /\ (\A i \in 1..Len(w) : v[i] = w[i]) /\ v[Len(w) + 1] = e
  BY <1>2, <1>3, AppendProperties
<1> HIDE DEF v
<1>5. D \in SUBSET (n + 1..N)
  <2>1. n + 1 \in n + 1..N
    BY <1>1 DEF N
  <2>2. \A q \in n + 1 + 1..N : q \in n + 1..N
    BY <1>1
  <2> QED BY <1>2, <2>1, <2>2
<1>6. ASSUME NEW k \in n + 1..N
      PROVE  v[N - k + 1] = <<merge[k], IF k \in D THEN "capital" ELSE "small">>
  <2>1. CASE k = n + 1
    <3>1. N - k + 1 = Len(w) + 1
      BY <1>1, <1>2, <2>1
    <3> QED BY <1>4, <2>1, <3>1
  <2>2. CASE k # n + 1
    <3>1. k \in n + 1 + 1..N /\ N - k + 1 \in 1..Len(w)
      BY <1>1, <1>2, <2>2
    <3>2. k \in D <=> k \in C
      BY <2>2
    <3> QED BY <1>2, <1>4, <3>1, <3>2
  <2> QED BY <2>1, <2>2
<1>7. Len(v) = N - n
  BY <1>1, <1>2, <1>4
<1> QED BY <1>4, <1>5, <1>6, <1>7 DEF Written, N, S, v

\* The state the trace is in.
LEMMA TraceState ==
  ASSUME MergeInv, phase = "trace", NEW C, Traced(oss, C, ai, bj)
  PROVE  /\ LinesRead /\ TableDone(Matrix) /\ ai \in Nat /\ bj \in Nat /\ ai <= Len(wordA) /\ bj <= Len(wordB)
         /\ Len(wordA) \in Nat /\ Len(wordB) \in Nat /\ Len(merge) \in Nat
         /\ Total = Len(wordA) + Len(wordB) /\ ai + bj <= Total /\ ai + bj <= Len(merge)
         /\ \A k \in 1..Len(merge) : merge[k] \in MergeLetter
         /\ C \in SUBSET (ai + bj + 1..Total)
<1>1. LinesRead /\ ai \in 0..Len(wordA) /\ bj \in 0..Len(wordB) /\ TableDone(Matrix)
  BY DEF MergeInv, MergeTyped
<1>2. Len(wordA) \in Nat /\ Len(wordB) \in Nat /\ Len(merge) \in Nat /\ merge \in Seq(MergeLetter)
  BY <1>1 DEF LinesRead
<1>3. ai + bj <= Len(merge)
  BY DEF Traced, Reach, WaysTo
<1>4. \A k \in 1..Len(merge) : merge[k] \in MergeLetter
  BY <1>2
<1>5. C \in SUBSET (ai + bj + 1..Total)
  BY DEF Traced, Written
<1> QED BY <1>1, <1>2, <1>3, <1>4, <1>5 DEF Total

LEMMA TraceBStep ==
  ASSUME MergeInv, TraceB
  PROVE  MergeInv'
<1> DEFINE la == Len(wordA)
           lb == Len(wordB)
           j == bj - 1
           n == ai + j
           e == <<Chr(wordB, bj - 1), "small">>
<1>1. /\ wordA' = wordA /\ wordB' = wordB /\ merge' = merge /\ ai' = ai /\ bj' = j
      /\ Matrix' = Matrix /\ beyond' = beyond /\ phase' = phase /\ phase = "trace"
      /\ oss' = Append(oss, e) /\ bj > 0 /\ Matrix[<<ai, j>>]
      /\ LinesRead /\ TableDone(Matrix) /\ (beyond <=> LeftTable) /\ MergeTyped
  BY DEF TraceB, MergeInv, MergeTyped
<1>2. PICK C : Traced(oss, C, ai, bj)
  BY <1>1 DEF MergeInv
<1>3. /\ ai \in Nat /\ bj \in Nat /\ ai <= la /\ bj <= lb /\ la \in Nat /\ lb \in Nat /\ Len(merge) \in Nat
      /\ Total = la + lb /\ ai + bj <= Total /\ ai + bj <= Len(merge)
      /\ \A k \in 1..Len(merge) : merge[k] \in MergeLetter
      /\ C \in SUBSET (ai + bj + 1..Total)
  BY <1>1, <1>2, TraceState
<1>4. j \in Nat /\ bj = j + 1 /\ n \in Nat /\ ai + bj = n + 1 /\ ai + j + 1 = n + 1 /\ ai + bj + 1 = n + 1 + 1
      /\ n + 1 + 1 = n + 2
  BY <1>1, <1>3
<1>5. /\ Reach(ai, bj) /\ Written(oss, C, ai + bj)
      /\ \A P \in WaysTo(ai, bj) : P \cup C \in Ways
      /\ Ahead(C, ai, ai + bj, la, lb)
  BY <1>2 DEF Traced
<1>6. Reach(ai, j)
  <2>1. ai \in 0..la /\ j \in 0..lb
    BY <1>3, <1>4
  <2> QED BY <1>1, <2>1 DEF TableDone
<1> HIDE DEF j, n
<1>7. merge[n + 1] = wordB[j + 1]
  <2>1. PICK P : P \in WaysTo(ai, j + 1)
    BY <1>4, <1>5 DEF Reach
  <2>2. PICK Q : Q \in WaysTo(ai, j)
    BY <1>6 DEF Reach
  <2>3. merge[ai + j + 1] = wordB[j + 1]
    BY <1>3, <1>4, <2>1, <2>2, LastB
  <2> QED BY <1>4, <2>3
<1>8. n + 1 \notin C /\ C \in SUBSET (n + 2..Total) /\ n + 1 <= Total /\ n + 1 \in 1..Len(merge)
  BY <1>3, <1>4
<1>9. e = <<merge[n + 1], IF n + 1 \in C THEN "capital" ELSE "small">>
  <2>1. Chr(wordB, bj - 1) = wordB[j + 1]
    <3>1. bj - 1 = j /\ j < lb
      BY <1>3, <1>4
    <3> QED BY <3>1 DEF Chr
  <2> QED BY <1>7, <1>8, <2>1
<1> HIDE DEF e
<1>10. Written(oss', C, n)
  <2>1. Written(oss, C, n + 1)
    BY <1>4, <1>5
  <2> QED BY <1>1, <1>3, <1>4, <1>8, <1>9, <2>1, WrittenMore
<1>11. ASSUME NEW P \in WaysTo(ai, j) PROVE P \cup C \in Ways
  <2>1. P \in WaysTo(ai, j + 1)
    <3>1. ai + j + 1 <= Len(merge) /\ merge[ai + j + 1] = wordB[j + 1]
      BY <1>3, <1>4, <1>7
    <3> QED BY <1>3, <1>4, <3>1, WayB
  <2> QED BY <1>4, <1>5, <2>1
<1>12. Ahead(C, ai, n, la, lb)
  <2>1. Ahead(C, ai, n + 1, la, lb) /\ C \in SUBSET (n + 2..la + lb) /\ n + 1 <= la + lb
    BY <1>3, <1>4, <1>5, <1>8
  <2> QED BY <1>3, <1>4, <2>1, AheadB
<1>13. Traced(oss', C, ai', bj')
  <2>1. n = ai' + bj' /\ ai' = ai /\ bj' = j
    BY <1>1, <1>4 DEF n
  <2> QED BY <1>6, <1>10, <1>11, <1>12, <2>1 DEF Traced
<1>14. Traced(oss, C, ai, bj)' /\ LinesRead' /\ TableDone(Matrix)' /\ (LeftTable' <=> LeftTable) /\ Ways' = Ways
  BY <1>1, <1>13, MergeSteady DEF LeftTable, Total
<1>15. MergeTyped'
  <2>1. bj' \in 0..Len(wordB) /\ ai' \in 0..Len(wordA)
    BY <1>1, <1>3, <1>4
  <2> QED BY <1>1, <1>14, <2>1 DEF MergeTyped
<1> QED BY <1>1, <1>14, <1>15 DEF MergeInv

LEMMA TraceAStep ==
  ASSUME MergeInv, TraceA
  PROVE  MergeInv'
<1> DEFINE la == Len(wordA)
           lb == Len(wordB)
           i == ai - 1
           n == i + bj
           e == <<Chr(wordA, ai - 1), "capital">>
<1>1. /\ wordA' = wordA /\ wordB' = wordB /\ merge' = merge /\ ai' = i /\ bj' = bj
      /\ Matrix' = Matrix /\ beyond' = beyond /\ phase' = phase /\ phase = "trace"
      /\ oss' = Append(oss, e) /\ ai > 0 /\ Matrix[<<i, bj>>] /\ ~(bj > 0 /\ Matrix[<<ai, bj - 1>>])
      /\ LinesRead /\ TableDone(Matrix) /\ (beyond <=> LeftTable) /\ MergeTyped
  BY DEF TraceA, MergeInv, MergeTyped
<1>2. PICK C : Traced(oss, C, ai, bj)
  BY <1>1 DEF MergeInv
<1> DEFINE D == C \cup {n + 1}
<1>3. /\ ai \in Nat /\ bj \in Nat /\ ai <= la /\ bj <= lb /\ la \in Nat /\ lb \in Nat /\ Len(merge) \in Nat
      /\ Total = la + lb /\ ai + bj <= Total /\ ai + bj <= Len(merge)
      /\ \A k \in 1..Len(merge) : merge[k] \in MergeLetter
      /\ C \in SUBSET (ai + bj + 1..Total)
  BY <1>1, <1>2, TraceState
<1>4. i \in Nat /\ ai = i + 1 /\ n \in Nat /\ ai + bj = n + 1 /\ i + bj + 1 = n + 1 /\ ai + bj + 1 = n + 1 + 1
      /\ n + 1 + 1 = n + 2
  BY <1>1, <1>3
<1>5. /\ Reach(ai, bj) /\ Written(oss, C, ai + bj)
      /\ \A P \in WaysTo(ai, bj) : P \cup C \in Ways
      /\ Ahead(C, ai, ai + bj, la, lb)
  BY <1>2 DEF Traced
<1>6. Reach(i, bj)
  <2>1. i \in 0..la /\ bj \in 0..lb
    BY <1>3, <1>4
  <2> QED BY <1>1, <2>1 DEF TableDone
<1>16. bj > 0 => WaysTo(i + 1, bj - 1) = {}
  <2> SUFFICES ASSUME bj > 0 PROVE WaysTo(i + 1, bj - 1) = {}
    OBVIOUS
  <2>1. ai \in 0..la /\ bj - 1 \in 0..lb /\ ~Matrix[<<ai, bj - 1>>]
    BY <1>1, <1>3
  <2>2. ~Reach(ai, bj - 1)
    BY <1>1, <2>1 DEF TableDone
  <2> QED BY <1>4, <2>2 DEF Reach
<1> HIDE DEF i, n
<1>7. merge[n + 1] = wordA[i + 1]
  <2>1. PICK P : P \in WaysTo(i + 1, bj)
    BY <1>4, <1>5 DEF Reach
  <2>2. PICK Q : Q \in WaysTo(i, bj)
    BY <1>6 DEF Reach
  <2>3. merge[i + bj + 1] = wordA[i + 1]
    BY <1>3, <1>4, <2>1, <2>2, LastA
  <2> QED BY <1>4, <2>3
<1>8. n + 1 \in D /\ C \in SUBSET (n + 2..Total) /\ n + 1 <= Total /\ n + 1 \in 1..Len(merge)
  BY <1>3, <1>4
<1>9. e = <<merge[n + 1], IF n + 1 \in D THEN "capital" ELSE "small">>
  <2>1. Chr(wordA, ai - 1) = wordA[i + 1]
    <3>1. ai - 1 = i /\ i < la
      BY <1>3, <1>4
    <3> QED BY <3>1 DEF Chr
  <2> QED BY <1>7, <1>8, <2>1
<1> HIDE DEF e
<1>10. Written(oss', D, n)
  <2>1. Written(oss, C, n + 1)
    BY <1>4, <1>5
  <2>2. D = C \cup {n + 1}
    OBVIOUS
  <2> HIDE DEF D
  <2> QED BY <1>1, <1>3, <1>4, <1>8, <1>9, <2>1, <2>2, WrittenMore
<1>11. ASSUME NEW P \in WaysTo(i, bj) PROVE P \cup D \in Ways
  <2> DEFINE Q == P \cup {n + 1}
  <2>1. P \cup {i + bj + 1} \in WaysTo(i + 1, bj)
    <3>1. i + bj + 1 <= Len(merge) /\ merge[i + bj + 1] = wordA[i + 1]
      BY <1>3, <1>4, <1>7
    <3> QED BY <1>3, <1>4, <3>1, WayA
  <2>2. Q \in WaysTo(ai, bj)
    BY <1>4, <2>1
  <2>3. Q \cup C = P \cup D
    OBVIOUS
  <2> HIDE DEF Q, D
  <2> QED BY <1>5, <2>2, <2>3
<1>12. Ahead(D, i, n, la, lb)
  <2>1. Ahead(C, i + 1, n + 1, la, lb) /\ C \in SUBSET (n + 2..la + lb) /\ n + 1 <= la + lb
    BY <1>3, <1>4, <1>5, <1>8
  <2>2. n = i + bj
    BY DEF n
  <2> QED BY <1>3, <1>4, <1>16, <2>1, <2>2, AheadA
<1>13. Traced(oss', D, ai', bj')
  <2>1. n = ai' + bj' /\ ai' = i /\ bj' = bj
    BY <1>1, <1>4 DEF n
  <2> HIDE DEF D
  <2> QED BY <1>6, <1>10, <1>11, <1>12, <2>1 DEF Traced
<1> HIDE DEF D
<1>17. PICK E : Traced(oss', E, ai', bj')
  BY <1>13
<1>14. Traced(oss, E, ai, bj)' /\ LinesRead' /\ TableDone(Matrix)' /\ (LeftTable' <=> LeftTable) /\ Ways' = Ways
  BY <1>1, <1>17, MergeSteady DEF LeftTable, Total
<1>15. MergeTyped'
  <2>1. bj' \in 0..Len(wordB) /\ ai' \in 0..Len(wordA)
    BY <1>1, <1>3, <1>4
  <2> QED BY <1>1, <1>14, <2>1 DEF MergeTyped
<1> QED BY <1>1, <1>14, <1>15 DEF MergeInv

LEMMA EndTraceStep ==
  ASSUME MergeInv, EndTrace
  PROVE  MergeInv'
<1>1. /\ wordA' = wordA /\ wordB' = wordB /\ merge' = merge /\ ai' = ai /\ bj' = bj /\ oss' = oss
      /\ Matrix' = Matrix /\ beyond' = beyond /\ phase' = "printed" /\ phase = "trace" /\ ai = 0 /\ bj = 0
      /\ LinesRead /\ TableDone(Matrix) /\ (beyond <=> LeftTable) /\ MergeTyped
  BY DEF EndTrace, MergeInv, MergeTyped
<1>2. PICK C : Traced(oss, C, ai, bj)
  BY <1>1 DEF MergeInv
<1>3. Traced(oss', C, ai', bj')
  BY <1>1, <1>2
<1>4. Traced(oss, C, ai, bj)' /\ LinesRead' /\ TableDone(Matrix)' /\ (LeftTable' <=> LeftTable) /\ Ways' = Ways
  BY <1>1, <1>3, MergeSteady DEF LeftTable, Total
<1>5. MergeTyped'
  BY <1>1, <1>4 DEF MergeTyped
<1> QED BY <1>1, <1>4, <1>5 DEF MergeInv

LEMMA MergeInvStep == MergeInv /\ [MergeNext]_mergeVars => MergeInv'
<1> SUFFICES ASSUME MergeInv, [MergeNext]_mergeVars PROVE MergeInv'
  OBVIOUS
<1>1. CASE UNCHANGED mergeVars
  <2>1. /\ wordA' = wordA /\ wordB' = wordB /\ merge' = merge /\ ai' = ai /\ bj' = bj /\ oss' = oss
        /\ Matrix' = Matrix /\ beyond' = beyond /\ phase' = phase
    BY <1>1 DEF mergeVars
  <2>2. /\ LinesRead' <=> LinesRead
        /\ TableAt(Matrix, ai, bj)' <=> TableAt(Matrix, ai, bj)
        /\ TableDone(Matrix)' <=> TableDone(Matrix)
        /\ LeftTable' <=> LeftTable
        /\ Ways' = Ways
        /\ \A C : Traced(oss, C, ai, bj)' <=> Traced(oss, C, ai, bj)
    BY <2>1, MergeSteady DEF LeftTable, Total
  <2>3. MergeTyped'
    BY <2>1, <2>2 DEF MergeInv, MergeTyped
  <2> QED BY <2>1, <2>2, <2>3 DEF MergeInv
<1> QED BY <1>1, FillStep, DecideStep, TraceBStep, TraceAStep, EndTraceStep DEF MergeNext

\* What the reverse of what was written shows, when the trace has ended.
LEMMA PrintedIs ==
  ASSUME MergeInv, phase = "printed"
  PROVE  \E C \in Ways : /\ Capitals = C /\ Ahead(C, 0, 0, Len(wordA), Len(wordB))
                         /\ [k \in 1..Len(oss) |-> Reverse(oss)[k][1]] = SubSeq(merge, 1, Len(oss))
<1>1. LinesRead /\ ai = 0 /\ bj = 0
  BY DEF MergeInv, MergeTyped
<1>2. PICK C : Traced(oss, C, 0, 0)
  BY <1>1 DEF MergeInv
<1> DEFINE N == Total
<1>3. /\ N \in Nat /\ Len(merge) \in Nat /\ N = Len(wordA) + Len(wordB)
      /\ \A k \in 1..Len(merge) : merge[k] \in MergeLetter
  <2>1. merge \in Seq(MergeLetter) /\ Len(merge) \in Nat /\ Len(wordA) \in Nat /\ Len(wordB) \in Nat
    BY <1>1 DEF LinesRead
  <2> QED BY <2>1 DEF Total
<1>4. /\ Reach(0, 0) /\ Written(oss, C, 0 + 0)
      /\ \A P \in WaysTo(0, 0) : P \cup C \in Ways
      /\ Ahead(C, 0, 0 + 0, Len(wordA), Len(wordB))
  BY <1>2 DEF Traced
<1>5. C \in Ways
  <2>1. PICK P : P \in WaysTo(0, 0)
    BY <1>4 DEF Reach
  <2>2. P \in SUBSET (1..0 + 0)
    BY <2>1 DEF WaysTo
  <2>3. P \cup C = C
    <3>1. \A p \in P : FALSE
      BY <2>2
    <3> QED BY <3>1
  <2>4. P \cup C \in Ways
    BY <1>4, <2>1
  <2> QED BY <2>3, <2>4
<1>6. N <= Len(merge)
  BY <1>5 DEF Ways, WaysTo, Total
<1>7. /\ C \in SUBSET (1..N) /\ Len(oss) = N
      /\ \A k \in 1..N : oss[N - k + 1] = <<merge[k], IF k \in C THEN "capital" ELSE "small">>
  <2>1. 0 + 0 + 1 = 1 /\ N - (0 + 0) = N
    BY <1>3
  <2> HIDE DEF N
  <2>2. Written(oss, C, 0 + 0)
    BY <1>4
  <2> QED BY <2>1, <2>2 DEF Written, N
<1> HIDE DEF N
<1>8. ASSUME NEW k \in 1..N PROVE Reverse(oss)[k] = <<merge[k], IF k \in C THEN "capital" ELSE "small">>
  <2>1. Reverse(oss) = [x \in 1..N |-> oss[(N - x) + 1]]
    BY <1>7 DEF Reverse
  <2>2. Reverse(oss)[k] = oss[N - k + 1]
    BY <2>1
  <2> QED BY <1>7, <2>2
<1>9. Capitals = C
  <2>1. ASSUME NEW k \in 1..N PROVE Reverse(oss)[k][2] = "capital" <=> k \in C
    BY <1>8
  <2> QED BY <1>7, <2>1 DEF Capitals
<1>10. [k \in 1..N |-> Reverse(oss)[k][1]] = SubSeq(merge, 1, N)
  <2> DEFINE f == [k \in 1..N |-> merge[k]]
             s == SubSeq(merge, 1, N)
  <2>1. \A k \in 1..N : merge[k] \in MergeLetter
    BY <1>3, <1>6
  <2>2. s \in Seq(MergeLetter) /\ Len(s) = (IF 1 <= N THEN N - 1 + 1 ELSE 0) /\ \A k \in 1..N - 1 + 1 : s[k] = merge[1 + k - 1]
    BY <1>3, <2>1, SubSeqProperties
  <2>3. f \in Seq(MergeLetter) /\ Len(f) = N /\ \A k \in 1..N : f[k] = merge[k]
    <3>1. f \in [1..N -> MergeLetter]
      BY <2>1
    <3>2. f \in Seq(MergeLetter)
      BY <1>3, <3>1, SeqDef
    <3> HIDE DEF f
    <3>3. Len(f) = N
      BY <1>3, <3>1, <3>2, LenProperties
    <3> QED BY <3>2, <3>3 DEF f
  <2> HIDE DEF f, s
  <2>4. Len(s) = N /\ \A k \in 1..N : s[k] = merge[k]
    BY <1>3, <2>2
  <2>5. f = s
    BY <2>2, <2>3, <2>4, SeqEqual
  <2>6. [k \in 1..N |-> Reverse(oss)[k][1]] = f
    <3>1. \A k \in 1..N : Reverse(oss)[k][1] = merge[k]
      BY <1>8
    <3> QED BY <3>1 DEF f
  <2> QED BY <2>5, <2>6 DEF s
<1>11. Ahead(C, 0, 0, Len(wordA), Len(wordB))
  BY <1>4
<1> QED BY <1>5, <1>7, <1>9, <1>10, <1>11

LEMMA MergeInvRight == MergeInv => MergeRight
<1> SUFFICES ASSUME MergeInv PROVE AnswerRight /\ TableLeft
  BY DEF MergeRight
<1>1. phase = "not a merge" => Ways = {}
  BY DEF MergeInv
<1>2. ASSUME phase = "printed"
      PROVE  /\ Capitals \in Ways
             /\ [k \in 1..Len(oss) |-> Reverse(oss)[k][1]] = SubSeq(merge, 1, Len(oss))
             /\ \A W \in Ways \ {Capitals} : \E p \in Capitals \ W : \A q \in W \ Capitals : p < q
  <2>1. PICK C \in Ways : /\ Capitals = C /\ Ahead(C, 0, 0, Len(wordA), Len(wordB))
                          /\ [k \in 1..Len(oss) |-> Reverse(oss)[k][1]] = SubSeq(merge, 1, Len(oss))
    BY <1>2, PrintedIs
  <2>2. ASSUME NEW W \in Ways \ {C}
        PROVE  \E p \in C \ W : \A q \in W \ C : p < q
    <3>1. C \in WaysTo(Len(wordA), Len(wordB)) /\ W \in WaysTo(Len(wordA), Len(wordB)) /\ W # C
      BY <2>1 DEF Ways
    <3>2. Len(wordA) \in Nat /\ Len(wordB) \in Nat
      BY DEF MergeInv, MergeTyped, LinesRead
    <3> QED BY <2>1, <3>1, <3>2, FirstDifference
  <2> QED BY <2>1, <2>2
<1>3. TableLeft
  <2> SUFFICES ASSUME phase \notin {"idle", "fill"}
               PROVE  beyond <=> Len(merge) = Len(wordA) + Len(wordB) /\ Ways # {}
    BY DEF TableLeft
  <2>1. beyond <=> LeftTable
    BY DEF MergeInv
  <2> QED BY <2>1, WaysAre DEF LeftTable, Total
<1> QED BY <1>1, <1>2, <1>3 DEF AnswerRight

\* For any three lines the answer of the program is right: no exactly if no
\* interleaving of the first two begins the third, and otherwise the one in
\* which the letters of the first stand as early as possible; and it writes
\* outside its table exactly when the third line is a complete merge
\* (merge.cpp:60-140).
THEOREM MergeAnswers == MergeSpec => []MergeRight
<1>1. MergeInit => MergeInv
  BY InitMerge
<1>2. MergeInv /\ [MergeNext]_mergeVars => MergeInv'
  BY MergeInvStep
<1>3. MergeInv => MergeRight
  BY MergeInvRight
<1> QED BY <1>1, <1>2, <1>3, PTL DEF MergeSpec
==============================================================================
