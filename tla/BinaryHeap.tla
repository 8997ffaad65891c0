------------------------------ MODULE BinaryHeap ------------------------------
(***************************************************************************)
(* The class heap of Data Structures and Algorithms/                       *)
(* Binary_Heap_using_Hashtable: an array of nodes, of which 1 .. size are  *)
(* the heap, and the hash table mapping from the id of a node to its       *)
(* address, here its position in the array.  pData goes where the id goes. *)
(***************************************************************************)
EXTENDS HashTable

CONSTANTS Capacity,   \* the argument of the constructor
          KeyValues,  \* the keys in use
          MaxInserts, \* bound: successful calls of insert
          MaxMoves    \* bound: successful calls of the other functions

ASSUME CapacityAssumption == /\ Capacity \in Nat \ {0} /\ GetPrime(2 * Capacity) > 1
                             /\ 1 .. Capacity \subseteq Pointers
                             /\ KeyValues \subseteq Int /\ KeyValues # {} /\ Null \notin Int
                             /\ MaxInserts \in Nat /\ MaxMoves \in Nat

VARIABLES data,       \* the nodes, also those that are not in the heap
          size,       \* how many nodes are in the heap
          mapping,    \* the hash table from ids to places
          answer,     \* the last call and what it returned
          crashed,    \* the program has read through a NULL pointer
          inserts,    \* history: how many nodes have been inserted
          moves,      \* history: how many other calls have been successful
          grown       \* history: mapping has called rehash

Places  == 0 .. Capacity        \* data[0] is never used on purpose
NewNode == [id |-> NoKey, key |-> 0]

vars == <<data, size, mapping, answer, crashed, inserts, moves, grown>>

Init == /\ data = [i \in Places |-> NewNode]
        /\ size = 0
        /\ mapping = New(2 * Capacity)
        /\ answer = <<"none">>
        /\ crashed = FALSE
        /\ inserts = 0
        /\ moves = 0
        /\ grown = FALSE

------------------------------------------------------------------------------
(***************************************************************************)
(* percolateUp and percolateDown on h = [data, mapping, pos], pos being    *)
(* the node that may be out of place.  A step that finds the node in order *)
(* changes nothing, so the recursion is a number of steps that is enough:  *)
(* no way through the heap has more of them than the array has places.     *)
(***************************************************************************)
\* mapping->setPointer(data[i].id,&data[i]); the empty id is never in mapping.
Point(map, d, i) == IF d[i].id = NoKey THEN map ELSE SetPointer(map, d[i].id, i).table

\* Fault: only the node that moves up is looked after.
SwapHalf(h, i) ==
    LET d == [h.data EXCEPT ![i] = h.data[h.pos], ![h.pos] = h.data[i]]
    IN  [data |-> d, mapping |-> Point(h.mapping, d, i), pos |-> i]

\* The node at pos changes places with the one at i, and mapping follows.
Swap(h, i) ==
    LET d == [h.data EXCEPT ![i] = h.data[h.pos], ![h.pos] = h.data[i]]
    IN  [data |-> d, mapping |-> Point(Point(h.mapping, d, i), d, h.pos), pos |-> i]

UpStep(h) == IF h.pos > 1 /\ h.data[h.pos].key < h.data[h.pos \div 2].key
             THEN Swap(h, h.pos \div 2) ELSE h

\* Fault: always down to the left child.
MinChildLeft(h, n) == 2 * h.pos

\* The smaller child, the left one if they are equal.
MinChild(h, n) == IF 2 * h.pos + 1 > n \/ h.data[2 * h.pos].key <= h.data[2 * h.pos + 1].key
                  THEN 2 * h.pos ELSE 2 * h.pos + 1

DownStep(h, n) == IF 2 * h.pos <= n /\ h.data[MinChild(h, n)].key < h.data[h.pos].key
                  THEN Swap(h, MinChild(h, n)) ELSE h

\* What there is after each number of steps.
Up(h)      == LET up[n \in 0 .. Capacity] == IF n = 0 THEN h ELSE UpStep(up[n - 1]) IN up
Down(h, s) == LET down[n \in 0 .. Capacity] == IF n = 0 THEN h ELSE DownStep(down[n - 1], s) IN down

PercolateUp(h)      == Up(h)[Capacity]
PercolateDown(h, s) == Down(h, s)[Capacity]

Heap(d, map, p) == [data |-> d, mapping |-> map, pos |-> p]

Becomes(h) == data' = h.data /\ mapping' = h.mapping

Moved == moves < MaxMoves /\ moves' = moves + 1

Return(a) == answer' = a /\ UNCHANGED crashed

------------------------------------------------------------------------------
\* insert.  What mapping->insert returns is not looked at; it can fail only
\* when mapping is crowded.
CallInsert(id, k, memory) ==
    /\ size < Capacity /\ ~TableContains(mapping, id)
    /\ inserts < MaxInserts
    /\ Crowded(mapping) => GetPrime(mapping.cap) # 0
    /\ memory \/ Crowded(mapping)
    /\ LET d == [data EXCEPT ![size + 1] = [id |-> id, key |-> k]]
       IN  Becomes(PercolateUp(
               Heap(d, Insert("heap", mapping, id, size + 1, memory).table, size + 1)))
    /\ size' = size + 1
    /\ inserts' = inserts + 1
    /\ grown' = (grown \/ Crowded(mapping))
    /\ UNCHANGED moves
    /\ Return(<<"insert", 0>>)

\* insert into a full heap, or of an id that mapping knows.
InsertRefused(id) ==
    /\ \/ size = Capacity /\ Return(<<"insert", 1>>)
       \/ size < Capacity /\ TableContains(mapping, id) /\ Return(<<"insert", 2>>)
    /\ UNCHANGED <<data, size, mapping, inserts, moves, grown>>

\* Fault: a key that is set is taken for one that grows.
CallSetKeyDown(id, k) ==
    /\ TableContains(mapping, id)
    /\ LET i == GetPointer(mapping, id).pv
       IN  Becomes(PercolateDown(Heap([data EXCEPT ![i].key = k], mapping, i), size))
    /\ Return(<<"setKey", 0>>)
    /\ Moved
    /\ UNCHANGED <<size, inserts, grown>>

\* setKey of an id that mapping knows: down if the key grows, up if not.
CallSetKey(id, k) ==
    /\ TableContains(mapping, id)
    /\ LET i == GetPointer(mapping, id).pv
           h == Heap([data EXCEPT ![i].key = k], mapping, i)
       IN  Becomes(IF data[i].key < k THEN PercolateDown(h, size) ELSE PercolateUp(h))
    /\ Return(<<"setKey", 0>>)
    /\ Moved
    /\ UNCHANGED <<size, inserts, grown>>

SetKeyUnknown(id) ==
    /\ ~TableContains(mapping, id)
    /\ Return(<<"setKey", 1>>)
    /\ UNCHANGED <<data, size, mapping, inserts, moves, grown>>

\* Node i, known as id, leaves: the last node takes its place.
Fill(i, id) == LET d   == [data EXCEPT ![i] = data[size]]
                   map == TableRemove(mapping, id).table
               IN  Heap(d, Point(map, d, i), i)

CallDeleteMin ==
    /\ size > 0
    /\ Becomes(PercolateDown(Fill(1, data[1].id), size - 1))
    /\ size' = size - 1
    /\ Return(<<"deleteMin", 0, data[1].id, data[1].key>>)
    /\ Moved
    /\ UNCHANGED <<inserts, grown>>

DeleteMinEmpty ==
    /\ size = 0
    /\ Return(<<"deleteMin", 1>>)
    /\ UNCHANGED <<data, size, mapping, inserts, moves, grown>>

\* Fault: the last node is always moved down.
CallRemoveDown(id) ==
    /\ TableContains(mapping, id)
    /\ LET i == GetPointer(mapping, id).pv
       IN  /\ Becomes(PercolateDown(Fill(i, id), size - 1))
           /\ Return(<<"remove", 0, id, data[i].key>>)
    /\ size' = size - 1
    /\ Moved
    /\ UNCHANGED <<inserts, grown>>

\* remove of an id that mapping knows: the node that takes the place goes
\* down if its key is larger than the one removed, up if not.
CallRemove(id) ==
    /\ TableContains(mapping, id)
    /\ LET i == GetPointer(mapping, id).pv
           h == Fill(i, id)
       IN  /\ Becomes(IF data[i].key < h.data[i].key
                      THEN PercolateDown(h, size - 1) ELSE PercolateUp(h))
           /\ Return(<<"remove", 0, id, data[i].key>>)
    /\ size' = size - 1
    /\ Moved
    /\ UNCHANGED <<inserts, grown>>

\* remove of another id: pn->key is read before b is looked at.
RemoveUnknown(id) ==
    /\ ~TableContains(mapping, id)
    /\ crashed' = TRUE
    /\ UNCHANGED <<data, size, mapping, answer, inserts, moves, grown>>

Call(id) == \/ InsertRefused(id) \/ SetKeyUnknown(id) \/ CallRemove(id) \/ RemoveUnknown(id)
            \/ \E k \in KeyValues :
                  \/ CallSetKey(id, k)
                  \/ \E memory \in BOOLEAN : CallInsert(id, k, memory)

\* A size below 0, which only a stale pointer can cause, is the end of the model.
Next == ~crashed /\ size >= 0 /\ (CallDeleteMin \/ DeleteMinEmpty \/ \E id \in Keys : Call(id))

Spec == Init /\ [][Next]_vars

------------------------------------------------------------------------------
\* No node has a smaller key than its parent, whatever setKey and remove have
\* moved (heap.cpp:34-97, 143-186).
HeapOrdered == ~grown => \A i \in 2 .. size : data[i \div 2].key <= data[i].key

\* mapping and the array agree: it knows exactly the ids in the heap, each at
\* the place of its node, after any number of swaps (heap.cpp:51-52, 91-92,
\* 153-155, 173-176).
MappingExact ==
    ~grown => /\ \A i \in 1 .. size : GetPointer(mapping, data[i].id) = [pv |-> i, found |-> TRUE]
              /\ \A id \in Keys : TableContains(mapping, id) =>
                                    GetPointer(mapping, id).pv \in 1 .. size

KeyOf(id) == IF \E i \in 1 .. size : data[i].id = id
             THEN data[CHOOSE i \in 1 .. size : data[i].id = id].key ELSE Null

Queue == INSTANCE PriorityQueue
            WITH Ids <- Keys, Absent <- Null, key <- [id \in Keys |-> KeyOf(id)]

\* Every call does what heap.h promises, up to the first rehash of mapping and
\* but for remove of an unknown id, which reads through NULL (heap.cpp:165).
CallsCorrect == [][~grown' /\ ~crashed' => Queue!Next]_vars

\* heap.h:27, "a node with the given id already exists": then insert returns
\* 2, so no id is in the heap twice.
IdsUnique == \A i, k \in 1 .. size : data[i].id = data[k].id => i = k
==============================================================================
