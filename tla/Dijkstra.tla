------------------------------- MODULE Dijkstra -------------------------------
(***************************************************************************)
(* Data Structures and Algorithms/Dijkstra_using_Binary_Heap/graph.cpp and *)
(* its driver: edges are read into a graph, then dijkstra() runs once.     *)
(*                                                                         *)
(* A node is known by its place in Nodes, and a node* is that place.  The  *)
(* hash table mapping is the one of HashTable.  The heap is taken as the   *)
(* priority queue that BinaryHeap implements until its own hash table is   *)
(* rehashed, which never happens here: that table has more than twice as   *)
(* many entries as there are nodes.  Which of several nodes with the same  *)
(* key it gives first is left open.                                        *)
(***************************************************************************)
EXTENDS HashTable

CONSTANTS Costs,     \* the costs of edges
          MAX,       \* 1000000
          MaxEdges   \* bound: lines in the file

Sets == INSTANCE FiniteSetsExt

ASSUME CostAssumption == /\ Costs \subseteq Nat \ {0} /\ MAX \in Nat \ {0} /\ MaxEdges \in Nat
                         /\ 1 .. 2 * MaxEdges \subseteq Pointers
\* The list of primes has one for the first table and goes on as long as the
\* tables of a file grow.
ASSUME TableAssumption == GetPrime(0) > 1 /\ GetPrime(4 * MaxEdges + 1) # 0

VARIABLES nodes,     \* Nodes
          mapping,   \* the hash table from ids to nodes
          heap,      \* the nodes in myheap with their keys
          current,   \* the node that left the heap last
          phase,     \* "reading" the file, "running" dijkstra, "done"
          source,    \* history: sourceID
          lines,     \* how many lines have been read
          file,      \* history: the lines read, in no order
          grown      \* history: mapping has called rehash

history == <<source, lines, file, grown>>
vars    == <<nodes, mapping, heap, current, phase, history>>

NewNode(v) == [id |-> v, edges |-> <<>>, dist |-> MAX, known |-> FALSE, prev |-> Null]

Init == /\ nodes = <<>>
        /\ mapping = New(0)
        /\ heap = {}
        /\ current = Null
        /\ phase = "reading"
        /\ source = NoKey
        /\ lines = 0
        /\ file = {}
        /\ grown = FALSE

FindNode(v) == GetPointer(mapping, v).pv

------------------------------------------------------------------------------
\* A new node for v: what mapping->insert returns is not looked at.
Add(g, v, memory) ==
    [nodes   |-> Append(g.nodes, NewNode(v)),
     mapping |-> Insert("heap", g.mapping, v, Len(g.nodes) + 1, memory).table,
     grown   |-> g.grown \/ Crowded(g.mapping)]

\* graph::insert.  Both ids are looked up before a node is created, so an
\* edge from a new id to itself creates two.
InsertEdge(from, to, cost, memory) ==
    LET b == FindNode(from)
        d == FindNode(to)
        g == [nodes |-> nodes, mapping |-> mapping, grown |-> grown]
        h == IF b = Null THEN Add(g, from, memory) ELSE g
        k == IF d = Null THEN Add(h, to, memory) ELSE h
        s == IF b = Null THEN Len(h.nodes) ELSE b
        t == IF d = Null THEN Len(k.nodes) ELSE d
    IN  /\ nodes' = [k.nodes EXCEPT ![s].edges = Append(@, [dest |-> t, cost |-> cost])]
        /\ mapping' = k.mapping
        /\ grown' = k.grown

\* One line of the file; if mapping grows, with memory or without.
ReadLine(from, to, cost, memory) ==
    /\ phase = "reading"
    /\ lines < MaxEdges
    /\ lines' = lines + 1
    /\ InsertEdge(from, to, cost, memory)
    /\ file' = file \cup {[from |-> from, to |-> to, cost |-> cost]}
    /\ UNCHANGED <<heap, current, phase, source>>

------------------------------------------------------------------------------
\* heap::insert refuses an id it has, so of two nodes with one id the first
\* one is in the heap.
Firsts(ns) == {n \in DOMAIN ns : \A m \in 1 .. n - 1 : ns[m].id # ns[n].id}

SetKey(q, ns, v, k) == {IF ns[h.node].id = v THEN [h EXCEPT !.key = k] ELSE h : h \in q}

\* Fault: the key of the source stays at MAX.
StartNoKey(v) ==
    /\ phase = "reading"
    /\ FindNode(v) # Null
    /\ nodes' = [nodes EXCEPT ![FindNode(v)].dist = 0]
    /\ heap' = {[node |-> n, key |-> MAX] : n \in Firsts(nodes)}
    /\ source' = v
    /\ phase' = "running"
    /\ UNCHANGED <<mapping, current, lines, file, grown>>

\* dijkstra() up to its loop.  It returns 0 for an id that is not found, and
\* main asks again.
Start(v) ==
    /\ phase = "reading"
    /\ FindNode(v) # Null
    /\ nodes' = [nodes EXCEPT ![FindNode(v)].dist = 0, ![FindNode(v)].prev = Null]
    /\ heap' = SetKey({[node |-> n, key |-> MAX] : n \in Firsts(nodes)}, nodes, v, 0)
    /\ source' = v
    /\ phase' = "running"
    /\ UNCHANGED <<mapping, current, lines, file, grown>>

\* Fault: the heap is not told.
RelaxSilently(n, dv, g, e) ==
    IF ~g.nodes[e.dest].known /\ dv + e.cost < g.nodes[e.dest].dist
    THEN [nodes |-> [g.nodes EXCEPT ![e.dest].dist = dv + e.cost, ![e.dest].prev = n],
          heap  |-> g.heap]
    ELSE g

\* Fault: the path changes even if the distance does not.
RelaxPrevAlways(n, dv, g, e) ==
    IF ~g.nodes[e.dest].known
    THEN IF dv + e.cost < g.nodes[e.dest].dist
         THEN [nodes |-> [g.nodes EXCEPT ![e.dest].dist = dv + e.cost, ![e.dest].prev = n],
               heap  |-> SetKey(g.heap, g.nodes, g.nodes[e.dest].id, dv + e.cost)]
         ELSE [g EXCEPT !.nodes[e.dest].prev = n]
    ELSE g

\* The edge e of node n, whose distance is dv.  setKey goes by the id.
Relax(n, dv, g, e) ==
    IF ~g.nodes[e.dest].known /\ dv + e.cost < g.nodes[e.dest].dist
    THEN [nodes |-> [g.nodes EXCEPT ![e.dest].dist = dv + e.cost, ![e.dest].prev = n],
          heap  |-> SetKey(g.heap, g.nodes, g.nodes[e.dest].id, dv + e.cost)]
    ELSE g

\* The body of the loop for node n, with q in the heap.
Visit(n, q) ==
    LET edges == nodes[n].edges
        after[k \in 0 .. Len(edges)] ==
            IF k = 0 THEN [nodes |-> [nodes EXCEPT ![n].known = TRUE], heap |-> q]
            ELSE Relax(n, nodes[n].dist, after[k - 1], edges[k])
    IN  /\ nodes' = after[Len(edges)].nodes
        /\ heap' = after[Len(edges)].heap

\* What deleteMin may take.
MinNodes == {h \in heap : \A x \in heap : h.key <= x.key}

VisitNext == /\ phase = "running"
             /\ \E h \in MinNodes : Visit(h.node, heap \ {h}) /\ current' = h.node
             /\ UNCHANGED <<mapping, phase, history>>

\* deleteMin fails, and the last node is gone through once more.
VisitAgain == /\ phase = "running" /\ heap = {}
              /\ Visit(current, heap)
              /\ phase' = "done"
              /\ UNCHANGED <<mapping, current, history>>

Next == \/ \E from, to \in Keys, cost \in Costs, memory \in BOOLEAN :
              ReadLine(from, to, cost, memory)
        \/ \E v \in Keys : Start(v)
        \/ VisitNext \/ VisitAgain

Spec == Init /\ [][Next]_vars

------------------------------------------------------------------------------
\* The cost of the cheapest walk from s to each id with at most n of the edges,
\* MAX standing for "none", as it does in the program.
Cheapest(edges, s) ==
    LET cost[n \in 0 .. MaxEdges] ==
            IF n = 0 THEN [v \in Keys |-> IF v = s THEN 0 ELSE MAX]
            ELSE [v \in Keys |->
                    Sets!Min({cost[n - 1][v]} \cup
                             {cost[n - 1][e.from] + e.cost : e \in {x \in edges : x.to = v}})]
    IN  cost

\* When dijkstra returns, the distance of every vertex is the cost of a
\* cheapest path, if that is below MAX, and MAX otherwise: also with edges
\* from a vertex to itself, parallel edges and ties, up to the first rehash
\* (graph.cpp:92-109).
ShortestFound == phase = "done" /\ ~grown =>
                    \A v \in Keys : FindNode(v) # Null =>
                       nodes[FindNode(v)].dist = Cheapest(file, source)[MaxEdges][v]

\* While the loop runs, the heap holds exactly the nodes that are not known,
\* each with its distance as key, and no known node is farther than one of
\* them: setKey, which goes by the id, never hits another node
\* (graph.cpp:94-105).  Nothing is said from the first rehash on, after which
\* an id may have several nodes.
HeapAgrees ==
    phase = "running" /\ ~grown =>
        /\ heap = {[node |-> n, key |-> nodes[n].dist] :
                      n \in {m \in Firsts(nodes) : ~nodes[m].known}}
        /\ \A n \in DOMAIN nodes, h \in heap : nodes[n].known => nodes[n].dist <= h.key

\* out() can follow prev from every node that has a distance back to the
\* source: each step back is an edge, costs what the distances differ by, and
\* only the source has a distance and no prev.  Even after a rehash, when ids
\* have several nodes (graph.cpp:102-106, 127-131).
PathsReal ==
    phase # "reading" =>
        \A n \in DOMAIN nodes :
            IF nodes[n].prev = Null
            THEN nodes[n].dist = IF n = FindNode(source) THEN 0 ELSE MAX
            ELSE \E i \in DOMAIN nodes[nodes[n].prev].edges :
                    LET e == nodes[nodes[n].prev].edges[i]
                    IN  e.dest = n /\ nodes[n].dist = nodes[nodes[n].prev].dist + e.cost
==============================================================================
