-------------------------------- MODULE Lists --------------------------------
(***************************************************************************)
(* Data Structures and Algorithms/Stacks_and_Queues/StacksQueues.cpp: the  *)
(* singly linked SimpleList with its derived classes Stack and Queue, and  *)
(* the interpreter of create, push and pop.  The three instances of the    *)
(* templates are the three values of Letter.  new may give any address     *)
(* that is not in use, in particular one that was just deleted.            *)
(***************************************************************************)
EXTENDS Integers, Sequences, FiniteSets, SequencesExt

CONSTANTS ListNames,   \* the second words of commands
          Letter,      \* per name: its first character if it is i, s or d, or "other"
          Types,       \* the third words of create
          Items,       \* the third words of push
          Addresses,   \* bound: where nodes can be
          NULL

ASSUME ListsAssumption == /\ Letter \in [ListNames -> {"i", "s", "d", "other"}]
                          /\ NULL \notin Addresses

VARIABLES lists,    \* listSLi, listSLs and listSLd: sequences of SimpleList
          memory,   \* the nodes: address -> data and next
          listReply

listVars == <<lists, memory, listReply>>

Letters == {"i", "s", "d"}

\* The constructor: tail before head, in the order of their declaration.
NewList(n, t) == [name |-> n, type |-> t, size |-> 0, tail |-> NULL, head |-> NULL]

\* new Node(x, next) at address a
NewNode(a, x, next) == [b \in DOMAIN memory \cup {a} |->
                           IF b = a THEN [data |-> x, next |-> next] ELSE memory[b]]

ListsInit == /\ lists = [k \in Letters |-> <<>>]
             /\ memory = <<>>
             /\ listReply = "none"

\* nameexists: the first list with that name, or 0.
nameexists(k, n) == LET found == {i \in DOMAIN lists[k] : lists[k][i].name = n} IN
                    IF found = {} THEN 0 ELSE CHOOSE i \in found : \A j \in found : i <= j

\* Insert_Begin, Stack's push
Insert_Begin(k, i, x, a) ==
    LET l == lists[k][i] IN
    /\ memory' = NewNode(a, x, l.head)
    /\ lists' = [lists EXCEPT ![k][i] = [l EXCEPT !.head = a,
                                                  !.tail = IF l.size = 0 THEN a ELSE @,
                                                  !.size = @ + 1]]

\* Fault: a queue inserts where a stack does.
Insert_EndFront(k, i, x, a) == Insert_Begin(k, i, x, a)

\* Insert_End, Queue's push
Insert_End(k, i, x, a) ==
    LET l == lists[k][i]
        m == NewNode(a, x, NULL) IN
    /\ memory' = IF l.size = 0 THEN m ELSE [m EXCEPT ![l.tail].next = a]
    /\ lists' = [lists EXCEPT ![k][i] = [l EXCEPT !.head = IF l.size = 0 THEN a ELSE @,
                                                  !.tail = a,
                                                  !.size = @ + 1]]

\* Fault: the node is not deleted.
Remove_BeginLeaks(k, i) ==
    LET l == lists[k][i] IN
    /\ lists' = [lists EXCEPT ![k][i] = [l EXCEPT !.head = IF l.size = 1 THEN NULL ELSE memory[l.head].next,
                                                  !.tail = IF l.size = 1 THEN NULL ELSE @,
                                                  !.size = @ - 1]]
    /\ UNCHANGED memory

\* Remove_Begin of a list that is not empty; size is compared after delete.
Remove_Begin(k, i) ==
    LET l == lists[k][i]
        newfirst == memory[l.head].next IN
    /\ memory' = [b \in DOMAIN memory \ {l.head} |-> memory[b]]
    /\ lists' = [lists EXCEPT ![k][i] = [l EXCEPT !.head = IF l.size = 1 THEN NULL ELSE newfirst,
                                                  !.tail = IF l.size = 1 THEN NULL ELSE @,
                                                  !.size = @ - 1]]

Answer(r) == listReply' = r

\* INVALID LISTNAME and INVALID LISTTYPE go to the screen.
Refuse == Answer("invalid") /\ UNCHANGED <<lists, memory>>

DoCreate(n, t) ==
    LET k == Letter[n] IN
    \/ k \notin Letters /\ Refuse
    \/ /\ k \in Letters /\ nameexists(k, n) # 0
       /\ Answer("exists") /\ UNCHANGED <<lists, memory>>
    \/ /\ k \in Letters /\ nameexists(k, n) = 0
       /\ \/ t \notin {"stack", "queue"} /\ Refuse
          \/ /\ t \in {"stack", "queue"}
             /\ lists' = [lists EXCEPT ![k] = <<NewList(n, t)>> \o @]
             /\ Answer("created") /\ UNCHANGED memory

DoPush(n, x) ==
    LET k == Letter[n] IN
    \/ k \notin Letters /\ Refuse
    \/ /\ k \in Letters /\ nameexists(k, n) = 0
       /\ Answer("no such name") /\ UNCHANGED <<lists, memory>>
    \/ /\ k \in Letters /\ nameexists(k, n) # 0
       /\ \E a \in Addresses \ DOMAIN memory :
             LET i == nameexists(k, n) IN
             IF lists[k][i].type = "stack" THEN Insert_Begin(k, i, x, a) ELSE Insert_End(k, i, x, a)
       /\ Answer("pushed")

DoPop(n) ==
    LET k == Letter[n] IN
    \/ k \notin Letters /\ Refuse
    \/ /\ k \in Letters /\ nameexists(k, n) = 0
       /\ Answer("no such name") /\ UNCHANGED <<lists, memory>>
    \/ /\ k \in Letters /\ nameexists(k, n) # 0
       /\ LET i == nameexists(k, n) IN
          \/ /\ lists[k][i].size = 0
             /\ Answer("empty") /\ UNCHANGED <<lists, memory>>
          \/ /\ lists[k][i].size # 0
             /\ Answer(memory[lists[k][i].head].data)
             /\ Remove_Begin(k, i)

ListsNext == \E n \in ListNames : \/ \E t \in Types : DoCreate(n, t)
                                  \/ \E x \in Items : DoPush(n, x)
                                  \/ DoPop(n)

ListsSpec == ListsInit /\ [][ListsNext]_listVars

------------------------------------------------------------------------------
AllLists == UNION {ToSet(lists[k]) : k \in Letters}

\* The addresses from head on, one per node that size counts; head may lead
\* to a node that is gone.
Chain(l) == LET at[i \in 1..l.size] ==
                    IF i = 1 THEN l.head
                    ELSE IF at[i - 1] \in DOMAIN memory THEN memory[at[i - 1]].next ELSE NULL
            IN [i \in 1..l.size |-> at[i]]

\* Every list is a chain of as many nodes as size says, from head to tail, no
\* node is in two places, and every node that was not deleted is in some list:
\* nothing dangles and nothing leaks (StacksQueues.cpp:69-105).
ListsSound ==
    /\ \A l \in AllLists :
          LET c == Chain(l) IN
          /\ \A i \in 1..l.size : c[i] \in DOMAIN memory
          /\ l.size > 0 => c[l.size] = l.tail /\ memory[l.tail].next = NULL
          /\ \A i, j \in 1..l.size : i # j => c[i] # c[j]
          /\ \A m \in AllLists \ {l} : ToSet(c) \cap ToSet(Chain(m)) = {}
    /\ DOMAIN memory = UNION {ToSet(Chain(l)) : l \in AllLists}

\* The container each list stands for.
Box(l) == [kind |-> l.type, contents |-> [i \in 1..l.size |-> memory[Chain(l)[i]].data]]
Boxes  == [n \in {l.name : l \in AllLists} |-> Box(CHOOSE l \in AllLists : l.name = n)]

Abstract == INSTANCE Containers WITH Names <- ListNames, Values <- Items,
                                     boxes <- Boxes, reply <- listReply

\* Whatever the commands and the addresses, the interpreter does what the
\* comment at the top of the file says of stacks, queues and errors.
RefinesContainers == Abstract!ContainersSpec
==============================================================================
