------------------------------ MODULE Containers ------------------------------
(***************************************************************************)
(* What the commands of StacksQueues.cpp promise (its opening comment):    *)
(* named stacks and queues, created once, that give back what was pushed   *)
(* last or first.                                                          *)
(***************************************************************************)
EXTENDS Sequences

CONSTANTS Names, Values

VARIABLES boxes,     \* the containers that exist: name -> kind and contents
          reply      \* what the last command has answered

containerVars == <<boxes, reply>>

ContainersInit == boxes = <<>> /\ reply = "none"

Create(n, kind) ==
    \/ /\ reply' = "created"
       /\ n \notin DOMAIN boxes
       /\ boxes' = [m \in DOMAIN boxes \cup {n} |->
                       IF m = n THEN [kind |-> kind, contents |-> <<>>] ELSE boxes[m]]
    \/ reply' = "exists" /\ n \in DOMAIN boxes /\ UNCHANGED boxes

Push(n, v) ==
    \/ /\ reply' = "pushed"
       /\ n \in DOMAIN boxes
       /\ boxes' = [boxes EXCEPT ![n].contents =
                       IF boxes[n].kind = "stack" THEN <<v>> \o @ ELSE Append(@, v)]
    \/ reply' = "no such name" /\ n \notin DOMAIN boxes /\ UNCHANGED boxes

Pop(n) ==
    \/ /\ n \in DOMAIN boxes /\ boxes[n].contents # <<>>
       /\ reply' = Head(boxes[n].contents)
       /\ boxes' = [boxes EXCEPT ![n].contents = Tail(@)]
    \/ /\ reply' = "empty"
       /\ n \in DOMAIN boxes /\ boxes[n].contents = <<>> /\ UNCHANGED boxes
    \/ reply' = "no such name" /\ n \notin DOMAIN boxes /\ UNCHANGED boxes

Reject == reply' = "invalid" /\ UNCHANGED boxes

ContainersNext == \/ Reject
                  \/ \E n \in Names : \/ \E k \in {"stack", "queue"} : Create(n, k)
                                      \/ \E v \in Values : Push(n, v)
                                      \/ Pop(n)

ContainersSpec == ContainersInit /\ [][ContainersNext]_containerVars
==============================================================================
