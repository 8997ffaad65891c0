----------------------------- MODULE SchedProofs -----------------------------
(***************************************************************************)
(* What Sched.tla promises for every number of pids, tasks and ticks and   *)
(* every range of nice values.  IInv is the inductive invariant; its parts *)
(* about the table are written for any table t, because an action of the   *)
(* scheduler changes the table and then hands it to Dispatch.  The second  *)
(* part is about the exit codes, the third about the program testbed.c.    *)
(***************************************************************************)
EXTENDS Testbed, FiniteSetTheorems, FunctionTheorems, TLAPS

Typed(t) == t \in [Pids -> Task \cup {NoTask}]

SlotsFull(t) == \A p \in Pids : In(t, p) => t[p].slot \in 1 .. t[p].quantum

Fresh(t) == \A p \in Pids : In(t, p) => t[p].dyn = Weight(t[p].nice) * t[p].act

Sleepers(t, k) == \A p \in Pids : Has(t, p, "sleeping") =>
                     /\ Children(t, p) # {}
                     /\ Zombies(t, p) = {}
                     /\ k[p] = "asleep"

Good(t, k) == /\ Typed(t) /\ SlotsFull(t) /\ Fresh(t)
              /\ k \in [Pids -> Points] /\ Sleepers(t, k)

NoneRuns(t) == \A p \in Pids : ~Has(t, p, "running")

\* Who is in the table has a number, and every task is younger than its mother.
Numbered == /\ made \in 1 .. MaxTasks
            /\ id \in [Pids -> Nat]
            /\ mother \in [Ids -> Nat]
            /\ \A p \in Pids : In(procs, p) => id[p] \in 1 .. made
            /\ \A n \in 1 .. made : mother[n] < n

\* When the scheduler has ended the process nobody could run.
Stopped == halted => \A p \in Pids : ~Has(procs, p, "running") /\ ~Has(procs, p, "ready")

IInv == TypeOK /\ Good(procs, ctl) /\ OneRunning /\ Numbered /\ Stopped

------------------------------------------------------------------------------
\* Lowest and FindLowest find something.

\* A finite set of integers that is not empty has a lowest element: counting
\* the elements below each one numbers them from 0.
LEMMA LowestExists ==
  ASSUME NEW S, IsFiniteSet(S), S \subseteq Int, S # {}
  PROVE  \E x \in S : \A y \in S : x <= y
<1> DEFINE n == Cardinality(S)
           Below(x) == {y \in S : y < x}
           c == [x \in S |-> Cardinality(Below(x))]
<1>1. n \in Nat /\ n # 0
  BY FS_CardinalityType, FS_EmptySet
<1>2. \A x \in S : IsFiniteSet(Below(x)) /\ Cardinality(Below(x)) \in 0 .. n - 1
  <2> SUFFICES ASSUME NEW x \in S
               PROVE  IsFiniteSet(Below(x)) /\ Cardinality(Below(x)) \in 0 .. n - 1
    OBVIOUS
  <2>1. Below(x) \in SUBSET S /\ x \notin Below(x)
    OBVIOUS
  <2>2. IsFiniteSet(Below(x)) /\ Cardinality(Below(x)) <= n /\ Cardinality(Below(x)) # n
    BY <2>1, FS_Subset
  <2>3. Cardinality(Below(x)) \in Nat
    BY <2>2, FS_CardinalityType
  <2> QED BY <1>1, <2>2, <2>3
<1>3. ASSUME NEW x \in S, NEW y \in S, x < y
      PROVE  Cardinality(Below(x)) # Cardinality(Below(y))
  <2>1. x \in Int /\ y \in Int
    OBVIOUS
  <2>2. x \in Below(y) /\ x \notin Below(x)
    BY <1>3, <2>1
  <2>3. ASSUME NEW z \in Below(x) PROVE z \in Below(y)
    <3>1. z \in S /\ z \in Int /\ z < x
      OBVIOUS
    <3>2. z < y
      BY <1>3, <2>1, <3>1
    <3> QED BY <3>1, <3>2
  <2>4. Below(x) \in SUBSET Below(y) /\ Below(x) # Below(y)
    BY <2>2, <2>3
  <2> HIDE DEF Below
  <2> QED BY <1>2, <2>4, FS_Subset
<1>4. c \in Injection(S, 0 .. n - 1)
  <2>1. c \in [S -> 0 .. n - 1]
    BY <1>2
  <2>2. \A x, y \in S : c[x] = c[y] => x = y
    <3> SUFFICES ASSUME NEW x \in S, NEW y \in S, c[x] = c[y], x # y PROVE FALSE
      OBVIOUS
    <3>1. x < y \/ y < x
      OBVIOUS
    <3> QED BY <3>1, <1>3
  <2> HIDE DEF c
  <2> QED BY <2>1, <2>2, Fun_IsInj
<1>5. IsFiniteSet(0 .. n - 1) /\ Cardinality(0 .. n - 1) = n
  BY <1>1, FS_Interval, SMTT(30)
<1>6. c \in Surjection(S, 0 .. n - 1)
  <2> HIDE DEF c
  <2> QED BY <1>4, <1>5, FS_Injection
<1>7. PICK x \in S : c[x] = 0
  <2> HIDE DEF c
  <2> QED BY <1>1, <1>6 DEF Surjection
<1>8. Below(x) = {}
  BY <1>2, <1>7, FS_EmptySet
<1> QED BY <1>8

LEMMA LowestIsLowest ==
  ASSUME NEW S, IsFiniteSet(S), S \subseteq Int, S # {}
  PROVE  Lowest(S) \in S /\ \A y \in S : Lowest(S) <= y
BY LowestExists DEF Lowest

LEMMA PidsFinite == IsFiniteSet(Pids) /\ Pids \subseteq Nat
  BY NProcAssumption, FS_Interval DEF Pids

\* Of a set of pids that is not empty, the lowest is one of them.
LEMMA LowestPid ==
  ASSUME NEW S \in SUBSET Pids, S # {}
  PROVE  Lowest(S) \in S
<1>1. IsFiniteSet(S)
  BY PidsFinite, FS_Subset
<1>2. S \subseteq Int
  BY PidsFinite
<1> QED BY <1>1, <1>2, LowestIsLowest

\* sched_findlowest finds a READY task when there is one.
LEMMA FindsReady ==
  ASSUME NEW t, Typed(t), Ready(t) # {}
  PROVE  FindLowest(t) \in Ready(t)
<1> DEFINE f == [p \in Ready(t) |-> t[p].dyn]
           D == {t[p].dyn : p \in Ready(t)}
<1>1. Ready(t) \in SUBSET Pids
  BY DEF Ready
<1>2. \A p \in Ready(t) : t[p].dyn \in Nat
  BY DEF Ready, Has, In, Typed, Task
<1>3. IsFiniteSet(Ready(t))
  BY <1>1, PidsFinite, FS_Subset
<1>4. f \in Surjection(Ready(t), D)
  BY DEF Surjection
<1>5. IsFiniteSet(D)
  BY <1>3, <1>4, FS_Surjection
<1>6. D # {} /\ D \subseteq Int
  BY <1>2
<1>7. PICK d \in D : \A e \in D : d <= e
  BY <1>5, <1>6, LowestExists
<1>8. Best(t) # {}
  BY <1>7 DEF Best
<1>9. Best(t) \in SUBSET Ready(t)
  BY DEF Best
<1> QED BY <1>1, <1>8, <1>9, LowestPid DEF FindLowest

------------------------------------------------------------------------------
\* What the parts of the invariant say of the table after a change.

LEMMA PriorityNat ==
  ASSUME NEW n \in -Nice .. Nice - 1, NEW a \in Nat
  PROVE  Weight(n) * a \in Nat
<1>1. Weight(n) \in Nat
  BY NiceAssumption DEF Weight
<1>2. \A w \in Nat : w * a \in Nat
  OBVIOUS
<1> QED BY <1>1, <1>2

LEMMA ClampInRange ==
  ASSUME NEW n \in Int
  PROVE  Clamp(n) \in -Nice .. Nice - 1 /\ Nice - Clamp(n) \in Nat \ {0}
BY NiceAssumption DEF Clamp

\* The running task q is replaced by r, and goes on where k says: r must be
\* in order itself, may sleep only for a child, and may be a zombie only if
\* its parent does not sleep.
LEMMA OneChanges ==
  ASSUME NEW t, NEW j, NEW k, NEW q \in Pids, NEW r \in Task,
         Good(t, j), Has(t, q, "running"),
         k \in [Pids -> Points], \A p \in Pids \ {q} : k[p] = j[p],
         r.parent = t[q].parent,
         r.slot \in 1 .. r.quantum,
         r.dyn = Weight(r.nice) * r.act,
         r.state = "zombie" => ~Has(t, r.parent, "sleeping"),
         r.state = "sleeping" => /\ Children(t, q) # {}
                                 /\ Zombies(t, q) = {}
                                 /\ k[q] = "asleep"
  PROVE  Good([t EXCEPT ![q] = r], k)
<1> DEFINE u == [t EXCEPT ![q] = r]
<1>1. t \in [Pids -> Task \cup {NoTask}] /\ In(t, q) /\ r # NoTask
  BY DEF Good, Typed, Has, Task, NoTask
<1>2. Typed(u) /\ u[q] = r /\ \A p \in Pids \ {q} : u[p] = t[p]
  BY <1>1 DEF Typed
<1>3. \A p \in Pids : In(u, p) <=> In(t, p)
  BY <1>1, <1>2 DEF In
<1>4. SlotsFull(u) /\ Fresh(u)
  BY <1>2, <1>3 DEF Good, SlotsFull, Fresh
<1>5. \A p : Children(u, p) = Children(t, p)
  BY <1>1, <1>2, <1>3, ZenonT(60) DEF Children
<1>6. ASSUME NEW p \in Pids, Has(u, p, "sleeping")
      PROVE  Children(u, p) # {} /\ Zombies(u, p) = {} /\ k[p] = "asleep"
  <2>1. CASE p = q
    <3>1. r.state = "sleeping"
      BY <1>2, <1>6, <2>1 DEF Has
    <3>2. ASSUME NEW z \in Zombies(u, q) PROVE FALSE
      <4>1. z \in Children(t, q) /\ u[z].state = "zombie"
        BY <1>5, <3>2 DEF Zombies
      <4>2. z # q
        BY <1>2, <3>1, <4>1
      <4> QED BY <1>2, <3>1, <4>1, <4>2 DEF Zombies
    <3> QED BY <1>5, <2>1, <3>1, <3>2
  <2>2. CASE p # q
    <3>1. Has(t, p, "sleeping")
      BY <1>2, <1>3, <1>6, <2>2 DEF Has
    <3>2. Children(t, p) # {} /\ Zombies(t, p) = {} /\ k[p] = "asleep"
      BY <2>2, <3>1 DEF Good, Sleepers
    <3>3. ASSUME NEW z \in Zombies(u, p) PROVE FALSE
      <4>1. z \in Children(t, p) /\ u[z].state = "zombie"
        BY <1>5, <3>3 DEF Zombies
      <4>2. z = q
        BY <1>2, <3>2, <4>1 DEF Zombies, Children
      <4>3. r.state = "zombie" /\ t[q].parent = p
        BY <1>2, <4>1, <4>2 DEF Children
      <4> QED BY <3>1, <4>3
    <3> QED BY <1>5, <3>2, <3>3
  <2> QED BY <2>1, <2>2
<1> QED BY <1>2, <1>4, <1>6 DEF Good, Sleepers

\* Dispatch keeps all of it and leaves at most one task RUNNING.
LEMMA DispatchKeeps ==
  ASSUME NEW t, NEW k, Good(t, k), NoneRuns(t),
         current \in Pids, masked \in BOOLEAN, ~halted, halted \in BOOLEAN,
         Dispatch(t, k)
  PROVE  /\ Good(procs', ctl')
         /\ current' \in Pids /\ next' \in 0 .. NProc - 1
         /\ masked' \in BOOLEAN /\ halted' \in BOOLEAN
         /\ OneRunning' /\ Stopped'
         /\ \A p \in Pids : In(procs', p) => In(t, p)
<1>1. CASE Ready(t) = {}
  <2>1. procs' = t /\ ctl' = k /\ next' = 0 /\ halted' = TRUE /\ UNCHANGED <<current, masked>>
    BY <1>1 DEF Dispatch
  <2>2. OneRunning'
    BY <2>1 DEF OneRunning
  <2>3. Stopped'
    BY <1>1, <2>1 DEF Stopped, NoneRuns, Ready
  <2> QED BY <2>1, <2>2, <2>3, NProcAssumption
<1>2. CASE Ready(t) # {}
  <2> DEFINE n == FindLowest(t)
             u == [t EXCEPT ![n].state = "running"]
  <2>1. n \in Pids /\ Has(t, n, "ready")
    BY <1>2, FindsReady DEF Good, Ready
  <2>2. /\ procs' = u /\ current' = n /\ next' = n
        /\ ctl' = [k EXCEPT ![n] = CASE @ = "child"  -> "user"
                                     [] @ = "asleep" -> "woken"
                                     [] OTHER        -> @]
        /\ masked' = FALSE /\ halted' = halted
    BY <1>2 DEF Dispatch
  <2> HIDE DEF n
  <2>3. /\ t \in [Pids -> Task \cup {NoTask}]
        /\ t[n] \in Task
        /\ t[n].state = "ready"
    BY <2>1 DEF Good, Typed, Has, In
  <2>4. /\ Typed(u)
        /\ \A p \in Pids : In(u, p) <=> In(t, p)
        /\ \A p \in Pids \ {n} : u[p] = t[p]
        /\ u[n].state = "running" /\ u[n].parent = t[n].parent
        /\ u[n].slot = t[n].slot /\ u[n].quantum = t[n].quantum
        /\ u[n].dyn = t[n].dyn /\ u[n].nice = t[n].nice /\ u[n].act = t[n].act
    BY <2>1, <2>3 DEF Typed, In, Task, NoTask
  <2> HIDE DEF u
  <2>5. SlotsFull(u) /\ Fresh(u)
    BY <2>1, <2>4 DEF Good, SlotsFull, Fresh
  <2>6. ctl' \in [Pids -> Points] /\ \A p \in Pids \ {n} : ctl'[p] = k[p]
    BY <2>1, <2>2 DEF Good, Points
  <2>7. \A p : Children(u, p) = Children(t, p)
    BY <2>1, <2>4 DEF Children
  <2>8. \A p : Zombies(u, p) = Zombies(t, p)
    BY <2>1, <2>3, <2>4, <2>7 DEF Zombies, Children
  <2>9. Sleepers(u, ctl')
    BY <2>1, <2>4, <2>6, <2>7, <2>8 DEF Good, Sleepers, Has
  <2>10. OneRunning'
    BY <2>1, <2>2, <2>4 DEF OneRunning, NoneRuns, Has, In
  <2>11. n \in 0 .. NProc - 1
    BY <2>1 DEF Pids
  <2> QED BY <2>1, <2>2, <2>4, <2>5, <2>6, <2>9, <2>10, <2>11 DEF Good, Stopped
<1> QED BY <1>1, <1>2

\* As long as the scheduler runs, current is a task, RUNNING, and the only one.
LEMMA CurrentRuns ==
  ASSUME IInv, ~halted
  PROVE  /\ current \in Pids
         /\ In(procs, current) /\ Has(procs, current, "running")
         /\ procs[current] \in Task /\ procs[current].state = "running"
         /\ \A p \in Pids \ {current} : ~Has(procs, p, "running")
<1>1. current \in {p \in Pids : Has(procs, p, "running")}
  BY DEF IInv, OneRunning
<1>2. Has(procs, current, "running") /\ In(procs, current) /\ current \in Pids
  BY <1>1 DEF Has
<1>3. procs[current] \in Task /\ procs[current].state = "running"
  BY <1>2 DEF IInv, TypeOK, In, Has
<1> QED BY <1>2, <1>3 DEF IInv, OneRunning

\* The numbers stay in order when no task is created.
LEMMA NumbersKeep ==
  ASSUME IInv, UNCHANGED <<id, mother, made>>,
         \A p \in Pids : In(procs', p) => In(procs, p)
  PROVE  Numbered'
BY DEF IInv, Numbered

\* A step in which the running task changes itself and goes on.
LEMMA SelfStep ==
  ASSUME IInv, ~halted, NEW r \in Task,
         procs' = [procs EXCEPT ![current] = r],
         r.state = "running",
         r.parent = procs[current].parent,
         r.slot \in 1 .. r.quantum,
         r.dyn = Weight(r.nice) * r.act,
         ctl' \in [Pids -> Points], \A p \in Pids \ {current} : ctl'[p] = ctl[p],
         UNCHANGED <<current, halted, id, mother, made>>
  PROVE  Good(procs', ctl') /\ OneRunning' /\ Numbered' /\ Stopped'
<1>1. Good(procs', ctl')
  BY CurrentRuns, OneChanges DEF IInv
<1>2. \A p \in Pids : In(procs', p) <=> In(procs, p)
  BY CurrentRuns DEF IInv, TypeOK, In, Task, NoTask
<1>3. OneRunning'
  BY <1>2, CurrentRuns DEF IInv, TypeOK, OneRunning, Has
<1>4. Numbered'
  BY <1>2, NumbersKeep
<1>5. Stopped'
  BY DEF Stopped
<1> QED BY <1>1, <1>3, <1>4, <1>5

\* A step in which the running task q is replaced by r, which does not run,
\* and another one is chosen.
LEMMA SwitchStep ==
  ASSUME IInv, ~halted, NEW r \in Task, NEW k \in [Pids -> Points],
         Dispatch([procs EXCEPT ![current] = r], k),
         \A p \in Pids \ {current} : k[p] = ctl[p],
         r.state # "running",
         r.parent = procs[current].parent,
         r.slot \in 1 .. r.quantum,
         r.dyn = Weight(r.nice) * r.act,
         r.state = "zombie" => ~Has(procs, r.parent, "sleeping"),
         r.state = "sleeping" => /\ Children(procs, current) # {}
                                 /\ Zombies(procs, current) = {}
                                 /\ k[current] = "asleep",
         numticks' \in Nat, UNCHANGED <<kid, id, mother, made>>
  PROVE  IInv'
<1> DEFINE t == [procs EXCEPT ![current] = r]
<1>1. Good(t, k)
  BY CurrentRuns, OneChanges DEF IInv
<1>2. NoneRuns(t)
  BY CurrentRuns DEF IInv, TypeOK, NoneRuns, Has, In
<1>3. \A p \in Pids : In(t, p) => In(procs, p)
  BY CurrentRuns DEF IInv, TypeOK, In
<1>4. current \in Pids /\ masked \in BOOLEAN /\ halted \in BOOLEAN
  BY DEF IInv, TypeOK
<1> HIDE DEF t
<1>5. /\ Good(procs', ctl')
      /\ current' \in Pids /\ next' \in 0 .. NProc - 1
      /\ masked' \in BOOLEAN /\ halted' \in BOOLEAN
      /\ OneRunning' /\ Stopped'
      /\ \A p \in Pids : In(procs', p) => In(t, p)
  BY <1>1, <1>2, <1>4, DispatchKeeps DEF t
<1>6. Numbered'
  BY <1>3, <1>5, NumbersKeep
<1>7. TypeOK'
  BY <1>5 DEF IInv, TypeOK, Good, Typed
<1> QED BY <1>5, <1>6, <1>7 DEF IInv

------------------------------------------------------------------------------
\* The invariant holds at first and is preserved by every action.

LEMMA InitInv == Init => IInv
<1> SUFFICES ASSUME Init PROVE IInv
  OBVIOUS
<1> USE NProcAssumption, NiceAssumption, BoundAssumption
<1>1. \A q \in 0 .. NProc - 1 : NewTask(q) \in Task
  BY DEF NewTask, Task
<1>2. [NewTask(0) EXCEPT !.state = "running"] \in Task
  BY DEF NewTask, Task
<1>3. procs \in [Pids -> Task \cup {NoTask}] /\ 1 \in Pids
  BY <1>2 DEF Init, Pids
<1>4. \A p \in Pids : In(procs, p) <=> p = 1
  BY <1>3 DEF Init, In, NewTask, NoTask
<1>5. Has(procs, 1, "running") /\ procs[1].slot = Nice /\ procs[1].quantum = Nice
      /\ procs[1].dyn = 0 /\ procs[1].act = 0 /\ procs[1].nice = 0
  BY <1>3, <1>4 DEF Init, Has, NewTask
<1>6. TypeOK
  <2>1. 0 \in 0 .. NProc - 1 /\ 0 \in Nat
    OBVIOUS
  <2>2. ctl \in [Pids -> Points]
    BY DEF Init, Points
  <2>3. kid \in [Pids -> 0 .. NProc - 1]
    BY <2>1 DEF Init
  <2> QED BY <1>3, <2>1, <2>2, <2>3 DEF Init, TypeOK
<1>7. Good(procs, ctl)
  <2>1. Typed(procs) /\ ctl \in [Pids -> Points]
    BY <1>3, <1>6 DEF Typed, TypeOK
  <2>2. SlotsFull(procs) /\ Fresh(procs)
    BY <1>4, <1>5 DEF SlotsFull, Fresh, Weight
  <2>3. Sleepers(procs, ctl)
    BY <1>4, <1>5 DEF Sleepers, Has
  <2> QED BY <2>1, <2>2, <2>3 DEF Good
<1>8. OneRunning
  BY <1>3, <1>4, <1>5 DEF Init, OneRunning, Has
<1>9. Numbered
  BY <1>4 DEF Init, Numbered, Ids
<1>10. Stopped
  BY DEF Init, Stopped
<1> QED BY <1>6, <1>7, <1>8, <1>9, <1>10 DEF IInv

LEMMA TickInv == ASSUME IInv, Tick PROVE IInv'
<1> DEFINE c == procs[current]
           a == c.act + 1
           d == Weight(c.nice) * a
           r == [c EXCEPT !.act = a, !.slot = c.slot - 1, !.dyn = d]
           y == [r EXCEPT !.state = "ready", !.slot = r.quantum]
           t == [procs EXCEPT ![current].act = c.act + 1,
                              ![current].slot = c.slot - 1,
                              ![current].dyn = Weight(c.nice) * (c.act + 1)]
<1>1. /\ ~halted /\ numticks' = numticks + 1
      /\ UNCHANGED <<kid, id, mother, made>>
      /\ \/ c.slot - 1 # 0 /\ procs' = t /\ UNCHANGED <<current, next, masked, halted, ctl>>
         \/ c.slot - 1 = 0 /\ Dispatch(Yield(t), ctl)
  BY DEF Tick
<1>2. /\ current \in Pids /\ c \in Task /\ c.state = "running" /\ In(procs, current)
      /\ procs \in [Pids -> Task \cup {NoTask}]
  BY <1>1, CurrentRuns DEF IInv, TypeOK
<1>3. c.slot \in 1 .. c.quantum /\ c.quantum \in Nat /\ a \in Nat /\ c.nice \in -Nice .. Nice - 1
  BY <1>2 DEF IInv, Good, SlotsFull, Task
<1>4. d \in Nat
  BY <1>3, PriorityNat
<1>5. t = [procs EXCEPT ![current] = r]
  BY <1>2 DEF Task
<1>6. numticks' \in Nat
  BY <1>1 DEF IInv, TypeOK
<1>7. CASE c.slot - 1 # 0
  <2>0. c.slot - 1 \in Nat /\ c.slot - 1 \in 1 .. c.quantum
    BY <1>3, <1>7
  <2>1. /\ r \in Task /\ r.state = "running" /\ r.parent = c.parent
        /\ r.slot \in 1 .. r.quantum /\ r.dyn = Weight(r.nice) * r.act
    <3> HIDE DEF d
    <3>1. /\ r \in Task /\ r.state = c.state /\ r.parent = c.parent
          /\ r.quantum = c.quantum /\ r.nice = c.nice
          /\ r.act = a /\ r.slot = c.slot - 1 /\ r.dyn = d
      BY <1>2, <1>3, <1>4, <2>0 DEF Task
    <3>2. d = Weight(r.nice) * r.act
      BY <3>1 DEF d
    <3> HIDE DEF r
    <3> QED BY <1>2, <2>0, <3>1, <3>2
  <2>2. procs' = [procs EXCEPT ![current] = r] /\ UNCHANGED <<current, next, masked, halted, ctl>>
    BY <1>1, <1>5, <1>7
  <2>3. ctl' \in [Pids -> Points]
    BY <2>2 DEF IInv, TypeOK
  <2> HIDE DEF r
  <2>4. Good(procs', ctl') /\ OneRunning' /\ Numbered' /\ Stopped'
    BY <1>1, <2>1, <2>2, <2>3, SelfStep
  <2>5. TypeOK'
    BY <1>1, <1>6, <2>2, <2>4 DEF IInv, TypeOK, Good, Typed
  <2> QED BY <2>4, <2>5 DEF IInv
<1>8. CASE c.slot - 1 = 0
  <2>1. /\ y \in Task /\ y.state = "ready" /\ y.parent = c.parent
        /\ y.slot \in 1 .. y.quantum /\ y.dyn = Weight(y.nice) * y.act
    <3>1. c.slot - 1 \in Nat /\ c.quantum \in 1 .. c.quantum
      BY <1>3
    <3> HIDE DEF d
    <3>2. /\ r \in Task /\ r.parent = c.parent /\ r.quantum = c.quantum
          /\ r.nice = c.nice /\ r.act = a /\ r.dyn = d
      BY <1>2, <1>3, <1>4, <3>1 DEF Task
    <3>3. r.dyn = Weight(r.nice) * r.act
      BY <3>2 DEF d
    <3> HIDE DEF r
    <3> QED BY <1>3, <3>1, <3>2, <3>3 DEF Task
  <2>2. Yield(t) = [procs EXCEPT ![current] = y]
    BY <1>2, <1>5 DEF Yield, Task
  <2>3. Dispatch([procs EXCEPT ![current] = y], ctl)
    BY <1>1, <1>8, <2>2
  <2>4. ctl \in [Pids -> Points]
    BY DEF IInv, TypeOK
  <2> HIDE DEF y
  <2> QED BY <1>1, <1>6, <2>1, <2>3, <2>4, SwitchStep
<1> QED BY <1>1, <1>7, <1>8

\* A failing sched_fork or sched_wait leaves everything but next and the mask.
LEMMA RefusedInv ==
  ASSUME IInv, next' \in 0 .. NProc - 1, masked' \in BOOLEAN,
         UNCHANGED <<procs, current, numticks, halted, ctl, kid, id, mother, made>>
  PROVE  IInv'
BY DEF IInv, TypeOK, OneRunning, Numbered, Stopped

LEMMA ForkInv == ASSUME IInv, Fork PROVE IInv'
<1> DEFINE p == Lowest({x \in Pids : ~In(procs, x)})
           r == NewTask(current)
<1>1. /\ ~halted /\ ctl[current] = "user" /\ made < MaxTasks
      /\ procs' = [procs EXCEPT ![p] = r]
      /\ next' = p
      /\ kid' = [kid EXCEPT ![current] = p]
      /\ ctl' = [ctl EXCEPT ![current] = "forked", ![p] = "child"]
      /\ id' = [id EXCEPT ![p] = made + 1]
      /\ mother' = [mother EXCEPT ![made + 1] = id[current]]
      /\ made' = made + 1
      /\ masked' = FALSE
      /\ UNCHANGED <<current, numticks, halted>>
  BY DEF Fork, Running
<1>2. p \in Pids /\ ~In(procs, p)
  <2>1. p \in {x \in Pids : ~In(procs, x)}
    BY LowestPid DEF Fork
  <2> QED BY <2>1
<1> HIDE DEF p
<1>3. /\ current \in Pids /\ In(procs, current) /\ Has(procs, current, "running")
      /\ procs[current].state = "running" /\ current # p
  BY <1>1, <1>2, CurrentRuns
<1>4. /\ r \in Task /\ r # NoTask /\ r.state = "ready" /\ r.parent = current
      /\ r.slot \in 1 .. r.quantum /\ r.dyn = Weight(r.nice) * r.act
  <2>1. current \in 0 .. NProc - 1
    BY <1>3 DEF Pids
  <2> QED BY <2>1, NiceAssumption DEF NewTask, Task, NoTask, Weight
<1>5. procs \in [Pids -> Task \cup {NoTask}] /\ ctl \in [Pids -> Points]
      /\ kid \in [Pids -> 0 .. NProc - 1]
  BY DEF IInv, TypeOK
<1> HIDE DEF r
<1>6. /\ Typed(procs') /\ procs'[p] = r /\ \A x \in Pids \ {p} : procs'[x] = procs[x]
  BY <1>1, <1>2, <1>4, <1>5 DEF Typed
<1>7. \A x \in Pids : In(procs', x) <=> In(procs, x) \/ x = p
  BY <1>2, <1>4, <1>6 DEF In
<1>8. ctl' \in [Pids -> Points] /\ \A x \in Pids \ {p, current} : ctl'[x] = ctl[x]
  BY <1>1, <1>2, <1>3, <1>5 DEF Points
<1>9. SlotsFull(procs') /\ Fresh(procs')
  BY <1>4, <1>6, <1>7 DEF IInv, Good, SlotsFull, Fresh
<1>10. Sleepers(procs', ctl')
  <2> SUFFICES ASSUME NEW x \in Pids, Has(procs', x, "sleeping")
               PROVE  Children(procs', x) # {} /\ Zombies(procs', x) = {} /\ ctl'[x] = "asleep"
    BY DEF Sleepers
  <2>1. x # p /\ Has(procs, x, "sleeping") /\ x # current
    BY <1>3, <1>4, <1>6, <1>7 DEF Has
  <2>2. Children(procs, x) # {} /\ Zombies(procs, x) = {} /\ ctl[x] = "asleep"
    BY <2>1 DEF IInv, Good, Sleepers
  <2>3. Children(procs', x) = Children(procs, x)
    BY <1>2, <1>4, <1>6, <1>7, <2>1 DEF Children
  <2>4. Zombies(procs', x) = Zombies(procs, x)
    BY <1>2, <1>4, <1>6, <1>7, <2>3 DEF Zombies, Children
  <2> QED BY <1>8, <2>1, <2>2, <2>3, <2>4
<1>11. OneRunning'
  <2>1. {x \in Pids : Has(procs, x, "running")} = {current}
    BY <1>1 DEF IInv, OneRunning
  <2>2. \A x \in Pids : Has(procs', x, "running") <=> Has(procs, x, "running")
    BY <1>2, <1>4, <1>6, <1>7 DEF Has
  <2> QED BY <1>1, <2>1, <2>2 DEF OneRunning
<1>12. Numbered'
  <2>1. made + 1 \in Ids /\ made' \in 1 .. MaxTasks /\ made \in Nat
    BY <1>1, BoundAssumption DEF IInv, Numbered, Ids
  <2>2. id[current] \in 1 .. made /\ id \in [Pids -> Nat] /\ mother \in [Ids -> Nat]
    BY <1>3 DEF IInv, Numbered
  <2>3. id' \in [Pids -> Nat]
    BY <1>1, <1>2, <2>1, <2>2
  <2>6. id[current] \in Nat
    BY <2>1, <2>2
  <2>7. mother' \in [Ids -> Nat]
    BY <1>1, <2>1, <2>2, <2>6
  <2>4. \A x \in Pids : In(procs', x) => id'[x] \in 1 .. made'
    BY <1>1, <1>7, <2>1, <2>2 DEF IInv, Numbered
  <2>5. \A n \in 1 .. made' : mother'[n] < n
    BY <1>1, <2>1, <2>2 DEF IInv, Numbered, Ids
  <2> QED BY <2>1, <2>3, <2>4, <2>5, <2>7 DEF Numbered
<1>13. TypeOK'
  <2>1. p \in 0 .. NProc - 1
    BY <1>2 DEF Pids
  <2> QED BY <1>1, <1>3, <1>5, <1>6, <1>8, <2>1 DEF IInv, TypeOK, Typed
<1>14. Stopped'
  BY <1>1 DEF Stopped
<1> QED BY <1>6, <1>8, <1>9, <1>10, <1>11, <1>12, <1>13, <1>14 DEF IInv, Good

LEMMA ForkReturnInv == ASSUME IInv, ForkReturn PROVE IInv'
<1>1. ctl' = [ctl EXCEPT ![current] = "user"]
      /\ kid' = [kid EXCEPT ![current] = 0]
      /\ UNCHANGED <<procs, current, next, numticks, masked, halted, id, mother, made>>
      /\ ctl[current] = "forked" /\ ~halted
  BY DEF ForkReturn, Running, Resume, hist
<1>2. ctl' \in [Pids -> Points] /\ kid' \in [Pids -> 0 .. NProc - 1]
  BY <1>1, NProcAssumption DEF IInv, TypeOK, Points
<1>3. Sleepers(procs', ctl')
  BY <1>1, CurrentRuns DEF IInv, Good, Sleepers, TypeOK, Has
<1>4. TypeOK'
  BY <1>1, <1>2 DEF IInv, TypeOK
<1>5. Good(procs', ctl')
  BY <1>1, <1>2, <1>3 DEF IInv, Good
<1> QED BY <1>1, <1>4, <1>5 DEF IInv, OneRunning, Numbered, Stopped

LEMMA ExitInv == ASSUME IInv, NEW code \in Int, Exit(code) PROVE IInv'
<1> DEFINE c == procs[current]
           p == c.parent
           r == [c EXCEPT !.state = "zombie", !.exit = code]
           t == [procs EXCEPT ![p].childExit = code,
                              ![p].state = "ready",
                              ![current] = NoTask]
<1>1. /\ ~halted /\ UNCHANGED <<numticks, kid, id, mother, made>>
      /\ \/ Has(procs, p, "sleeping") /\ Dispatch(t, ctl)
         \/ /\ ~Has(procs, p, "sleeping")
            /\ Dispatch([procs EXCEPT ![current].state = "zombie",
                                      ![current].exit = code], ctl)
  BY DEF Exit, Running
<1>2. /\ current \in Pids /\ In(procs, current) /\ Has(procs, current, "running")
      /\ c \in Task /\ c.state = "running"
      /\ \A x \in Pids \ {current} : ~Has(procs, x, "running")
      /\ procs \in [Pids -> Task \cup {NoTask}]
      /\ ctl \in [Pids -> Points] /\ numticks \in Nat
      /\ masked \in BOOLEAN /\ halted \in BOOLEAN
  BY <1>1, CurrentRuns DEF IInv, TypeOK
<1>3. CASE ~Has(procs, p, "sleeping")
  <2>1. Dispatch([procs EXCEPT ![current] = r], ctl)
    <3>1. [procs EXCEPT ![current].state = "zombie", ![current].exit = code]
            = [procs EXCEPT ![current] = r]
      BY <1>2 DEF Task
    <3> QED BY <1>1, <1>3, <3>1
  <2>2. /\ r \in Task /\ r.state = "zombie" /\ r.parent = p
        /\ r.slot = c.slot /\ r.quantum = c.quantum
        /\ r.dyn = c.dyn /\ r.nice = c.nice /\ r.act = c.act
    BY <1>2 DEF Task
  <2>3. r.slot \in 1 .. r.quantum /\ r.dyn = Weight(r.nice) * r.act
    BY <1>2, <2>2 DEF IInv, Good, SlotsFull, Fresh
  <2> HIDE DEF r
  <2> QED BY <1>1, <1>2, <1>3, <2>1, <2>2, <2>3, SwitchStep
<1>4. CASE Has(procs, p, "sleeping")
  <2>1. /\ p \in Pids /\ procs[p] \in Task /\ procs[p].state = "sleeping" /\ p # current
        /\ In(procs, p)
    BY <1>2, <1>4 DEF Has, In
  <2>2. /\ t \in [Pids -> Task \cup {NoTask}]
        /\ t[current] = NoTask
        /\ \A x \in Pids \ {p, current} : t[x] = procs[x]
        /\ t[p] \in Task /\ t[p].state = "ready" /\ t[p].parent = procs[p].parent
        /\ t[p].slot = procs[p].slot /\ t[p].quantum = procs[p].quantum
        /\ t[p].dyn = procs[p].dyn /\ t[p].nice = procs[p].nice /\ t[p].act = procs[p].act
    BY <1>2, <2>1 DEF Task
  <2> HIDE DEF t
  <2>3. \A x \in Pids : In(t, x) <=> In(procs, x) /\ x # current
    BY <1>2, <2>1, <2>2 DEF In, Task, NoTask
  <2>4. SlotsFull(t) /\ Fresh(t)
    BY <2>1, <2>2, <2>3 DEF IInv, Good, SlotsFull, Fresh
  <2>5. Sleepers(t, ctl)
    <3> SUFFICES ASSUME NEW x \in Pids, Has(t, x, "sleeping")
                 PROVE  Children(t, x) # {} /\ Zombies(t, x) = {} /\ ctl[x] = "asleep"
      BY DEF Sleepers
    <3>1. x # p /\ x # current /\ Has(procs, x, "sleeping")
      BY <2>2, <2>3 DEF Has
    <3>2. Children(procs, x) # {} /\ Zombies(procs, x) = {} /\ ctl[x] = "asleep"
      BY <3>1 DEF IInv, Good, Sleepers
    <3>3. Children(t, x) = Children(procs, x)
      BY <1>2, <2>1, <2>2, <2>3, <3>1 DEF Children
    <3>4. Zombies(t, x) = {}
      BY <2>1, <2>2, <2>3, <3>2, <3>3 DEF Zombies, Children
    <3> QED BY <3>2, <3>3, <3>4
  <2>6. Good(t, ctl)
    BY <1>2, <2>2, <2>4, <2>5 DEF Good, Typed
  <2>7. NoneRuns(t)
    BY <1>2, <2>2, <2>3 DEF NoneRuns, Has
  <2>8. /\ Good(procs', ctl')
        /\ current' \in Pids /\ next' \in 0 .. NProc - 1
        /\ masked' \in BOOLEAN /\ halted' \in BOOLEAN
        /\ OneRunning' /\ Stopped'
        /\ \A x \in Pids : In(procs', x) => In(t, x)
    BY <1>1, <1>2, <1>4, <2>6, <2>7, DispatchKeeps DEF t
  <2>9. Numbered'
    BY <1>1, <2>3, <2>8, NumbersKeep
  <2>10. TypeOK'
    BY <1>1, <2>8 DEF IInv, TypeOK, Good, Typed
  <2> QED BY <2>8, <2>9, <2>10 DEF IInv
<1> QED BY <1>3, <1>4

LEMMA WaitZombieInv == ASSUME IInv, WaitZombie PROVE IInv'
<1> DEFINE z == Lowest(Zombies(procs, current))
<1>1. /\ ~halted /\ procs' = [procs EXCEPT ![z] = NoTask] /\ masked' = FALSE
      /\ UNCHANGED <<current, next, numticks, halted, ctl, kid, id, mother, made>>
      /\ Zombies(procs, current) # {}
  BY DEF WaitZombie, Running
<1>2. z \in Zombies(procs, current)
  <2>1. Zombies(procs, current) \in SUBSET Pids
    BY DEF Zombies, Children
  <2> QED BY <1>1, <2>1, LowestPid
<1> HIDE DEF z
<1>3. z \in Pids /\ In(procs, z) /\ procs[z].state = "zombie" /\ procs[z].parent = current
  BY <1>2 DEF Zombies, Children
<1>4. /\ current \in Pids /\ procs[current].state = "running"
      /\ procs \in [Pids -> Task \cup {NoTask}]
  BY <1>1, CurrentRuns DEF IInv, TypeOK
<1>5. /\ procs' \in [Pids -> Task \cup {NoTask}]
      /\ \A x \in Pids \ {z} : procs'[x] = procs[x]
      /\ \A x \in Pids : In(procs', x) <=> In(procs, x) /\ x # z
  BY <1>1, <1>3, <1>4 DEF In
<1>6. SlotsFull(procs') /\ Fresh(procs')
  BY <1>5 DEF IInv, Good, SlotsFull, Fresh
<1>7. Sleepers(procs', ctl')
  <2> SUFFICES ASSUME NEW x \in Pids, Has(procs', x, "sleeping")
               PROVE  Children(procs', x) # {} /\ Zombies(procs', x) = {} /\ ctl'[x] = "asleep"
    BY DEF Sleepers
  <2>1. Has(procs, x, "sleeping") /\ x # current
    BY <1>4, <1>5 DEF Has
  <2>2. Children(procs, x) # {} /\ Zombies(procs, x) = {} /\ ctl[x] = "asleep"
    BY <2>1 DEF IInv, Good, Sleepers
  <2>3. Children(procs', x) = Children(procs, x)
    BY <1>3, <1>5, <2>1 DEF Children
  <2>4. Zombies(procs', x) = {}
    BY <1>5, <2>2, <2>3 DEF Zombies, Children
  <2> QED BY <1>1, <2>2, <2>3, <2>4
<1>8. OneRunning'
  BY <1>1, <1>3, <1>4, <1>5 DEF IInv, OneRunning, Has
<1>9. TypeOK'
  BY <1>1, <1>5 DEF IInv, TypeOK
<1>10. Numbered'
  BY <1>1, <1>5, NumbersKeep
<1>11. Good(procs', ctl')
  BY <1>1, <1>5, <1>6, <1>7 DEF IInv, Good, Typed
<1> QED BY <1>1, <1>8, <1>9, <1>10, <1>11 DEF IInv, Stopped

LEMMA WaitSleepInv == ASSUME IInv, WaitSleep PROVE IInv'
<1> DEFINE c == procs[current]
           r == [c EXCEPT !.state = "sleeping"]
           k == [ctl EXCEPT ![current] = "asleep"]
<1>1. /\ ~halted /\ UNCHANGED <<numticks, kid, id, mother, made>>
      /\ Children(procs, current) # {} /\ Zombies(procs, current) = {}
      /\ Dispatch([procs EXCEPT ![current].state = "sleeping"], k)
  BY DEF WaitSleep, Running
<1>2. current \in Pids /\ c \in Task /\ In(procs, current)
      /\ ctl \in [Pids -> Points] /\ numticks \in Nat
  BY <1>1, CurrentRuns DEF IInv, TypeOK
<1>3. /\ r \in Task /\ r.state = "sleeping" /\ r.parent = c.parent
      /\ r.slot = c.slot /\ r.quantum = c.quantum
      /\ r.dyn = c.dyn /\ r.nice = c.nice /\ r.act = c.act
  BY <1>2 DEF Task
<1>4. r.slot \in 1 .. r.quantum /\ r.dyn = Weight(r.nice) * r.act
  BY <1>2, <1>3 DEF IInv, Good, SlotsFull, Fresh
<1>5. k \in [Pids -> Points] /\ k[current] = "asleep" /\ \A p \in Pids \ {current} : k[p] = ctl[p]
  BY <1>2 DEF Points
<1> HIDE DEF k
<1>6. Dispatch([procs EXCEPT ![current] = r], k)
  BY <1>1
<1> HIDE DEF r
<1> QED BY <1>1, <1>2, <1>3, <1>4, <1>5, <1>6, SwitchStep

LEMMA WaitReadInv == ASSUME IInv, WaitRead PROVE IInv'
<1>1. ctl' = [ctl EXCEPT ![current] = "read"] /\ ~halted
      /\ UNCHANGED <<procs, current, next, numticks, masked, halted, kid, id, mother, made>>
  BY DEF WaitRead, Running, Resume
<1>2. ctl' \in [Pids -> Points]
  BY <1>1 DEF IInv, TypeOK, Points
<1>3. Sleepers(procs', ctl')
  BY <1>1, CurrentRuns DEF IInv, Good, Sleepers, TypeOK, Has
<1>4. TypeOK'
  BY <1>1, <1>2 DEF IInv, TypeOK
<1>5. Good(procs', ctl')
  BY <1>1, <1>2, <1>3 DEF IInv, Good
<1> QED BY <1>1, <1>4, <1>5 DEF IInv, OneRunning, Numbered, Stopped

LEMMA WaitClearInv == ASSUME IInv, WaitClear PROVE IInv'
<1> DEFINE c == procs[current]
           r == [c EXCEPT !.childExit = 0]
<1>1. /\ ~halted /\ ctl' = [ctl EXCEPT ![current] = "user"]
      /\ procs' = [procs EXCEPT ![current].childExit = 0] /\ masked' = FALSE
      /\ UNCHANGED <<current, next, numticks, halted, kid, id, mother, made>>
  BY DEF WaitClear, Running, Resume, hist
<1>2. current \in Pids /\ c \in Task /\ c.state = "running" /\ In(procs, current)
  BY <1>1, CurrentRuns
<1>3. /\ r \in Task /\ r.state = "running" /\ r.parent = c.parent
      /\ r.slot = c.slot /\ r.quantum = c.quantum
      /\ r.dyn = c.dyn /\ r.nice = c.nice /\ r.act = c.act
  BY <1>2 DEF Task
<1>4. r.slot \in 1 .. r.quantum /\ r.dyn = Weight(r.nice) * r.act
  BY <1>2, <1>3 DEF IInv, Good, SlotsFull, Fresh
<1>5. ctl' \in [Pids -> Points] /\ \A p \in Pids \ {current} : ctl'[p] = ctl[p]
  BY <1>1, <1>2 DEF IInv, TypeOK, Points
<1>6. procs' = [procs EXCEPT ![current] = r]
  BY <1>1
<1> HIDE DEF r
<1>7. Good(procs', ctl') /\ OneRunning' /\ Numbered' /\ Stopped'
  BY <1>1, <1>3, <1>4, <1>5, <1>6, SelfStep
<1>8. TypeOK'
  BY <1>1, <1>7 DEF IInv, TypeOK, Good, Typed
<1> QED BY <1>7, <1>8 DEF IInv

LEMMA SetNiceInv == ASSUME IInv, NEW n \in Int, SetNice(n) PROVE IInv'
<1> DEFINE c == procs[current]
           m == Clamp(n)
           r == [c EXCEPT !.nice = m, !.quantum = Nice - m, !.dyn = Weight(m) * c.act,
                          !.slot = Nice - m]
<1>1. /\ ~halted /\ masked' = FALSE
      /\ procs' = [procs EXCEPT ![current].nice = m,
                                ![current].quantum = Nice - m,
                                ![current].dyn = Weight(m) * c.act,
                                ![current].slot = Nice - m]
      /\ UNCHANGED <<current, next, numticks, halted, ctl, kid, id, mother, made>>
  BY DEF SetNice, Running, hist
<1>2. current \in Pids /\ c \in Task /\ c.state = "running" /\ In(procs, current)
      /\ procs \in [Pids -> Task \cup {NoTask}] /\ c.act \in Nat
  BY <1>1, CurrentRuns DEF IInv, TypeOK, Task
<1>3. m \in -Nice .. Nice - 1 /\ Nice - m \in Nat \ {0}
  BY ClampInRange
<1> HIDE DEF m
<1>4. Weight(m) * c.act \in Nat
  BY <1>2, <1>3, PriorityNat
<1>5. /\ r \in Task /\ r.state = "running" /\ r.parent = c.parent
      /\ r.slot \in 1 .. r.quantum /\ r.dyn = Weight(r.nice) * r.act
  <2> DEFINE d == Weight(m) * c.act
  <2>1. /\ r.nice = m /\ r.quantum = Nice - m /\ r.dyn = d /\ r.slot = Nice - m
        /\ r.act = c.act /\ r.state = c.state /\ r.parent = c.parent
    BY <1>2 DEF Task
  <2>2. d \in Nat
    BY <1>4
  <2> HIDE DEF d
  <2>3. r = [c EXCEPT !.nice = m, !.quantum = Nice - m, !.dyn = d, !.slot = Nice - m]
    BY DEF d
  <2> HIDE DEF r
  <2>4. r \in Task
    BY <1>2, <1>3, <2>2, <2>3 DEF Task
  <2>5. r.slot \in 1 .. r.quantum
    BY <1>3, <2>1
  <2> QED BY <1>2, <2>1, <2>4, <2>5 DEF d
<1>6. procs' = [procs EXCEPT ![current] = r]
  BY <1>1, <1>2 DEF Task
<1>7. ctl' \in [Pids -> Points] /\ \A p \in Pids \ {current} : ctl'[p] = ctl[p]
  BY <1>1 DEF IInv, TypeOK
<1> HIDE DEF r
<1>8. Good(procs', ctl') /\ OneRunning' /\ Numbered' /\ Stopped'
  BY <1>1, <1>5, <1>6, <1>7, SelfStep
<1>9. TypeOK'
  BY <1>1, <1>8 DEF IInv, TypeOK, Good, Typed
<1> QED BY <1>8, <1>9 DEF IInv

LEMMA StepInv == IInv /\ [Next]_vars => IInv'
<1> SUFFICES ASSUME IInv, [Next]_vars PROVE IInv'
  OBVIOUS
<1>1. CASE Tick
  BY <1>1, TickInv
<1>2. CASE ForkFull
  BY <1>2, RefusedInv DEF ForkFull, IInv, TypeOK, hist
<1>3. CASE ForkNoStack
  <2>1. Lowest({p \in Pids : ~In(procs, p)}) \in Pids
    <3>1. Lowest({p \in Pids : ~In(procs, p)}) \in {p \in Pids : ~In(procs, p)}
      BY <1>3, LowestPid DEF ForkNoStack
    <3> QED BY <3>1
  <2>2. next' \in 0 .. NProc - 1
    BY <1>3, <2>1 DEF ForkNoStack, Pids
  <2> QED BY <1>3, <2>2, RefusedInv DEF ForkNoStack, hist
<1>4. CASE Fork
  BY <1>4, ForkInv
<1>5. CASE Exit(id[current])
  <2>1. id[current] \in Int
    BY DEF IInv, TypeOK, Numbered
  <2> QED BY <1>5, <2>1, ExitInv
<1>6. CASE WaitNoChild
  BY <1>6, RefusedInv DEF WaitNoChild, IInv, TypeOK, hist
<1>7. CASE WaitZombie
  BY <1>7, WaitZombieInv
<1>8. CASE WaitSleep
  BY <1>8, WaitSleepInv
<1>9. CASE \E n \in NiceArgs : SetNice(n)
  BY <1>9, SetNiceInv, NiceAssumption
<1>10. CASE ForkReturn
  BY <1>10, ForkReturnInv
<1>11. CASE WaitRead
  BY <1>11, WaitReadInv
<1>12. CASE WaitClear
  BY <1>12, WaitClearInv
<1>13. CASE UNCHANGED vars
  BY <1>13 DEF vars, hist, IInv, TypeOK, OneRunning, Numbered, Stopped
<1> QED BY <1>1, <1>2, <1>3, <1>4, <1>5, <1>6, <1>7, <1>8, <1>9, <1>10, <1>11, <1>12, <1>13
        DEF Next, Call

\* Every reachable state satisfies the inductive invariant: sched.c keeps its
\* table in order whatever the tasks call and whenever the timer ticks.
THEOREM Invariance == Spec => []IInv
  BY InitInv, StepInv, PTL DEF Spec

------------------------------------------------------------------------------
\* What follows from the invariant.

\* The state has its type: current is always the pid of a task.
THEOREM TypeCorrect == Spec => []TypeOK
<1>1. IInv => TypeOK
  BY DEF IInv
<1> QED BY <1>1, Invariance, PTL

\* As long as the scheduler runs, current is the only RUNNING task
\* (sched.c:151, 199, 301, 315-316).
THEOREM OneRuns == Spec => []OneRunning
<1>1. IInv => OneRunning
  BY DEF IInv
<1> QED BY <1>1, Invariance, PTL

\* No time slot is ever used up without a switch, whatever sched_nice is
\* called with (sched.c:229-234, 302, 327-333).
THEOREM SlotsKept == Spec => []SlotInRange
<1>1. IInv => SlotInRange
  BY DEF IInv, Good, SlotsFull, SlotInRange
<1> QED BY <1>1, Invariance, PTL

\* The dynamic priorities are up to date (sched.c:233, 329).
THEOREM PrioritiesKept == Spec => []PriorityFresh
<1>1. IInv => PriorityFresh
  BY DEF IInv, Good, Fresh, PriorityFresh
<1> QED BY <1>1, Invariance, PTL

\* Who sleeps in sched_wait has a child that will wake it and none that has
\* ended (sched.c:153-164, 192-200).
THEOREM SleepersWait == Spec => []SleeperSound
<1>1. IInv => SleeperSound
  BY DEF IInv, Good, Sleepers, SleeperSound
<1> QED BY <1>1, Invariance, PTL

\* "all procs ended" is true when it is printed, as long as no pid named as a
\* parent has gone to another task (sched.c:306-308): of the sleepers, the
\* youngest would wait for a younger one.
THEOREM EndsWhenEnded == Spec => []EndedWhenGenuine
<1>1. IInv => EndedWhenGenuine
  <2> SUFFICES ASSUME IInv, halted, Genuine, NEW p \in Pids, In(procs, p),
                      procs[p].state # "zombie"
               PROVE  FALSE
    BY DEF EndedWhenGenuine, AllEnded
  <2> DEFINE S == {x \in Pids : Has(procs, x, "sleeping")}
             N == {-id[x] : x \in S}
  <2>1. \A x \in Pids : In(procs, x) =>
           procs[x].state \in {"sleeping", "zombie"}
    BY DEF IInv, TypeOK, Stopped, Has, In, Task
  <2>2. p \in S
    BY <2>1 DEF Has
  <2>3. id \in [Pids -> Nat]
    BY DEF IInv, Numbered
  <2>4. N \subseteq Int /\ N # {}
    BY <2>2, <2>3
  <2>5. IsFiniteSet(N)
    <3> DEFINE g == [x \in S |-> -id[x]]
    <3>1. g \in Surjection(S, N)
      BY DEF Surjection
    <3>2. IsFiniteSet(S)
      BY PidsFinite, FS_Subset
    <3> QED BY <3>1, <3>2, FS_Surjection
  <2>6. PICK x \in S : \A y \in S : -id[x] <= -id[y]
    <3>1. PICK m \in N : \A e \in N : m <= e
      BY <2>4, <2>5, LowestExists
    <3> QED BY <3>1
  <2>7. PICK y \in Children(procs, x) : y \notin Zombies(procs, x)
    BY <2>6 DEF IInv, Good, Sleepers
  <2>8. y \in S
    BY <2>1, <2>7 DEF Children, Zombies, Has
  <2>9. id[x] = mother[id[y]]
    BY <2>6, <2>7 DEF Genuine, Children, Has
  <2>10. mother[id[y]] < id[y]
    BY <2>8 DEF IInv, Numbered, Has
  <2> QED BY <2>3, <2>6, <2>8, <2>9, <2>10
<1> QED BY <1>1, Invariance, PTL
------------------------------------------------------------------------------
(***************************************************************************)
(* The way of an exit code through Sched.tla, for every number of pids,    *)
(* tasks and ticks: sched_exit leaves it with a zombie or with a sleeping  *)
(* parent, sched_wait takes it out of there, once, and for a task that is  *)
(* entitled to it.                                                         *)
(***************************************************************************)

\* A task that has been awakened in sched_wait and has not yet read
\* child_exit: with the context switch behind it or still ahead.
Carries(t, k, p) == /\ In(t, p)
                    /\ \/ k[p] = "woken"
                       \/ k[p] = "asleep" /\ t[p].state # "sleeping"

\* Who has ended is a zombie with its own number as code, or gone.
Bodies(t, k, d) == \A p \in Pids : In(t, p) =>
    /\ t[p].state = "zombie" => t[p].exit = id[p] /\ id[p] \in d /\ k[p] = "user"
    /\ t[p].state # "zombie" => id[p] \notin d

Distinct(t) == \A p, q \in Pids : In(t, p) /\ In(t, q) /\ id[p] = id[q] => p = q

\* child_exit is 0 unless a code is on its way in it, or has just been read.
Pockets(t, k, d) == \A p \in Pids : In(t, p) =>
    /\ Carries(t, k, p) => t[p].childExit \in d
    /\ ~Carries(t, k, p) => t[p].childExit = 0 \/ k[p] = "read"

\* A code that is on its way, or has been given, belongs to a task that has
\* left the table, and is in no other place.
Once(t, k) ==
    /\ \A p, q \in Pids : Carries(t, k, p) /\ In(t, q) => t[p].childExit # id[q]
    /\ \A p, q \in Pids : Carries(t, k, p) /\ Carries(t, k, q) /\ p # q
                             => t[p].childExit # t[q].childExit
    /\ \A p \in Pids, x \in reaped : Carries(t, k, p) => t[p].childExit # x[2]

Given(t, d) ==
    /\ \A x \in reaped : x[2] \in d /\ \A q \in Pids : In(t, q) => id[q] # x[2]
    /\ \A x, y \in reaped : x[2] = y[2] => x = y

\* No code is lost.
Somewhere(t, k, d) == \A n \in d :
    \/ \E p \in Pids : In(t, p) /\ t[p].state = "zombie" /\ id[p] = n
    \/ \E p \in Pids : Carries(t, k, p) /\ t[p].childExit = n
    \/ \E x \in reaped : x[2] = n

\* The parent field names the mother, unless she has ended.
Kin(t, k, d) == \A c \in Pids : In(t, c) =>
    \/ mother[id[c]] \in d
    \/ t[c].parent = 0
    \/ In(t, t[c].parent) /\ id[t[c].parent] = mother[id[c]]

Heirs(t, k, d) == \A p \in Pids : Carries(t, k, p) =>
    mother[t[p].childExit] = id[p] \/ mother[t[p].childExit] \in d

Rightful(d) == \A x \in reaped : mother[x[2]] = x[1] \/ mother[x[2]] \in d

Ledger(t, k, d) == /\ Bodies(t, k, d) /\ Distinct(t)
                   /\ Pockets(t, k, d) /\ Once(t, k) /\ Given(t, d)
                   /\ Somewhere(t, k, d)
                   /\ Kin(t, k, d) /\ Heirs(t, k, d) /\ Rightful(d)

Codes == Ledger(procs, ctl, dead) /\ dead \subseteq 1 .. made

------------------------------------------------------------------------------
\* Most steps leave everything the ledger is about as it was.
AsBefore(t, k, u, j) == \A p \in Pids :
    /\ In(u, p) <=> In(t, p)
    /\ Carries(u, j, p) <=> Carries(t, k, p)
    /\ In(t, p) => /\ u[p].parent = t[p].parent
                   /\ u[p].exit = t[p].exit
                   /\ u[p].childExit = t[p].childExit
                   /\ u[p].state = "zombie" <=> t[p].state = "zombie"
                   /\ k[p] = "read" => j[p] = "read"
                   /\ t[p].state = "zombie" => j[p] = k[p]

LEMMA LedgerSame ==
  ASSUME NEW t, NEW k, NEW u, NEW j, NEW d, Ledger(t, k, d), AsBefore(t, k, u, j)
  PROVE  Ledger(u, j, d)
<1> USE DEF AsBefore
<1>1. \A p \in Pids : /\ In(u, p) <=> In(t, p)
                      /\ Carries(u, j, p) <=> Carries(t, k, p)
  OBVIOUS
<1>2. \A p \in Pids : Carries(t, k, p) => In(t, p) /\ u[p].childExit = t[p].childExit
  BY DEF Carries
<1>3. Bodies(u, j, d)
  BY DEF Ledger, Bodies
<1>4. Distinct(u)
  BY <1>1 DEF Ledger, Distinct
<1>5. Pockets(u, j, d)
  BY DEF Ledger, Pockets
<1>6. Once(u, j)
  BY <1>1, <1>2 DEF Ledger, Once
<1>7. Given(u, d)
  BY <1>1 DEF Ledger, Given
<1>8. Somewhere(u, j, d)
  <2> SUFFICES ASSUME NEW n \in d,
                      ~ \E x \in reaped : x[2] = n,
                      ~ \E p \in Pids : Carries(u, j, p) /\ u[p].childExit = n
               PROVE  \E p \in Pids : In(u, p) /\ u[p].state = "zombie" /\ id[p] = n
    BY DEF Somewhere
  <2>1. PICK p \in Pids : In(t, p) /\ t[p].state = "zombie" /\ id[p] = n
    BY <1>1, <1>2 DEF Ledger, Somewhere
  <2> QED BY <2>1
<1>9. Kin(u, j, d)
  <2> SUFFICES ASSUME NEW c \in Pids, In(u, c), mother[id[c]] \notin d, u[c].parent # 0
               PROVE  In(u, u[c].parent) /\ id[u[c].parent] = mother[id[c]]
    BY DEF Kin
  <2>1. In(t, c) /\ u[c].parent = t[c].parent
    OBVIOUS
  <2>2. In(t, t[c].parent) /\ id[t[c].parent] = mother[id[c]]
    BY <2>1 DEF Ledger, Kin
  <2>3. t[c].parent \in Pids
    BY <2>2 DEF In
  <2> QED BY <2>1, <2>2, <2>3
<1>10. Heirs(u, j, d)
  BY <1>1, <1>2 DEF Ledger, Heirs
<1>11. Rightful(d)
  BY DEF Ledger
<1> QED BY <1>3, <1>4, <1>5, <1>6, <1>7, <1>8, <1>9, <1>10, <1>11 DEF Ledger

\* A context switch is such a step: it makes a task RUNNING and lets it go on.
LEMMA SwitchSame ==
  ASSUME NEW t, NEW k, Typed(t), k \in [Pids -> Points], Dispatch(t, k)
  PROVE  AsBefore(t, k, procs', ctl')
<1>1. CASE Ready(t) = {}
  BY <1>1 DEF Dispatch, AsBefore
<1>2. CASE Ready(t) # {}
  <2> DEFINE n == FindLowest(t)
  <2>1. n \in Pids /\ Has(t, n, "ready")
    BY <1>2, FindsReady DEF Ready
  <2>2. /\ procs' = [t EXCEPT ![n].state = "running"]
        /\ ctl' = [k EXCEPT ![n] = CASE @ = "child"  -> "user"
                                     [] @ = "asleep" -> "woken"
                                     [] OTHER        -> @]
    BY <1>2 DEF Dispatch
  <2> HIDE DEF n
  <2>3. /\ t \in [Pids -> Task \cup {NoTask}]
        /\ t[n] \in Task /\ t[n].state = "ready" /\ In(t, n)
    BY <2>1 DEF Typed, Has, In
  <2>4. /\ \A p \in Pids : In(procs', p) <=> In(t, p)
        /\ \A p \in Pids \ {n} : procs'[p] = t[p] /\ ctl'[p] = k[p]
        /\ procs'[n].state = "running" /\ procs'[n].parent = t[n].parent
        /\ procs'[n].exit = t[n].exit /\ procs'[n].childExit = t[n].childExit
    BY <2>1, <2>2, <2>3 DEF In, Task, NoTask
  <2>5. ctl'[n] = CASE k[n] = "child"  -> "user"
                    [] k[n] = "asleep" -> "woken"
                    [] OTHER           -> k[n]
    BY <2>1, <2>2
  <2>6. Carries(procs', ctl', n) <=> Carries(t, k, n)
    BY <2>1, <2>3, <2>4, <2>5 DEF Carries
  <2>7. \A p \in Pids \ {n} : Carries(procs', ctl', p) <=> Carries(t, k, p)
    BY <2>4 DEF Carries
  <2>8. k[n] = "read" => ctl'[n] = "read"
    BY <2>5
  <2> QED BY <2>1, <2>3, <2>4, <2>6, <2>7, <2>8 DEF AsBefore
<1> QED BY <1>1, <1>2
LEMMA Recorded ==
  ASSUME NEW d, Ledger(procs', ctl', d), d \subseteq 1 .. made,
         dead' = d, UNCHANGED <<id, mother, made, reaped>>
  PROVE  Codes'
BY DEF Codes, Ledger, Bodies, Distinct, Pockets, Once, Given, Somewhere, Kin, Heirs,
       Rightful

LEMMA QuietStep ==
  ASSUME Codes, AsBefore(procs, ctl, procs', ctl'),
         UNCHANGED <<id, mother, made, dead, reaped>>
  PROVE  Codes'
<1>1. Ledger(procs', ctl', dead)
  BY LedgerSame DEF Codes
<1> QED BY <1>1, Recorded DEF Codes

LEMMA SwitchStepCodes ==
  ASSUME NEW t, NEW k, NEW d, Typed(t), k \in [Pids -> Points], Dispatch(t, k),
         Ledger(t, k, d), d \subseteq 1 .. made,
         dead' = d, UNCHANGED <<id, mother, made, reaped>>
  PROVE  Codes'
<1>1. Ledger(procs', ctl', d)
  BY SwitchSame, LedgerSame
<1> QED BY <1>1, Recorded

------------------------------------------------------------------------------
\* The actions.

LEMMA InitCodes == Init => Codes
<1> SUFFICES ASSUME Init PROVE Codes
  OBVIOUS
<1> USE NProcAssumption, BoundAssumption
<1>1. 1 \in Pids /\ procs \in [Pids -> {[NewTask(0) EXCEPT !.state = "running"], NoTask}]
  BY DEF Init, Pids
<1>2. \A p \in Pids : In(procs, p) <=> p = 1
  BY <1>1 DEF Init, In, NewTask, NoTask
<1>3. /\ procs[1].state = "running" /\ procs[1].parent = 0 /\ procs[1].childExit = 0
      /\ dead = {} /\ reaped = {} /\ \A p \in Pids : ctl[p] = "user"
  BY <1>1 DEF Init, NewTask
<1>4. \A p \in Pids : ~Carries(procs, ctl, p)
  BY <1>3 DEF Carries
<1>5. Bodies(procs, ctl, dead) /\ Distinct(procs)
  BY <1>2, <1>3 DEF Bodies, Distinct
<1>6. Pockets(procs, ctl, dead) /\ Once(procs, ctl) /\ Given(procs, dead)
  BY <1>2, <1>3, <1>4 DEF Pockets, Once, Given
<1>7. Somewhere(procs, ctl, dead) /\ Rightful(dead)
  BY <1>3 DEF Somewhere, Rightful
<1>8. Kin(procs, ctl, dead) /\ Heirs(procs, ctl, dead)
  BY <1>2, <1>3, <1>4 DEF Kin, Heirs
<1> QED BY <1>3, <1>5, <1>6, <1>7, <1>8 DEF Codes, Ledger

LEMMA TickCodes == ASSUME IInv, Codes, Tick PROVE Codes'
<1> DEFINE c == procs[current]
           t == [procs EXCEPT ![current].act = c.act + 1,
                              ![current].slot = c.slot - 1,
                              ![current].dyn = Weight(c.nice) * (c.act + 1)]
<1>1. /\ ~halted /\ UNCHANGED <<id, mother, made, dead, reaped>>
      /\ \/ procs' = t /\ ctl' = ctl
         \/ Dispatch(Yield(t), ctl)
  BY DEF Tick
<1>2. /\ current \in Pids /\ c \in Task /\ c.state = "running" /\ In(procs, current)
      /\ procs \in [Pids -> Task \cup {NoTask}] /\ ctl \in [Pids -> Points]
  BY <1>1, CurrentRuns DEF IInv, TypeOK
<1>3. CASE procs' = t /\ ctl' = ctl
  <2>1. AsBefore(procs, ctl, t, ctl)
    <3>1. /\ \A p \in Pids \ {current} : t[p] = procs[p]
          /\ t[current].state = c.state /\ t[current].parent = c.parent
          /\ t[current].exit = c.exit /\ t[current].childExit = c.childExit
          /\ t[current] # NoTask
      BY <1>2 DEF Task, NoTask
    <3> HIDE DEF t
    <3>2. \A p \in Pids : In(t, p) <=> In(procs, p)
      BY <1>2, <3>1 DEF In
    <3>3. \A p \in Pids : Carries(t, ctl, p) <=> Carries(procs, ctl, p)
      BY <3>1, <3>2 DEF Carries
    <3> QED BY <3>1, <3>2, <3>3 DEF AsBefore
  <2> QED BY <1>1, <1>3, <2>1, QuietStep
<1>4. CASE Dispatch(Yield(t), ctl)
  <2> DEFINE u == Yield(t)
  <2>1. /\ \A p \in Pids \ {current} : u[p] = procs[p]
        /\ u[current].state = "ready" /\ u[current].parent = c.parent
        /\ u[current].exit = c.exit /\ u[current].childExit = c.childExit
        /\ u[current] # NoTask
    BY <1>2 DEF Task, NoTask, Yield
  <2>2. Typed(u)
    <3>1. c.slot \in 1 .. c.quantum /\ c.quantum \in Nat /\ c.act + 1 \in Nat
          /\ c.nice \in -Nice .. Nice - 1
      BY <1>2 DEF IInv, Good, SlotsFull, Task
    <3>2. c.slot - 1 \in Nat /\ Weight(c.nice) * (c.act + 1) \in Nat
      BY <3>1, PriorityNat
    <3> DEFINE d == Weight(c.nice) * (c.act + 1)
               r == [c EXCEPT !.act = c.act + 1, !.slot = c.quantum,
                              !.dyn = d, !.state = "ready"]
    <3>3. d \in Nat
      BY <3>2
    <3>4. u = [procs EXCEPT ![current] = r]
      BY <1>2, ZenonT(60) DEF Yield, Task
    <3> HIDE DEF d, u
    <3>5. r \in Task
      BY <1>2, <3>1, <3>3 DEF Task
    <3> QED BY <1>2, <3>4, <3>5 DEF Typed
  <2> HIDE DEF u
  <2>3. \A p \in Pids : In(u, p) <=> In(procs, p)
    BY <1>2, <2>1 DEF In
  <2>4. \A p \in Pids : Carries(u, ctl, p) <=> Carries(procs, ctl, p)
    BY <1>2, <2>1, <2>3 DEF Carries
  <2>5. AsBefore(procs, ctl, u, ctl)
    BY <1>2, <2>1, <2>3, <2>4 DEF AsBefore
  <2>6. Ledger(u, ctl, dead)
    BY <2>5, LedgerSame DEF Codes
  <2>7. Dispatch(u, ctl)
    BY <1>4 DEF u
  <2> QED BY <1>1, <1>2, <2>2, <2>6, <2>7, SwitchStepCodes DEF Codes
<1> QED BY <1>1, <1>3, <1>4

LEMMA RefusedCodes ==
  ASSUME Codes, UNCHANGED <<procs, ctl, id, mother, made, dead, reaped>>
  PROVE  Codes'
BY QuietStep DEF AsBefore

LEMMA ForkReturnCodes == ASSUME IInv, Codes, ForkReturn PROVE Codes'
<1>1. /\ ctl[current] = "forked" /\ ctl' = [ctl EXCEPT ![current] = "user"]
      /\ UNCHANGED <<procs, id, mother, made, dead, reaped>> /\ ~halted
  BY DEF ForkReturn, Running, Resume, hist
<1>2. current \in Pids /\ ctl'[current] = "user" /\ procs[current].state = "running"
      /\ \A p \in Pids \ {current} : ctl'[p] = ctl[p]
  BY <1>1, CurrentRuns DEF IInv, TypeOK
<1>3. \A p \in Pids : Carries(procs', ctl', p) <=> Carries(procs, ctl, p)
  BY <1>1, <1>2 DEF Carries, In
<1>4. AsBefore(procs, ctl, procs', ctl')
  BY <1>1, <1>2, <1>3 DEF AsBefore, In
<1> QED BY <1>1, <1>4, QuietStep

LEMMA SetNiceCodes == ASSUME IInv, Codes, NEW n \in Int, SetNice(n) PROVE Codes'
<1>1. /\ ~halted /\ UNCHANGED <<ctl, id, mother, made, dead, reaped>>
      /\ procs' = [procs EXCEPT ![current].nice = Clamp(n),
                                ![current].quantum = Nice - Clamp(n),
                                ![current].dyn = Weight(Clamp(n)) * procs[current].act,
                                ![current].slot = Nice - Clamp(n)]
  BY DEF SetNice, Running, hist
<1>2. current \in Pids /\ procs[current] \in Task /\ In(procs, current)
      /\ procs \in [Pids -> Task \cup {NoTask}]
  BY <1>1, CurrentRuns DEF IInv, TypeOK
<1>3. /\ \A p \in Pids \ {current} : procs'[p] = procs[p]
      /\ procs'[current].state = procs[current].state
      /\ procs'[current].parent = procs[current].parent
      /\ procs'[current].exit = procs[current].exit
      /\ procs'[current].childExit = procs[current].childExit
      /\ procs'[current] # NoTask
  BY <1>1, <1>2 DEF Task, NoTask
<1>4. \A p \in Pids : In(procs', p) <=> In(procs, p)
  BY <1>2, <1>3 DEF In
<1>5. \A p \in Pids : Carries(procs', ctl', p) <=> Carries(procs, ctl, p)
  BY <1>1, <1>3, <1>4 DEF Carries
<1>6. AsBefore(procs, ctl, procs', ctl')
  BY <1>1, <1>3, <1>4, <1>5 DEF AsBefore
<1> QED BY <1>1, <1>6, QuietStep

LEMMA WaitSleepCodes == ASSUME IInv, Codes, WaitSleep PROVE Codes'
<1> DEFINE t == [procs EXCEPT ![current].state = "sleeping"]
           k == [ctl EXCEPT ![current] = "asleep"]
<1>1. /\ ~halted /\ ctl[current] = "user"
      /\ UNCHANGED <<id, mother, made, dead, reaped>>
      /\ Dispatch(t, k)
  BY DEF WaitSleep, Running
<1>2. /\ current \in Pids /\ procs[current] \in Task /\ procs[current].state = "running"
      /\ In(procs, current)
      /\ procs \in [Pids -> Task \cup {NoTask}] /\ ctl \in [Pids -> Points]
  BY <1>1, CurrentRuns DEF IInv, TypeOK
<1>3. k \in [Pids -> Points] /\ k[current] = "asleep" /\ \A p \in Pids \ {current} : k[p] = ctl[p]
  BY <1>2 DEF Points
<1>4. /\ Typed(t)
      /\ \A p \in Pids \ {current} : t[p] = procs[p]
      /\ t[current].state = "sleeping"
      /\ t[current].parent = procs[current].parent
      /\ t[current].exit = procs[current].exit
      /\ t[current].childExit = procs[current].childExit
      /\ t[current] # NoTask
  BY <1>2 DEF Task, NoTask, Typed
<1> HIDE DEF t, k
<1>5. \A p \in Pids : In(t, p) <=> In(procs, p)
  BY <1>2, <1>4 DEF In
<1>6. \A p \in Pids : Carries(t, k, p) <=> Carries(procs, ctl, p)
  BY <1>1, <1>3, <1>4, <1>5 DEF Carries
<1>7. AsBefore(procs, ctl, t, k)
  BY <1>1, <1>2, <1>3, <1>4, <1>5, <1>6 DEF AsBefore
<1>8. Ledger(t, k, dead)
  BY <1>7, LedgerSame DEF Codes
<1> QED BY <1>1, <1>3, <1>4, <1>8, SwitchStepCodes DEF Codes
\* A new task has a new number and no code; whoever still names its pid as
\* parent has lost its mother.
LEMMA ForkCodes == ASSUME IInv, Codes, Fork PROVE Codes'
<1> DEFINE p == Lowest({x \in Pids : ~In(procs, x)})
           r == NewTask(current)
           n == made + 1
<1>1. /\ ~halted /\ ctl[current] = "user" /\ made < MaxTasks
      /\ procs' = [procs EXCEPT ![p] = r]
      /\ ctl' = [ctl EXCEPT ![current] = "forked", ![p] = "child"]
      /\ id' = [id EXCEPT ![p] = n]
      /\ mother' = [mother EXCEPT ![n] = id[current]]
      /\ made' = n
      /\ UNCHANGED <<dead, reaped>>
  BY DEF Fork, Running
<1>2. p \in Pids /\ ~In(procs, p)
  <2>1. p \in {x \in Pids : ~In(procs, x)}
    BY LowestPid DEF Fork
  <2> QED BY <2>1
<1> HIDE DEF p
<1>3. /\ current \in Pids /\ In(procs, current) /\ current # p
      /\ procs[current].state = "running"
      /\ procs \in [Pids -> Task \cup {NoTask}] /\ ctl \in [Pids -> Points]
  BY <1>1, <1>2, CurrentRuns DEF IInv, TypeOK
<1>4. /\ r # NoTask /\ r.state = "ready" /\ r.parent = current /\ r.childExit = 0
  BY DEF NewTask, NoTask
<1> HIDE DEF r
<1>5. /\ made \in Nat /\ n \in Ids /\ n \notin 1 .. made /\ 1 .. made \subseteq Ids
      /\ 1 .. made \subseteq 1 .. n
      /\ id \in [Pids -> Nat] /\ mother \in [Ids -> Nat]
      /\ \A x \in Pids : In(procs, x) => id[x] \in 1 .. made
  BY <1>1, BoundAssumption DEF IInv, Numbered, Ids
<1> HIDE DEF n
<1>6. /\ id'[p] = n /\ \A x \in Pids \ {p} : id'[x] = id[x]
      /\ mother'[n] = id[current] /\ \A m \in 1 .. made : mother'[m] = mother[m]
  BY <1>1, <1>2, <1>5
<1>7. /\ procs'[p] = r /\ \A x \in Pids \ {p} : procs'[x] = procs[x]
      /\ ctl'[p] = "child" /\ ctl'[current] = "forked"
      /\ \A x \in Pids \ {p, current} : ctl'[x] = ctl[x]
  BY <1>1, <1>2, <1>3
<1>8. \A x \in Pids : In(procs', x) <=> In(procs, x) \/ x = p
  BY <1>2, <1>4, <1>7 DEF In
<1>9. \A x \in Pids : Carries(procs', ctl', x) <=> Carries(procs, ctl, x)
  BY <1>1, <1>2, <1>3, <1>7, <1>8 DEF Carries
<1>10. \A x \in Pids : Carries(procs, ctl, x) =>
          /\ x # p /\ In(procs, x) /\ procs'[x] = procs[x]
          /\ procs[x].childExit \in dead
  BY <1>2, <1>7 DEF Carries, Codes, Ledger, Pockets
<1>11. /\ dead \subseteq 1 .. made /\ n \notin dead
       /\ \A x \in reaped : x[2] \in dead
  BY <1>5 DEF Codes, Ledger, Given
<1>12. Bodies(procs, ctl, dead)'
  <2> SUFFICES ASSUME NEW x \in Pids, In(procs', x)
               PROVE  /\ procs'[x].state = "zombie" =>
                            procs'[x].exit = id'[x] /\ id'[x] \in dead /\ ctl'[x] = "user"
                      /\ procs'[x].state # "zombie" => id'[x] \notin dead
    BY <1>1 DEF Bodies
  <2>1. CASE x = p
    BY <1>4, <1>6, <1>7, <1>11, <2>1
  <2>2. CASE x # p
    BY <1>3, <1>6, <1>7, <1>8, <2>2 DEF Codes, Ledger, Bodies
  <2> QED BY <2>1, <2>2
<1>13. Distinct(procs)'
  BY <1>5, <1>6, <1>8 DEF Codes, Ledger, Distinct
<1>14. Pockets(procs, ctl, dead)'
  <2> SUFFICES ASSUME NEW x \in Pids, In(procs', x)
               PROVE  /\ Carries(procs', ctl', x) => procs'[x].childExit \in dead
                      /\ ~Carries(procs', ctl', x) => procs'[x].childExit = 0 \/ ctl'[x] = "read"
    BY <1>1 DEF Pockets
  <2>1. CASE x = p
    BY <1>4, <1>7, <1>9, <1>10, <2>1
  <2>2. CASE x # p
    BY <1>1, <1>3, <1>7, <1>8, <1>9, <2>2 DEF Codes, Ledger, Pockets
  <2> QED BY <2>1, <2>2
<1>15. Once(procs, ctl)'
  <2>1. \A x, y \in Pids : Carries(procs', ctl', x) /\ In(procs', y) => procs'[x].childExit # id'[y]
    BY <1>6, <1>8, <1>9, <1>10, <1>11 DEF Codes, Ledger, Once
  <2>2. \A x, y \in Pids : Carries(procs', ctl', x) /\ Carries(procs', ctl', y) /\ x # y
                              => procs'[x].childExit # procs'[y].childExit
    BY <1>9, <1>10 DEF Codes, Ledger, Once
  <2>3. \A x \in Pids, y \in reaped : Carries(procs', ctl', x) => procs'[x].childExit # y[2]
    BY <1>9, <1>10 DEF Codes, Ledger, Once
  <2> QED BY <1>1, <2>1, <2>2, <2>3 DEF Once
<1>16. Given(procs, dead)'
  <2>1. \A x \in reaped, q \in Pids : In(procs', q) => id'[q] # x[2]
    <3> SUFFICES ASSUME NEW x \in reaped, NEW q \in Pids, In(procs', q) PROVE id'[q] # x[2]
      OBVIOUS
    <3>1. CASE q = p
      BY <1>6, <1>11, <3>1
    <3>2. CASE q # p
      BY <1>6, <1>8, <3>2 DEF Codes, Ledger, Given
    <3> QED BY <3>1, <3>2
  <2> QED BY <1>1, <1>11, <2>1 DEF Codes, Ledger, Given
<1>17. Somewhere(procs, ctl, dead)'
  <2> SUFFICES ASSUME NEW m \in dead,
                      ~ \E x \in reaped : x[2] = m,
                      ~ \E x \in Pids : Carries(procs', ctl', x) /\ procs'[x].childExit = m
               PROVE  \E x \in Pids : In(procs', x) /\ procs'[x].state = "zombie" /\ id'[x] = m
    BY <1>1 DEF Somewhere
  <2>1. PICK x \in Pids : In(procs, x) /\ procs[x].state = "zombie" /\ id[x] = m
    BY <1>9, <1>10 DEF Codes, Ledger, Somewhere
  <2> QED BY <1>2, <1>6, <1>7, <1>8, <2>1
<1>18. Kin(procs, ctl, dead)'
  <2> SUFFICES ASSUME NEW c \in Pids, In(procs', c), mother'[id'[c]] \notin dead,
                      procs'[c].parent # 0
               PROVE  In(procs', procs'[c].parent) /\ id'[procs'[c].parent] = mother'[id'[c]]
    BY <1>1 DEF Kin
  <2>1. CASE c = p
    BY <1>3, <1>4, <1>6, <1>7, <1>8, <2>1
  <2>2. CASE c # p
    <3>1. /\ In(procs, c) /\ procs'[c] = procs[c] /\ id'[c] = id[c]
          /\ mother'[id[c]] = mother[id[c]]
      BY <1>5, <1>6, <1>7, <1>8, <2>2
    <3>2. In(procs, procs[c].parent) /\ id[procs[c].parent] = mother[id[c]]
      BY <3>1 DEF Codes, Ledger, Kin
    <3>3. procs[c].parent \in Pids
      BY <3>2 DEF In
    <3> QED BY <1>2, <1>6, <1>8, <3>1, <3>2, <3>3
  <2> QED BY <2>1, <2>2
<1>19. Heirs(procs, ctl, dead)'
  BY <1>1, <1>6, <1>9, <1>10, <1>11 DEF Codes, Ledger, Heirs
<1>20. Rightful(dead)'
  BY <1>1, <1>6, <1>11 DEF Codes, Ledger, Rightful
<1>21. (dead \subseteq 1 .. made)'
  BY <1>1, <1>5, <1>11
<1> QED BY <1>12, <1>13, <1>14, <1>15, <1>16, <1>17, <1>18, <1>19, <1>20, <1>21
        DEF Codes, Ledger
\* Who is in the table and has not ended is nobody whose code has been handed on.
LEMMA AliveCode ==
  ASSUME Codes, NEW p \in Pids, In(procs, p), procs[p].state # "zombie"
  PROVE  /\ id[p] \notin dead
         /\ \A q \in Pids : Carries(procs, ctl, q) => procs[q].childExit # id[p]
         /\ \A x \in reaped : x[2] # id[p]
BY DEF Codes, Ledger, Bodies, Once, Given

\* Nobody takes the code: the task becomes a zombie.
LEMMA ExitZombie ==
  ASSUME IInv, Codes, Running("user")
  PROVE  LET t == [procs EXCEPT ![current].state = "zombie",
                                ![current].exit = id[current]]
         IN  Typed(t) /\ Ledger(t, ctl, dead \cup {id[current]})
<1> DEFINE n == id[current]
           t == [procs EXCEPT ![current].state = "zombie",
                              ![current].exit = id[current]]
           d == dead \cup {n}
<1>1. /\ current \in Pids /\ In(procs, current) /\ procs[current] \in Task
      /\ procs[current].state = "running" /\ ctl[current] = "user"
      /\ procs \in [Pids -> Task \cup {NoTask}]
  BY CurrentRuns DEF IInv, TypeOK, Running
<1>2. n \in Int
  BY <1>1 DEF IInv, Numbered
<1> HIDE DEF n
<1>3. /\ Typed(t)
      /\ \A p \in Pids \ {current} : t[p] = procs[p]
      /\ t[current].state = "zombie" /\ t[current].exit = n
      /\ t[current].parent = procs[current].parent
      /\ t[current].childExit = procs[current].childExit
      /\ t[current] # NoTask
  BY <1>1, <1>2 DEF n, Typed, Task, NoTask
<1> HIDE DEF t
<1>4. \A p \in Pids : In(t, p) <=> In(procs, p)
  BY <1>1, <1>3 DEF In
<1>5. \A p \in Pids : Carries(t, ctl, p) <=> Carries(procs, ctl, p)
  BY <1>1, <1>3, <1>4 DEF Carries
<1>6. \A p \in Pids : Carries(procs, ctl, p) => p # current /\ t[p] = procs[p]
  BY <1>1, <1>3 DEF Carries
<1>7. n \notin dead
  BY <1>1, AliveCode DEF n
<1>8. \A p \in Pids : In(procs, p) /\ id[p] = n => p = current
  BY <1>1 DEF n, Codes, Ledger, Distinct
<1>9. Bodies(t, ctl, d)
  <2> SUFFICES ASSUME NEW p \in Pids, In(t, p)
               PROVE  /\ t[p].state = "zombie" => t[p].exit = id[p] /\ id[p] \in d /\ ctl[p] = "user"
                      /\ t[p].state # "zombie" => id[p] \notin d
    BY DEF Bodies
  <2>1. CASE p = current
    BY <1>1, <1>3, <2>1 DEF n
  <2>2. CASE p # current
    BY <1>3, <1>4, <1>8, <2>2 DEF n, Codes, Ledger, Bodies
  <2> QED BY <2>1, <2>2
<1>10. Distinct(t)
  BY <1>4 DEF Codes, Ledger, Distinct
<1>11. Pockets(t, ctl, d)
  <2> SUFFICES ASSUME NEW p \in Pids, In(t, p)
               PROVE  /\ Carries(t, ctl, p) => t[p].childExit \in d
                      /\ ~Carries(t, ctl, p) => t[p].childExit = 0 \/ ctl[p] = "read"
    BY DEF Pockets
  <2>1. t[p].childExit = procs[p].childExit
    BY <1>3
  <2> QED BY <1>4, <1>5, <2>1 DEF Codes, Ledger, Pockets
<1>12. Once(t, ctl)
  BY <1>4, <1>5, <1>6 DEF Codes, Ledger, Once
<1>13. Given(t, d)
  BY <1>4 DEF Codes, Ledger, Given
<1>14. Somewhere(t, ctl, d)
  <2> SUFFICES ASSUME NEW m \in d,
                      ~ \E x \in reaped : x[2] = m,
                      ~ \E p \in Pids : Carries(t, ctl, p) /\ t[p].childExit = m
               PROVE  \E p \in Pids : In(t, p) /\ t[p].state = "zombie" /\ id[p] = m
    BY DEF Somewhere
  <2>1. CASE m = n
    BY <1>1, <1>3, <1>4, <2>1 DEF n
  <2>2. CASE m # n
    <3>1. PICK p \in Pids : In(procs, p) /\ procs[p].state = "zombie" /\ id[p] = m
      BY <1>5, <1>6, <2>2 DEF n, Codes, Ledger, Somewhere
    <3> QED BY <1>1, <1>3, <1>4, <3>1
  <2> QED BY <2>1, <2>2
<1>15. Kin(t, ctl, d)
  <2> SUFFICES ASSUME NEW c \in Pids, In(t, c), mother[id[c]] \notin d, t[c].parent # 0
               PROVE  In(t, t[c].parent) /\ id[t[c].parent] = mother[id[c]]
    BY DEF Kin
  <2>1. t[c].parent = procs[c].parent /\ In(procs, c)
    BY <1>3, <1>4
  <2>2. In(procs, procs[c].parent) /\ id[procs[c].parent] = mother[id[c]]
    BY <2>1 DEF Codes, Ledger, Kin
  <2>3. procs[c].parent \in Pids
    BY <2>2, SMTT(30) DEF In
  <2> QED BY <1>4, <2>1, <2>2, <2>3
<1>16. Heirs(t, ctl, d)
  BY <1>5, <1>6, SMTT(30) DEF Codes, Ledger, Heirs
<1>17. Rightful(d)
  BY SMTT(30) DEF Codes, Ledger, Rightful
<1> QED BY <1>3, <1>9, <1>10, <1>11, <1>12, <1>13, <1>14, <1>15, <1>16, <1>17 DEF n, t, Ledger

\* The sleeping parent p takes the code: the task leaves the table.
LEMMA ExitHanded ==
  ASSUME IInv, Codes, Running("user"),
         NEW p, p = procs[current].parent, Has(procs, p, "sleeping")
  PROVE  LET t == [procs EXCEPT ![p].childExit = id[current],
                                ![p].state = "ready",
                                ![current] = NoTask]
         IN  Typed(t) /\ Ledger(t, ctl, dead \cup {id[current]})
<1> DEFINE n == id[current]
           t == [procs EXCEPT ![p].childExit = id[current],
                              ![p].state = "ready",
                              ![current] = NoTask]
           d == dead \cup {n}
<1>1. /\ current \in Pids /\ In(procs, current) /\ procs[current] \in Task
      /\ procs[current].state = "running" /\ ctl[current] = "user"
      /\ procs \in [Pids -> Task \cup {NoTask}]
  BY CurrentRuns DEF IInv, TypeOK, Running
<1>2. n \in Int
  BY <1>1 DEF IInv, Numbered
<1>3. /\ p \in Pids /\ In(procs, p) /\ procs[p] \in Task /\ p # current
      /\ procs[p].state = "sleeping" /\ ctl[p] = "asleep"
  BY <1>1 DEF Has, In, IInv, Good, Sleepers
<1> HIDE DEF n
<1>4. /\ Typed(t)
      /\ \A x \in Pids \ {current, p} : t[x] = procs[x]
      /\ t[current] = NoTask
      /\ t[p].state = "ready" /\ t[p].childExit = n
      /\ t[p].parent = procs[p].parent /\ t[p].exit = procs[p].exit
      /\ t[p] # NoTask
  BY <1>1, <1>2, <1>3 DEF n, Typed, Task, NoTask
<1> HIDE DEF t
<1>5. \A x \in Pids : In(t, x) <=> In(procs, x) /\ x # current
  BY <1>1, <1>3, <1>4 DEF In
<1>6. /\ Carries(t, ctl, p) /\ ~Carries(procs, ctl, p)
      /\ ~Carries(t, ctl, current) /\ ~Carries(procs, ctl, current)
  BY <1>1, <1>3, <1>4, <1>5 DEF Carries
<1>7. \A x \in Pids \ {p} : Carries(t, ctl, x) <=> Carries(procs, ctl, x)
  BY <1>4, <1>5, <1>6 DEF Carries
<1>8. \A x \in Pids \ {p} : Carries(procs, ctl, x) => t[x] = procs[x]
  BY <1>4, <1>6
<1>9. /\ n \notin dead
      /\ \A q \in Pids : Carries(procs, ctl, q) => procs[q].childExit # n
      /\ \A x \in reaped : x[2] # n
  BY <1>1, AliveCode DEF n
<1>10. \A x \in Pids : In(t, x) => id[x] # n
  BY <1>1, <1>5 DEF n, Codes, Ledger, Distinct
<1>11. Bodies(t, ctl, d)
  <2> SUFFICES ASSUME NEW x \in Pids, In(t, x)
               PROVE  /\ t[x].state = "zombie" => t[x].exit = id[x] /\ id[x] \in d /\ ctl[x] = "user"
                      /\ t[x].state # "zombie" => id[x] \notin d
    BY DEF Bodies
  <2>1. CASE x = p
    BY <1>3, <1>4, <1>10, <2>1 DEF n, Codes, Ledger, Bodies
  <2>2. CASE x # p
    BY <1>4, <1>5, <1>10, <2>2 DEF n, Codes, Ledger, Bodies
  <2> QED BY <2>1, <2>2
<1>12. Distinct(t)
  BY <1>5 DEF Codes, Ledger, Distinct
<1>13. Pockets(t, ctl, d)
  <2> SUFFICES ASSUME NEW x \in Pids, In(t, x)
               PROVE  /\ Carries(t, ctl, x) => t[x].childExit \in d
                      /\ ~Carries(t, ctl, x) => t[x].childExit = 0 \/ ctl[x] = "read"
    BY DEF Pockets
  <2>1. CASE x = p
    BY <1>4, <1>6, <2>1 DEF n
  <2>2. CASE x # p
    BY <1>4, <1>5, <1>7, <2>2 DEF Codes, Ledger, Pockets
  <2> QED BY <2>1, <2>2
<1>14. Once(t, ctl)
  <2>1. \A x, y \in Pids : Carries(t, ctl, x) /\ In(t, y) => t[x].childExit # id[y]
    <3> SUFFICES ASSUME NEW x \in Pids, NEW y \in Pids, Carries(t, ctl, x), In(t, y)
                 PROVE  t[x].childExit # id[y]
      OBVIOUS
    <3>1. CASE x = p
      BY <1>4, <1>10, <3>1
    <3>2. CASE x # p
      BY <1>5, <1>7, <1>8, <3>2 DEF Codes, Ledger, Once
    <3> QED BY <3>1, <3>2
  <2>2. \A x, y \in Pids : Carries(t, ctl, x) /\ Carries(t, ctl, y) /\ x # y
                              => t[x].childExit # t[y].childExit
    <3> SUFFICES ASSUME NEW x \in Pids, NEW y \in Pids, Carries(t, ctl, x), Carries(t, ctl, y),
                        x # y
                 PROVE  t[x].childExit # t[y].childExit
      OBVIOUS
    <3>1. CASE x = p
      BY <1>4, <1>7, <1>8, <1>9, <3>1
    <3>2. CASE y = p
      BY <1>4, <1>7, <1>8, <1>9, <3>2
    <3>3. CASE x # p /\ y # p
      BY <1>7, <1>8, <3>3 DEF Codes, Ledger, Once
    <3> QED BY <3>1, <3>2, <3>3
  <2>3. \A x \in Pids, y \in reaped : Carries(t, ctl, x) => t[x].childExit # y[2]
    <3> SUFFICES ASSUME NEW x \in Pids, NEW y \in reaped, Carries(t, ctl, x)
                 PROVE  t[x].childExit # y[2]
      OBVIOUS
    <3>1. CASE x = p
      BY <1>4, <1>9, <3>1
    <3>2. CASE x # p
      BY <1>7, <1>8, <3>2 DEF Codes, Ledger, Once
    <3> QED BY <3>1, <3>2
  <2> QED BY <2>1, <2>2, <2>3 DEF Once
<1>15. Given(t, d)
  BY <1>5 DEF Codes, Ledger, Given
<1>16. Somewhere(t, ctl, d)
  <2> SUFFICES ASSUME NEW m \in d,
                      ~ \E x \in reaped : x[2] = m,
                      ~ \E x \in Pids : Carries(t, ctl, x) /\ t[x].childExit = m
               PROVE  \E x \in Pids : In(t, x) /\ t[x].state = "zombie" /\ id[x] = m
    BY DEF Somewhere
  <2>1. m # n
    BY <1>3, <1>4, <1>6
  <2>2. ~ \E x \in Pids : Carries(procs, ctl, x) /\ procs[x].childExit = m
    BY <1>6, <1>7, <1>8
  <2>3. PICK x \in Pids : In(procs, x) /\ procs[x].state = "zombie" /\ id[x] = m
    BY <2>1, <2>2 DEF n, Codes, Ledger, Somewhere
  <2>4. x # p /\ x # current
    BY <1>1, <1>3, <2>3
  <2> QED BY <1>4, <1>5, <2>3, <2>4
<1>17. Kin(t, ctl, d)
  <2> SUFFICES ASSUME NEW c \in Pids, In(t, c), mother[id[c]] \notin d, t[c].parent # 0
               PROVE  In(t, t[c].parent) /\ id[t[c].parent] = mother[id[c]]
    BY DEF Kin
  <2>1. t[c].parent = procs[c].parent /\ In(procs, c)
    BY <1>4, <1>5
  <2>2. In(procs, procs[c].parent) /\ id[procs[c].parent] = mother[id[c]]
    BY <2>1 DEF Codes, Ledger, Kin
  <2>3. procs[c].parent \in Pids /\ procs[c].parent # current
    BY <2>2 DEF n, In
  <2> QED BY <1>5, <2>1, <2>2, <2>3
<1>18. Heirs(t, ctl, d)
  <2> SUFFICES ASSUME NEW x \in Pids, Carries(t, ctl, x), mother[t[x].childExit] \notin d
               PROVE  mother[t[x].childExit] = id[x]
    BY DEF Heirs
  <2>1. CASE x = p
    <3>1. mother[n] \notin dead /\ In(procs, current) /\ procs[current].parent = p /\ p # 0
      BY <1>1, <1>3, <1>4, <2>1 DEF Pids
    <3>2. id[p] = mother[n]
      BY <1>1, <3>1 DEF n, Codes, Ledger, Kin
    <3> QED BY <1>4, <2>1, <3>2
  <2>2. CASE x # p
    BY <1>7, <1>8, <2>2 DEF Codes, Ledger, Heirs
  <2> QED BY <2>1, <2>2
<1>19. Rightful(d)
  BY DEF Codes, Ledger, Rightful
<1> QED BY <1>4, <1>11, <1>12, <1>13, <1>14, <1>15, <1>16, <1>17, <1>18, <1>19 DEF n, t, Ledger

LEMMA ExitCodes == ASSUME IInv, Codes, Exit(id[current]) PROVE Codes'
<1> DEFINE p == procs[current].parent
           t == [procs EXCEPT ![p].childExit = id[current],
                              ![p].state = "ready",
                              ![current] = NoTask]
           u == [procs EXCEPT ![current].state = "zombie",
                              ![current].exit = id[current]]
           d == dead \cup {id[current]}
<1>1. /\ Running("user") /\ dead' = d /\ UNCHANGED <<id, mother, made, reaped>>
      /\ \/ Has(procs, p, "sleeping") /\ Dispatch(t, ctl)
         \/ Dispatch(u, ctl)
  BY DEF Exit
<1>2. ctl \in [Pids -> Points] /\ d \subseteq 1 .. made
  <2>1. current \in Pids /\ In(procs, current)
    BY <1>1, CurrentRuns DEF Running
  <2> QED BY <2>1 DEF IInv, TypeOK, Numbered, Codes
<1>3. CASE Has(procs, p, "sleeping") /\ Dispatch(t, ctl)
  <2>1. Typed(t) /\ Ledger(t, ctl, d)
    BY <1>1, <1>3, ExitHanded
  <2> HIDE DEF t, d
  <2> QED BY <1>1, <1>2, <1>3, <2>1, SwitchStepCodes
<1>4. CASE Dispatch(u, ctl)
  <2>1. Typed(u) /\ Ledger(u, ctl, d)
    BY <1>1, ExitZombie
  <2> HIDE DEF u, d
  <2> QED BY <1>1, <1>2, <1>4, <2>1, SwitchStepCodes
<1> QED BY <1>1, <1>3, <1>4
LEMMA WaitZombieCodes == ASSUME IInv, Codes, WaitZombie PROVE Codes'
<1> DEFINE z == Lowest(Zombies(procs, current))
<1>1. /\ ~halted /\ procs' = [procs EXCEPT ![z] = NoTask]
      /\ reaped' = reaped \cup {<<id[current], procs[z].exit>>}
      /\ UNCHANGED <<ctl, id, mother, made, dead>>
      /\ Zombies(procs, current) # {}
  BY DEF WaitZombie, Running
<1>2. z \in Zombies(procs, current)
  <2>1. Zombies(procs, current) \in SUBSET Pids
    BY DEF Zombies, Children
  <2> QED BY <1>1, <2>1, LowestPid
<1> HIDE DEF z
<1>3. /\ z \in Pids /\ In(procs, z) /\ procs[z].state = "zombie" /\ procs[z].parent = current
      /\ current \in Pids /\ In(procs, current)
  BY <1>1, <1>2, CurrentRuns DEF Zombies, Children
<1> DEFINE n == id[z]
           x0 == <<id[current], n>>
<1>4. procs[z].exit = n /\ n \in dead /\ ctl[z] = "user" /\ ~Carries(procs, ctl, z)
  BY <1>3 DEF Codes, Ledger, Bodies, Carries
<1>5. reaped' = reaped \cup {x0} /\ x0[2] = n /\ x0[1] = id[current]
  BY <1>1, <1>4
<1>6. mother[n] = id[current] \/ mother[n] \in dead
  <2>1. current # 0
    BY <1>3 DEF Pids
  <2> QED BY <1>3, <2>1 DEF Codes, Ledger, Kin
<1>7. \A p \in Pids : In(procs, p) /\ id[p] = n => p = z
  BY <1>3 DEF Codes, Ledger, Distinct
<1>8. /\ \A p \in Pids : Carries(procs, ctl, p) => procs[p].childExit # n
      /\ \A x \in reaped : x[2] # n
  BY <1>3 DEF Codes, Ledger, Once, Given
<1> HIDE DEF n, x0
<1>9. /\ \A x \in Pids \ {z} : procs'[x] = procs[x]
      /\ \A x \in Pids : In(procs', x) <=> In(procs, x) /\ x # z
  BY <1>1, <1>3 DEF IInv, TypeOK, In
<1>10. \A x \in Pids : Carries(procs', ctl', x) <=> Carries(procs, ctl, x)
  BY <1>1, <1>4, <1>9 DEF Carries
<1>11. \A x \in Pids : Carries(procs, ctl, x) => procs'[x] = procs[x]
  BY <1>4, <1>9
<1>0. UNCHANGED <<ctl, id, mother, made, dead>>
  BY <1>1
<1>12. Bodies(procs, ctl, dead)' /\ Distinct(procs)'
  BY <1>0, <1>9 DEF Codes, Ledger, Bodies, Distinct
<1>13. Pockets(procs, ctl, dead)'
  BY <1>0, <1>9, <1>10, <1>11 DEF Codes, Ledger, Pockets
<1>14. Once(procs, ctl)'
  <2>1. \A x, y \in Pids : Carries(procs', ctl', x) /\ In(procs', y) => procs'[x].childExit # id'[y]
    BY <1>0, <1>9, <1>10, <1>11 DEF Codes, Ledger, Once
  <2>2. \A x, y \in Pids : Carries(procs', ctl', x) /\ Carries(procs', ctl', y) /\ x # y
                              => procs'[x].childExit # procs'[y].childExit
    BY <1>10, <1>11 DEF Codes, Ledger, Once
  <2>3. \A x \in Pids, y \in reaped' : Carries(procs', ctl', x) => procs'[x].childExit # y[2]
    BY <1>5, <1>8, <1>10, <1>11 DEF Codes, Ledger, Once
  <2> QED BY <2>1, <2>2, <2>3 DEF Once
<1>15. Given(procs, dead)'
  <2>1. \A x \in reaped' : x[2] \in dead /\ \A q \in Pids : In(procs', q) => id[q] # x[2]
    BY <1>4, <1>5, <1>7, <1>9 DEF Codes, Ledger, Given
  <2>2. \A x, y \in reaped' : x[2] = y[2] => x = y
    BY <1>5, <1>8 DEF Codes, Ledger, Given
  <2> QED BY <1>1, <2>1, <2>2 DEF Given
<1>16. Somewhere(procs, ctl, dead)'
  <2> SUFFICES ASSUME NEW m \in dead,
                      ~ \E x \in reaped' : x[2] = m,
                      ~ \E x \in Pids : Carries(procs', ctl', x) /\ procs'[x].childExit = m
               PROVE  \E x \in Pids : In(procs', x) /\ procs'[x].state = "zombie" /\ id[x] = m
    BY <1>1 DEF Somewhere
  <2>1. m # n /\ ~ \E x \in reaped : x[2] = m
    BY <1>5
  <2>2. PICK x \in Pids : In(procs, x) /\ procs[x].state = "zombie" /\ id[x] = m
    BY <1>10, <1>11, <2>1 DEF Codes, Ledger, Somewhere
  <2> QED BY <1>9, <2>1, <2>2 DEF n
<1>17. Kin(procs, ctl, dead)'
  <2> SUFFICES ASSUME NEW c \in Pids, In(procs', c), mother[id[c]] \notin dead,
                      procs'[c].parent # 0
               PROVE  In(procs', procs'[c].parent) /\ id[procs'[c].parent] = mother[id[c]]
    BY <1>1 DEF Kin
  <2>1. In(procs, c) /\ procs'[c] = procs[c]
    BY <1>9
  <2>2. In(procs, procs[c].parent) /\ id[procs[c].parent] = mother[id[c]]
    BY <2>1 DEF Codes, Ledger, Kin
  <2>3. procs[c].parent \in Pids /\ procs[c].parent # z
    BY <1>4, <2>2 DEF n, In
  <2> QED BY <1>9, <2>1, <2>2, <2>3
<1>18. Heirs(procs, ctl, dead)'
  BY <1>0, <1>10, <1>11 DEF Codes, Ledger, Heirs
<1>19. Rightful(dead)'
  BY <1>1, <1>5, <1>6 DEF Codes, Ledger, Rightful
<1>20. (dead \subseteq 1 .. made)'
  BY <1>1 DEF Codes
<1> QED BY <1>12, <1>13, <1>14, <1>15, <1>16, <1>17, <1>18, <1>19, <1>20 DEF Codes, Ledger

LEMMA WaitReadCodes == ASSUME IInv, Codes, WaitRead PROVE Codes'
<1> DEFINE n == procs[current].childExit
           x0 == <<id[current], n>>
<1>1. /\ ~halted /\ ctl[current] = "woken" /\ ctl' = [ctl EXCEPT ![current] = "read"]
      /\ reaped' = reaped \cup {x0} /\ x0[2] = n /\ x0[1] = id[current]
      /\ UNCHANGED <<procs, id, mother, made, dead>>
  BY DEF WaitRead, Running, Resume
<1>2. /\ current \in Pids /\ In(procs, current) /\ procs[current].state = "running"
      /\ Carries(procs, ctl, current)
  BY <1>1, CurrentRuns DEF Carries
<1>3. /\ n \in dead
      /\ \A q \in Pids : In(procs, q) => id[q] # n
      /\ \A q \in Pids : Carries(procs, ctl, q) /\ procs[q].childExit = n => q = current
      /\ \A x \in reaped : x[2] # n
      /\ mother[n] = id[current] \/ mother[n] \in dead
  BY <1>2 DEF Codes, Ledger, Pockets, Once, Heirs
<1> HIDE DEF n, x0
<1>4. ctl'[current] = "read" /\ \A p \in Pids \ {current} : ctl'[p] = ctl[p]
  BY <1>1, <1>2 DEF IInv, TypeOK
<1>5. \A x \in Pids : Carries(procs', ctl', x) <=> Carries(procs, ctl, x) /\ x # current
  BY <1>1, <1>2, <1>4 DEF Carries
<1>6. Bodies(procs, ctl, dead)' /\ Distinct(procs)'
  BY <1>1, <1>2, <1>4 DEF Codes, Ledger, Bodies, Distinct
<1>7. Pockets(procs, ctl, dead)'
  BY <1>1, <1>4, <1>5 DEF Codes, Ledger, Pockets
<1>8. Once(procs, ctl)'
  BY <1>1, <1>3, <1>5 DEF Codes, Ledger, Once
<1>9. Given(procs, dead)'
  BY <1>1, <1>3 DEF Codes, Ledger, Given
<1>10. Somewhere(procs, ctl, dead)'
  <2> SUFFICES ASSUME NEW m \in dead,
                      ~ \E x \in reaped' : x[2] = m,
                      ~ \E x \in Pids : Carries(procs', ctl', x) /\ procs'[x].childExit = m
               PROVE  \E x \in Pids : In(procs', x) /\ procs'[x].state = "zombie" /\ id[x] = m
    BY <1>1 DEF Somewhere
  <2>1. m # n /\ ~ \E x \in reaped : x[2] = m
    BY <1>1
  <2>2. ~ \E x \in Pids : Carries(procs, ctl, x) /\ procs[x].childExit = m
    BY <1>1, <1>5, <2>1 DEF n
  <2>3. PICK x \in Pids : In(procs, x) /\ procs[x].state = "zombie" /\ id[x] = m
    BY <2>1, <2>2 DEF Codes, Ledger, Somewhere
  <2> QED BY <1>1, <2>3
<1>11. Kin(procs, ctl, dead)'
  BY <1>1 DEF Codes, Ledger, Kin
<1>12. Heirs(procs, ctl, dead)'
  BY <1>1, <1>5 DEF Codes, Ledger, Heirs
<1>13. Rightful(dead)'
  BY <1>1, <1>3 DEF Codes, Ledger, Rightful
<1>14. (dead \subseteq 1 .. made)'
  BY <1>1 DEF Codes
<1> QED BY <1>6, <1>7, <1>8, <1>9, <1>10, <1>11, <1>12, <1>13, <1>14 DEF Codes, Ledger

LEMMA WaitClearCodes == ASSUME IInv, Codes, WaitClear PROVE Codes'
<1>1. /\ ~halted /\ ctl[current] = "read" /\ ctl' = [ctl EXCEPT ![current] = "user"]
      /\ procs' = [procs EXCEPT ![current].childExit = 0]
      /\ UNCHANGED <<id, mother, made, dead, reaped>>
  BY DEF WaitClear, Running, Resume, hist
<1>2. /\ current \in Pids /\ In(procs, current) /\ procs[current] \in Task
      /\ procs[current].state = "running" /\ ~Carries(procs, ctl, current)
      /\ procs \in [Pids -> Task \cup {NoTask}] /\ ctl \in [Pids -> Points]
  BY <1>1, CurrentRuns DEF IInv, TypeOK, Carries
<1>3. /\ \A p \in Pids \ {current} : procs'[p] = procs[p] /\ ctl'[p] = ctl[p]
      /\ procs'[current].state = "running" /\ procs'[current].childExit = 0
      /\ procs'[current].parent = procs[current].parent
      /\ procs'[current] # NoTask
      /\ ctl'[current] = "user"
  BY <1>1, <1>2 DEF Task, NoTask
<1>4. \A x \in Pids : In(procs', x) <=> In(procs, x)
  BY <1>2, <1>3 DEF In
<1>5. \A x \in Pids : Carries(procs', ctl', x) <=> Carries(procs, ctl, x)
  BY <1>2, <1>3, <1>4 DEF Carries
<1>6. \A x \in Pids : Carries(procs, ctl, x) => procs'[x] = procs[x]
  BY <1>2, <1>3
<1>0. UNCHANGED <<id, mother, made, dead, reaped>>
  BY <1>1
<1>7. Bodies(procs, ctl, dead)' /\ Distinct(procs)'
  BY <1>0, <1>2, <1>3, <1>4 DEF Codes, Ledger, Bodies, Distinct
<1>8. Pockets(procs, ctl, dead)'
  <2> SUFFICES ASSUME NEW x \in Pids, In(procs', x)
               PROVE  /\ Carries(procs', ctl', x) => procs'[x].childExit \in dead
                      /\ ~Carries(procs', ctl', x) => procs'[x].childExit = 0 \/ ctl'[x] = "read"
    BY <1>0 DEF Pockets
  <2>1. CASE x = current
    BY <1>2, <1>3, <1>5, <2>1
  <2>2. CASE x # current
    BY <1>3, <1>4, <1>5, <2>2 DEF Codes, Ledger, Pockets
  <2> QED BY <2>1, <2>2
<1>9. Once(procs, ctl)'
  BY <1>0, <1>4, <1>5, <1>6 DEF Codes, Ledger, Once
<1>10. Given(procs, dead)'
  BY <1>0, <1>4 DEF Codes, Ledger, Given
<1>11. Somewhere(procs, ctl, dead)'
  <2> SUFFICES ASSUME NEW m \in dead,
                      ~ \E x \in reaped : x[2] = m,
                      ~ \E x \in Pids : Carries(procs', ctl', x) /\ procs'[x].childExit = m
               PROVE  \E x \in Pids : In(procs', x) /\ procs'[x].state = "zombie" /\ id[x] = m
    BY <1>1 DEF Somewhere
  <2>1. ~ \E x \in Pids : Carries(procs, ctl, x) /\ procs[x].childExit = m
    BY <1>5, <1>6
  <2>2. PICK x \in Pids : In(procs, x) /\ procs[x].state = "zombie" /\ id[x] = m
    BY <2>1 DEF Codes, Ledger, Somewhere
  <2> QED BY <1>2, <1>3, <1>4, <2>2
<1>12. Kin(procs, ctl, dead)'
  <2> SUFFICES ASSUME NEW c \in Pids, In(procs', c), mother[id[c]] \notin dead,
                      procs'[c].parent # 0
               PROVE  In(procs', procs'[c].parent) /\ id[procs'[c].parent] = mother[id[c]]
    BY <1>1 DEF Kin
  <2>1. In(procs, c) /\ procs'[c].parent = procs[c].parent
    BY <1>3, <1>4
  <2>2. In(procs, procs[c].parent) /\ id[procs[c].parent] = mother[id[c]]
    BY <2>1 DEF Codes, Ledger, Kin
  <2>3. procs[c].parent \in Pids
    BY <2>2 DEF In
  <2> QED BY <1>4, <2>1, <2>2, <2>3
<1>13. Heirs(procs, ctl, dead)'
  BY <1>0, <1>5, <1>6 DEF Codes, Ledger, Heirs
<1>14. Rightful(dead)' /\ (dead \subseteq 1 .. made)'
  BY <1>1 DEF Codes, Ledger, Rightful
<1> QED BY <1>7, <1>8, <1>9, <1>10, <1>11, <1>12, <1>13, <1>14 DEF Codes, Ledger

LEMMA StepCodes == IInv /\ Codes /\ [Next]_vars => Codes'
<1> SUFFICES ASSUME IInv, Codes, [Next]_vars PROVE Codes'
  OBVIOUS
<1>1. CASE Tick
  BY <1>1, TickCodes
<1>2. CASE ForkFull \/ ForkNoStack \/ WaitNoChild
  BY <1>2, RefusedCodes DEF ForkFull, ForkNoStack, WaitNoChild, hist
<1>3. CASE Fork
  BY <1>3, ForkCodes
<1>4. CASE Exit(id[current])
  BY <1>4, ExitCodes
<1>5. CASE WaitZombie
  BY <1>5, WaitZombieCodes
<1>6. CASE WaitSleep
  BY <1>6, WaitSleepCodes
<1>7. CASE \E n \in NiceArgs : SetNice(n)
  BY <1>7, SetNiceCodes, NiceAssumption
<1>8. CASE ForkReturn
  BY <1>8, ForkReturnCodes
<1>9. CASE WaitRead
  BY <1>9, WaitReadCodes
<1>10. CASE WaitClear
  BY <1>10, WaitClearCodes
<1>11. CASE UNCHANGED vars
  BY <1>11, RefusedCodes DEF vars, hist
<1> QED BY <1>1, <1>2, <1>3, <1>4, <1>5, <1>6, <1>7, <1>8, <1>9, <1>10, <1>11
        DEF Next, Call

\* Every reachable state satisfies the ledger of exit codes.
THEOREM CodesInvariance == Spec => []Codes
  BY InitCodes, StepCodes, Invariance, PTL DEF Spec

------------------------------------------------------------------------------
\* What follows from it.

\* sched_wait gives a task the codes of its own children, or of children whose
\* mother is gone (sched.c:153, 177).
THEOREM Reaped == Spec => []ReapedByMother
<1>1. Codes => ReapedByMother
  BY DEF Codes, Ledger, Rightful, ReapedByMother
<1> QED BY <1>1, CodesInvariance, PTL

LEMMA NoneOrOne ==
  ASSUME NEW S
  PROVE  /\ S = {} => Cardinality(S) = 0
         /\ \A x : S = {x} => Cardinality(S) = 1
BY FS_EmptySet, FS_Singleton

\* No exit code is lost, overwritten before it is read, or given twice
\* (sched.c:153-164, 198-207).
THEOREM CodesKept == Spec => []ExitCodesKept
<1>1. IInv /\ Codes => ExitCodesKept
  <2> SUFFICES ASSUME IInv, Codes, NEW n \in dead PROVE Places(n) = 1
    BY DEF ExitCodesKept
  <2> DEFINE Z == {p \in Pids : Has(procs, p, "zombie") /\ procs[p].exit = n}
             P == {p \in Pids : /\ In(procs, p) /\ procs[p].childExit = n
                                /\ ctl[p] # "read"}
             G == {x \in reaped : x[2] = n}
  <2>1. Places(n) = Cardinality(Z) + Cardinality(P) + Cardinality(G)
    BY DEF Places
  <2>2. n # 0
    BY DEF Codes, IInv, Numbered
  <2>3. \A p \in P : Carries(procs, ctl, p) /\ procs[p].childExit = n
    BY <2>2 DEF Codes, Ledger, Pockets
  <2>4. \A p \in Z : p \in Pids /\ In(procs, p) /\ id[p] = n
    BY DEF Has, Codes, Ledger, Bodies
  <2>5. Z = {} \/ P = {}
    BY <2>3, <2>4 DEF Codes, Ledger, Once
  <2>6. (Z = {} /\ P = {}) \/ G = {}
    BY <2>3, <2>4 DEF Codes, Ledger, Once, Given
  <2>7. \A p, q \in Z : p = q
    BY <2>4 DEF Codes, Ledger, Distinct
  <2>8. \A p, q \in P : p = q
    BY <2>3 DEF Codes, Ledger, Once
  <2>9. \A x, y \in G : x = y
    BY DEF Codes, Ledger, Given
  <2>10. Z # {} \/ P # {} \/ G # {}
    <3>1. CASE \E p \in Pids : In(procs, p) /\ procs[p].state = "zombie" /\ id[p] = n
      BY <3>1 DEF Has, Codes, Ledger, Bodies
    <3>2. CASE \E p \in Pids : Carries(procs, ctl, p) /\ procs[p].childExit = n
      BY <3>2 DEF Carries
    <3>3. CASE \E x \in reaped : x[2] = n
      BY <3>3
    <3> QED BY <3>1, <3>2, <3>3 DEF Codes, Ledger, Somewhere
  <2> HIDE DEF Z, P, G
  <2>11. CASE Z # {}
    <3>1. PICK p : Z = {p}
      BY <2>7, <2>11
    <3> QED BY <2>1, <2>5, <2>6, <2>11, <3>1, NoneOrOne
  <2>12. CASE P # {}
    <3>1. PICK p : P = {p}
      BY <2>8, <2>12
    <3> QED BY <2>1, <2>5, <2>6, <2>12, <3>1, NoneOrOne
  <2>13. CASE G # {}
    <3>1. PICK x : G = {x}
      BY <2>9, <2>13
    <3> QED BY <2>1, <2>6, <2>13, <3>1, NoneOrOne
  <2> QED BY <2>10, <2>11, <2>12, <2>13
<1> QED BY <1>1, Invariance, CodesInvariance, PTL

------------------------------------------------------------------------------
(***************************************************************************)
(* The schedule of testbed.c (Testbed.tla).  The program passes through    *)
(* five phases, in each of which it is known which task runs, how long its *)
(* slot still is and what it and the others have on their accounts; BedInv *)
(* says that it is in one of them, or that a fork has failed.  A tick      *)
(* stays in the phase or leads to the next one (FirstTick to LateTick); so *)
(* do the calls.                                                           *)
(***************************************************************************)
\* How long the loops have to be for the schedule of the comment: a loop takes
\* longer than a quantum of the first task, and enough of one for the third to
\* be overtaken before it is half done, but less than the quantum of the
\* second; and few ticks arrive elsewhere.
Proportions == /\ NProc > 3
               /\ Nice + 2 < Work /\ Work + Slack < 2 * Nice
               /\ 2 * Slack <= Nice

Statements == {"none", "fork1", "fork2", "error", "count0", "wait2", "exit0",
               "nice1", "count1", "nice2", "count2"}

BedTyped == /\ prog \in [Pids -> Statements]
            /\ left \in [Pids -> 0..Work] /\ other \in 0..Slack

Only(S) == \A p \in Pids \ S : procs[p] = NoTask

Waiting(p, at) == procs[p] = NewTask(1) /\ prog[p] = at /\ left[p] = Work

\* What the first task has done is known from its accumulated time.
Spent == procs[1].act <= other + (Work - left[1])

\* The first task in its first time slot.
First ==
    /\ ~halted /\ current = 1 /\ procs[1].parent = 0
    /\ procs[1].nice = 0 /\ procs[1].quantum = Nice /\ procs[1].act = Nice - procs[1].slot
    /\ Spent /\ Work - left[1] <= procs[1].act
    /\ left[2] = Work /\ left[3] = Work
    /\ \/ prog[1] = "fork1" /\ left[1] = Work /\ Only({1})
       \/ prog[1] = "fork2" /\ left[1] = Work /\ Only({1, 2}) /\ Waiting(2, "nice1")
       \/ prog[1] = "count0" /\ Only({1, 2, 3}) /\ Waiting(2, "nice1") /\ Waiting(3, "nice2")

\* It has been interrupted by the tick that ended the slot.
Interrupted ==
    /\ procs[1].state = "ready" /\ procs[1].parent = 0
    /\ procs[1].nice = 0 /\ procs[1].quantum = Nice /\ procs[1].act = Nice /\ procs[1].slot = Nice
    /\ Spent /\ Work - left[1] <= Nice
    /\ prog[1] = "count0" /\ Only({1, 2, 3})

\* The second task, whose slot is longer than its loop.
Second ==
    /\ ~halted /\ current = 2 /\ Interrupted /\ Waiting(3, "nice2")
    /\ procs[2].parent = 1
    /\ \/ prog[2] = "nice1" /\ left[2] = Work /\ procs[2].slot >= Nice - other
       \/ prog[2] = "count1" /\ procs[2].slot >= 2 * Nice - other - (Work - left[2])

\* The third task until it has less priority than the first.
Third ==
    /\ ~halted /\ current = 3 /\ Interrupted
    /\ procs[2].state = "zombie" /\ procs[2].parent = 1 /\ left[2] = 0
    /\ procs[3].parent = 1 /\ 2 * procs[3].act <= Nice
    /\ procs[3].act - other <= Work - left[3] /\ Work - left[3] <= procs[3].act
    /\ \/ prog[3] = "nice2" /\ left[3] = Work /\ procs[3].act <= other /\ procs[3].slot >= Nice - other
       \/ prog[3] = "count2" /\ procs[3].slot = 1 /\ procs[3].quantum = 1 /\ procs[3].nice = Nice - 1

\* The first task again, until it waits for the third.
Again ==
    /\ ~halted /\ current = 1 /\ procs[1].parent = 0 /\ Only({1, 2, 3})
    /\ procs[1].slot = 2 * Nice - procs[1].act /\ Spent
    /\ procs[3].state = "ready" /\ procs[3].parent = 1 /\ prog[3] = "count2"
    /\ left[2] = 0 /\ left[3] < Work /\ 2 * left[3] > Work
    /\ \/ prog[1] = "count0" /\ procs[2].state = "zombie" /\ procs[2].parent = 1
       \/ prog[1] = "wait2" /\ procs[2] = NoTask /\ left[1] = 0

\* The loops of the first two are over.
Late ==
    /\ ~halted => current \in {1, 3}
    /\ Only({1, 3})
    /\ \A p \in {1, 3} : prog[p] \notin {"fork1", "fork2", "error"}
    /\ left[1] = 0 /\ left[2] = 0 /\ left[3] < Work

\* A fork has failed, and SIGVTALRM is left blocked.
Failed ==
    /\ current = 1 /\ prog[1] = "error" /\ ctl[1] = "user" /\ masked
    /\ left[1] = Work /\ left[2] = Work /\ left[3] = Work
    /\ procs[2] = NoTask \/ prog[2] = "nice1"

BedInv == /\ Proportions /\ BedTyped
          /\ Failed \/ (IInv /\ (First \/ Second \/ Third \/ Again \/ Late))

\* What the proportions say about single numbers.
LEMMA Sizes ==
  ASSUME Proportions
  PROVE  /\ Nice \in Nat /\ Work \in Nat /\ Slack \in Nat /\ Nice >= 3
         /\ Slack < Nice /\ Work < 2 * Nice /\ Nice < Work
         /\ 1 \in Pids /\ 2 \in Pids /\ 3 \in Pids
BY NProcAssumption, NiceAssumption, WorkAssumption DEF Proportions, Pids

LEMMA Left ==
  ASSUME BedTyped, NEW p \in Pids
  PROVE  /\ left[p] \in Int /\ left[p] >= 0 /\ left[p] <= Work
         /\ other \in Int /\ other >= 0 /\ other <= Slack
<1>1. left[p] \in 0..Work /\ other \in 0..Slack
  BY DEF BedTyped
<1> QED BY <1>1, WorkAssumption

\* The task with the least priority runs, of several the one with the lowest
\* pid.
LEMMA SwitchTo ==
  ASSUME NEW t, NEW k, NEW n \in Ready(t), \A p \in Ready(t) : t[p].dyn \in Int,
         \A p \in Ready(t) \ {n} : t[n].dyn < t[p].dyn \/ (t[n].dyn = t[p].dyn /\ n <= p),
         Dispatch(t, k)
  PROVE  procs' = [t EXCEPT ![n].state = "running"] /\ current' = n /\ halted' = halted
<1>1. Ready(t) \in SUBSET Pids /\ Best(t) \in SUBSET Ready(t)
  BY DEF Ready, Best
<1>2. n \in Best(t)
  BY DEF Best
<1>3. IsFiniteSet(Best(t)) /\ Best(t) \subseteq Int
  <2>1. Best(t) \in SUBSET Pids
    BY <1>1
  <2>2. IsFiniteSet(Best(t))
    BY <2>1, PidsFinite, FS_Subset
  <2>3. Best(t) \subseteq Int
    <3> SUFFICES ASSUME NEW x \in Best(t) PROVE x \in Int
      OBVIOUS
    <3>1. x \in Pids
      BY <2>1
    <3> QED BY <3>1 DEF Pids
  <2> QED BY <2>2, <2>3
<1> DEFINE l == FindLowest(t)
<1>4. l \in Best(t) /\ l <= n
  BY <1>2, <1>3, LowestIsLowest DEF FindLowest
<1>5. t[l].dyn <= t[n].dyn /\ l \in Int /\ n \in Int
  BY <1>1, <1>2, <1>3, <1>4 DEF Best
<1>6. l = n
  <2> SUFFICES ASSUME l # n PROVE FALSE
    OBVIOUS
  <2> HIDE DEF l
  <2>1. l \in Ready(t) \ {n}
    BY <1>1, <1>4
  <2>2. t[l].dyn \in Int /\ t[n].dyn \in Int
    BY <2>1
  <2> QED BY <1>4, <1>5, <2>1, <2>2
<1> QED BY <1>2, <1>6 DEF Dispatch

Ticked(c)  == [c EXCEPT !.act = c.act + 1, !.slot = c.slot - 1, !.dyn = Weight(c.nice) * (c.act + 1)]
Yielded(c) == [Ticked(c) EXCEPT !.state = "ready", !.slot = c.quantum]

LEMMA TickedIs ==
  ASSUME NEW c \in Task
  PROVE  /\ Ticked(c).act = c.act + 1 /\ Ticked(c).slot = c.slot - 1
         /\ Ticked(c).nice = c.nice /\ Ticked(c).quantum = c.quantum
         /\ Ticked(c).state = c.state /\ Ticked(c).parent = c.parent
         /\ Yielded(c).act = c.act + 1 /\ Yielded(c).slot = c.quantum
         /\ Yielded(c).nice = c.nice /\ Yielded(c).quantum = c.quantum
         /\ Yielded(c).state = "ready" /\ Yielded(c).parent = c.parent
         /\ Yielded(c).dyn = Weight(c.nice) * (c.act + 1)
BY DEF Ticked, Yielded, Task

\* A tick: one more on the account of the running task, one less of its slot,
\* and one less of its loop unless it is not counting.
LEMMA BedTickIs ==
  ASSUME IInv, BedTyped, BedTick
  PROVE  /\ ~halted /\ ~masked /\ current \in Pids /\ procs[current] \in Task
         /\ prog' = prog /\ BedTyped' /\ IInv'
         /\ \A p \in Pids \ {current} : left'[p] = left[p]
         /\ \/ Counting /\ other' = other /\ left'[current] = left[current] - 1
            \/ /\ ~Counting /\ other < Slack /\ other' = other + 1
               /\ left'[current] = left[current]
         /\ \/ /\ procs[current].slot > 1 /\ current' = current /\ halted' = halted
               /\ procs' = [procs EXCEPT ![current] = Ticked(procs[current])]
            \/ /\ procs[current].slot = 1
               /\ Dispatch([procs EXCEPT ![current] = Yielded(procs[current])], ctl)
<1> DEFINE c == procs[current]
           t == [procs EXCEPT ![current].act = c.act + 1,
                              ![current].slot = c.slot - 1,
                              ![current].dyn = Weight(c.nice) * (c.act + 1)]
<1>1. /\ ~halted /\ ~masked
      /\ \/ c.slot - 1 # 0 /\ procs' = t /\ UNCHANGED <<current, next, masked, halted, ctl>>
         \/ c.slot - 1 = 0 /\ Dispatch(Yield(t), ctl)
  BY DEF BedTick, Tick
<1>2. /\ current \in Pids /\ c \in Task /\ In(procs, current)
      /\ procs \in [Pids -> Task \cup {NoTask}]
  BY <1>1, CurrentRuns DEF IInv, TypeOK
<1>3. c.slot \in Int /\ c.slot >= 1
  BY <1>2 DEF IInv, Good, SlotsFull, Task
<1>4. t = [procs EXCEPT ![current] = Ticked(c)]
  BY <1>2 DEF Ticked, Task
<1>5. Yield(t) = [procs EXCEPT ![current] = Yielded(c)]
  <2> DEFINE r == Ticked(c)
             u == [procs EXCEPT ![current] = r]
  <2>1. r.quantum = c.quantum
    BY <1>2, TickedIs
  <2>2. t = u /\ u[current] = r
    BY <1>2, <1>4
  <2>3. Yield(u) = [procs EXCEPT ![current] = [r EXCEPT !.state = "ready", !.slot = c.quantum]]
    <3> HIDE DEF r
    <3> QED BY <1>2, <2>1, <2>2 DEF Yield
  <2> QED BY <2>2, <2>3 DEF Yielded
<1>6. \/ /\ c.slot > 1 /\ current' = current /\ halted' = halted
         /\ procs' = [procs EXCEPT ![current] = Ticked(c)]
      \/ c.slot = 1 /\ Dispatch([procs EXCEPT ![current] = Yielded(c)], ctl)
  <2> HIDE DEF c, t
  <2> QED BY <1>1, <1>3, <1>4, <1>5
<1>7. /\ prog' = prog
      /\ \/ /\ Counting /\ other' = other
            /\ left' = [left EXCEPT ![current] = left[current] - 1]
         \/ ~Counting /\ left' = left /\ other < Slack /\ other' = other + 1
  BY DEF BedTick
<1>8. BedTyped'
  <2>1. CASE Counting /\ other' = other /\ left' = [left EXCEPT ![current] = left[current] - 1]
    <3>1. left[current] - 1 \in 0..Work
      BY <1>2, <2>1, Left, WorkAssumption DEF Counting
    <3> QED BY <1>7, <2>1, <3>1 DEF BedTyped
  <2>2. CASE left' = left /\ other < Slack /\ other' = other + 1
    <3>1. other' \in 0..Slack
      BY <1>2, <2>2, Left, WorkAssumption
    <3> QED BY <1>7, <2>2, <3>1 DEF BedTyped
  <2> QED BY <1>7, <2>1, <2>2
<1>9. IInv'
  BY TickInv DEF BedTick
<1>10. /\ \A p \in Pids \ {current} : left'[p] = left[p]
       /\ \/ Counting /\ other' = other /\ left'[current] = left[current] - 1
          \/ /\ ~Counting /\ other < Slack /\ other' = other + 1
             /\ left'[current] = left[current]
  <2>1. left \in [Pids -> 0..Work]
    BY DEF BedTyped
  <2> QED BY <1>2, <1>7, <2>1
<1> HIDE DEF c
<1> QED BY <1>1, <1>2, <1>6, <1>7, <1>8, <1>9, <1>10 DEF c

\* The fields of a task in the table are numbers that fit each other.
LEMMA Fields ==
  ASSUME IInv, NEW p \in Pids, In(procs, p)
  PROVE  /\ procs[p] \in Task
         /\ procs[p].slot \in Int /\ procs[p].slot >= 1
         /\ procs[p].act \in Int /\ procs[p].act >= 0
         /\ procs[p].quantum \in Int /\ procs[p].slot <= procs[p].quantum
         /\ procs[p].dyn \in Int /\ procs[p].dyn = Weight(procs[p].nice) * procs[p].act
<1>1. procs[p] \in Task
  BY DEF IInv, TypeOK, In
<1>2. procs[p].slot \in 1 .. procs[p].quantum
  BY DEF IInv, Good, SlotsFull
<1>3. procs[p].quantum \in Nat /\ procs[p].act \in Nat /\ procs[p].dyn \in Nat
  BY <1>1 DEF Task
<1> QED BY <1>1, <1>2, <1>3 DEF IInv, Good, Fresh

LEMMA Newcomer ==
  ASSUME NEW x
  PROVE  /\ NewTask(x) # NoTask /\ NewTask(x).state = "ready" /\ NewTask(x).act = 0
         /\ NewTask(x).dyn = 0 /\ NewTask(x).slot = Nice /\ NewTask(x).parent = x
BY DEF NewTask, NoTask

\* n * x and n * y compare as x and y do.
LEMMA Scale ==
  ASSUME NEW n \in Int, NEW x \in Int, NEW y \in Int, n > 0
  PROVE  /\ x < y => n * x < n * y
         /\ x <= y => n * x <= n * y
<1>1. n * (y - x) = n * y - n * x
  OBVIOUS
<1>2. x < y => n * (y - x) > 0
  OBVIOUS
<1>3. x <= y => n * (y - x) >= 0
  OBVIOUS
<1>4. n * x \in Int /\ n * y \in Int
  OBVIOUS
<1> QED BY <1>1, <1>2, <1>3, <1>4

\* A tick in the first time slot: if it is the last of the slot the second
\* task begins, which has no time on its account and the lower pid.
LEMMA FirstTick ==
  ASSUME Proportions, BedTyped, IInv, First, BedTick
  PROVE  First' \/ Second'
<1> DEFINE c == procs[1]
<1>1. /\ Nice \in Int /\ Work \in Int /\ Slack \in Int /\ Nice >= 3 /\ 2 * Slack <= Nice
      /\ 1 \in Pids /\ 2 \in Pids /\ 3 \in Pids
  BY Sizes, WorkAssumption DEF Proportions
<1>2. /\ ~halted /\ current = 1 /\ c.parent = 0
      /\ c.nice = 0 /\ c.quantum = Nice /\ c.act = Nice - c.slot
      /\ Work - left[1] <= c.act /\ c.act <= other + (Work - left[1])
      /\ left[2] = Work /\ left[3] = Work
  BY DEF First, Spent
<1>3. /\ c \in Task /\ prog' = prog
      /\ left'[2] = left[2] /\ left'[3] = left[3]
      /\ \/ Counting /\ other' = other /\ left'[1] = left[1] - 1
         \/ ~Counting /\ other < Slack /\ other' = other + 1 /\ left'[1] = left[1]
      /\ \/ /\ c.slot > 1 /\ current' = current /\ halted' = halted
            /\ procs' = [procs EXCEPT ![1] = Ticked(c)]
         \/ /\ c.slot = 1
            /\ Dispatch([procs EXCEPT ![1] = Yielded(c)], ctl)
  BY <1>1, <1>2, BedTickIs
<1>4. /\ c.slot \in Int /\ c.act \in Int /\ c.act >= 0
      /\ left[1] \in Int /\ left[1] >= 0 /\ left[1] <= Work
      /\ other \in Int /\ other >= 0 /\ other <= Slack
  BY <1>1, <1>2, Left, Fields, CurrentRuns
<1>5. /\ procs \in [Pids -> Task \cup {NoTask}]
  BY DEF IInv, TypeOK
<1>6. /\ c.act + 1 <= other' + (Work - left'[1]) /\ Work - left'[1] <= c.act + 1
  BY <1>1, <1>2, <1>3, <1>4
<1>7. prog[1] \in {"fork1", "fork2"} => left'[1] = left[1]
  BY <1>2, <1>3 DEF Counting
<1> HIDE DEF c
<1>8. CASE /\ c.slot > 1 /\ current' = current /\ halted' = halted
           /\ procs' = [procs EXCEPT ![1] = Ticked(c)]
  <2>1. /\ procs'[1] = Ticked(c) /\ \A p \in Pids \ {1} : procs'[p] = procs[p]
    BY <1>1, <1>5, <1>8
  <2>2. /\ procs'[1].parent = 0 /\ procs'[1].nice = 0 /\ procs'[1].quantum = Nice
        /\ procs'[1].act = c.act + 1 /\ procs'[1].slot = c.slot - 1
    BY <1>2, <1>3, <2>1, TickedIs
  <2>3. procs'[1].act = Nice - procs'[1].slot
    BY <1>1, <1>2, <1>4, <2>2
  <2>4. ~halted'
    BY <1>2, <1>8
  <2>5. \A S : 1 \in S /\ Only(S) => Only(S)'
    BY <2>1 DEF Only
  <2>6. /\ Waiting(2, "nice1") => Waiting(2, "nice1")'
        /\ Waiting(3, "nice2") => Waiting(3, "nice2")'
    BY <1>1, <1>3, <2>1 DEF Waiting
  <2>7. Spent' /\ Work - left'[1] <= procs'[1].act
    BY <1>6, <2>2 DEF Spent
  <2> QED BY <1>2, <1>3, <1>7, <1>8, <2>2, <2>3, <2>4, <2>5, <2>6, <2>7 DEF First
<1>9. CASE c.slot = 1 /\ Dispatch([procs EXCEPT ![1] = Yielded(c)], ctl)
  <2> DEFINE t == [procs EXCEPT ![1] = Yielded(c)]
  <2>1. c.act = Nice - 1 /\ prog[1] = "count0"
    BY <1>1, <1>2, <1>4, <1>9 DEF First
  <2>2. /\ prog[1] = "count0" /\ Only({1, 2, 3}) /\ Waiting(2, "nice1") /\ Waiting(3, "nice2")
    BY <2>1 DEF First
  <2>3. /\ t \in [Pids -> {Yielded(c)} \cup Task \cup {NoTask}] /\ t[1] = Yielded(c)
        /\ t[2] = NewTask(1) /\ t[3] = NewTask(1)
        /\ \A p \in Pids \ {1, 2, 3} : t[p] = NoTask
        /\ \A p \in Pids \ {1} : t[p] = procs[p]
    BY <1>1, <1>5, <2>2 DEF Only, Waiting
  <2>4. /\ t[1].state = "ready" /\ t[1].nice = 0 /\ t[1].quantum = Nice /\ t[1].slot = Nice
        /\ t[1].parent = 0 /\ t[1].act = Nice /\ t[1].dyn = Weight(0) * Nice
    <3>1. c.act + 1 = Nice
      BY <1>1, <2>1
    <3> QED BY <1>2, <1>3, <2>3, <3>1, TickedIs
  <2>5. Weight(0) * Nice > 0 /\ Weight(0) * Nice \in Int
    <3>1. Weight(0) = Nice + 1
      BY <1>1 DEF Weight
    <3> QED BY <1>1, <3>1, Scale
  <2> HIDE DEF t
  <2>6. 2 \in Ready(t) /\ \A p \in Ready(t) : p \in {1, 2, 3}
    BY <1>1, <2>3, Newcomer DEF Ready, Has, In
  <2>7. \A p \in Ready(t) : t[p].dyn \in Int
    BY <2>3, <2>4, <2>5, <2>6, Newcomer
  <2>8. \A p \in Ready(t) \ {2} : t[2].dyn < t[p].dyn \/ (t[2].dyn = t[p].dyn /\ 2 <= p)
    BY <2>3, <2>4, <2>5, <2>6, Newcomer
  <2>9. procs' = [t EXCEPT ![2].state = "running"] /\ current' = 2 /\ halted' = halted
    BY <1>9, <2>6, <2>7, <2>8, SwitchTo DEF t
  <2>10. procs'[1] = t[1] /\ procs'[3] = NewTask(1) /\ procs'[2].slot = Nice /\ procs'[2].parent = 1
         /\ \A p \in Pids \ {1, 2, 3} : procs'[p] = NoTask
    BY <1>1, <2>3, <2>9 DEF NewTask
  <2>11. Interrupted'
    BY <1>1, <1>3, <1>4, <1>6, <2>2, <2>4, <2>10, <2>1 DEF Interrupted, Spent, Only
  <2>12. Waiting(3, "nice2")' /\ prog'[2] = "nice1" /\ left'[2] = Work
    BY <1>2, <1>3, <2>2, <2>10 DEF Waiting
  <2>13. procs'[2].slot >= Nice - other'
    BY <1>1, <1>3, <1>4, <2>10
  <2> QED BY <1>2, <2>9, <2>10, <2>11, <2>12, <2>13 DEF Second
<1> QED BY <1>3, <1>8, <1>9

\* A tick during the second task's slot does not end it.
LEMMA SecondTick ==
  ASSUME Proportions, BedTyped, IInv, Second, BedTick
  PROVE  Second'
<1> DEFINE c == procs[2]
<1>1. /\ Nice \in Int /\ Work \in Int /\ Slack \in Int /\ Nice >= 3 /\ 2 * Slack <= Nice
      /\ Work + Slack < 2 * Nice
      /\ 1 \in Pids /\ 2 \in Pids /\ 3 \in Pids
  BY Sizes, WorkAssumption DEF Proportions
<1>2. /\ ~halted /\ current = 2 /\ c.parent = 1 /\ Interrupted /\ Waiting(3, "nice2")
      /\ \/ prog[2] = "nice1" /\ left[2] = Work /\ c.slot >= Nice - other
         \/ prog[2] = "count1" /\ c.slot >= 2 * Nice - other - (Work - left[2])
  BY DEF Second
<1>3. /\ c \in Task /\ prog' = prog
      /\ left'[1] = left[1] /\ left'[3] = left[3]
      /\ \/ Counting /\ other' = other /\ left'[2] = left[2] - 1
         \/ ~Counting /\ other < Slack /\ other' = other + 1 /\ left'[2] = left[2]
      /\ \/ /\ c.slot > 1 /\ current' = current /\ halted' = halted
            /\ procs' = [procs EXCEPT ![2] = Ticked(c)]
         \/ c.slot = 1
  BY <1>1, <1>2, BedTickIs
<1>4. /\ c.slot \in Int /\ left[2] \in Int /\ left[2] >= 0 /\ left[2] <= Work
      /\ other \in Int /\ other >= 0 /\ other <= Slack
  BY <1>1, <1>2, Left, Fields, CurrentRuns
<1>5. procs \in [Pids -> Task \cup {NoTask}]
  BY DEF IInv, TypeOK
<1>6. prog[2] = "nice1" => ~Counting
  BY <1>2 DEF Counting
<1>7. prog[2] = "count1" /\ ~Counting => left[2] = 0
  BY <1>2, <1>4 DEF Counting
<1>8. Counting => left[2] > 0
  BY <1>2 DEF Counting
<1>9. c.slot # 1
  <2>1. CASE prog[2] = "nice1" /\ c.slot >= Nice - other
    BY <1>1, <1>4, <2>1
  <2>2. CASE prog[2] = "count1" /\ c.slot >= 2 * Nice - other - (Work - left[2])
    BY <1>1, <1>3, <1>4, <1>7, <1>8, <2>2
  <2> QED BY <1>2, <2>1, <2>2
<1> HIDE DEF c
<1>10. /\ procs'[2] = Ticked(c) /\ procs'[1] = procs[1] /\ procs'[3] = procs[3]
       /\ \A p \in Pids \ {1, 2, 3} : procs'[p] = procs[p]
  BY <1>1, <1>3, <1>5, <1>9
<1>11. procs'[2].slot = c.slot - 1 /\ procs'[2].parent = 1
  BY <1>2, <1>3, <1>10, TickedIs
<1>12. Interrupted' /\ Waiting(3, "nice2")'
  <2>1. other' >= other /\ left'[1] \in Int
    BY <1>1, <1>3, <1>4, Left
  <2>2. Spent'
    BY <1>1, <1>2, <1>3, <1>4, <1>10, Left DEF Interrupted, Spent
  <2> QED BY <1>2, <1>3, <1>10, <2>2 DEF Interrupted, Waiting, Only
<1>13. \/ prog'[2] = "nice1" /\ left'[2] = Work /\ procs'[2].slot >= Nice - other'
       \/ prog'[2] = "count1" /\ procs'[2].slot >= 2 * Nice - other' - (Work - left'[2])
  <2>1. CASE prog[2] = "nice1" /\ left[2] = Work /\ c.slot >= Nice - other
    BY <1>1, <1>3, <1>4, <1>6, <1>11, <2>1
  <2>2. CASE prog[2] = "count1" /\ c.slot >= 2 * Nice - other - (Work - left[2])
    BY <1>1, <1>3, <1>4, <1>11, <2>2
  <2> QED BY <1>2, <2>1, <2>2
<1> QED BY <1>2, <1>3, <1>9, <1>11, <1>12, <1>13 DEF Second

\* A tick while the third task overtakes the first ends a slot of one tick:
\* the third goes on as long as its priority is better.
LEMMA ThirdTick ==
  ASSUME Proportions, BedTyped, IInv, Third, BedTick
  PROVE  Third' \/ Again'
<1> DEFINE c == procs[3]
<1>1. /\ Nice \in Int /\ Work \in Int /\ Slack \in Int /\ Nice >= 3 /\ 2 * Slack <= Nice
      /\ Nice + 2 < Work
      /\ 1 \in Pids /\ 2 \in Pids /\ 3 \in Pids
  BY Sizes, WorkAssumption DEF Proportions
<1>2. /\ ~halted /\ current = 3 /\ c.parent = 1 /\ Interrupted
      /\ procs[2].state = "zombie" /\ procs[2].parent = 1 /\ left[2] = 0
      /\ 2 * c.act <= Nice
      /\ c.act - other <= Work - left[3] /\ Work - left[3] <= c.act
      /\ \/ prog[3] = "nice2" /\ left[3] = Work /\ c.act <= other /\ c.slot >= Nice - other
         \/ prog[3] = "count2" /\ c.slot = 1 /\ c.quantum = 1 /\ c.nice = Nice - 1
  BY DEF Third
<1>3. /\ c \in Task /\ prog' = prog
      /\ left'[1] = left[1] /\ left'[2] = left[2]
      /\ \/ Counting /\ other' = other /\ left'[3] = left[3] - 1
         \/ ~Counting /\ other < Slack /\ other' = other + 1 /\ left'[3] = left[3]
      /\ \/ /\ c.slot > 1 /\ current' = current /\ halted' = halted
            /\ procs' = [procs EXCEPT ![3] = Ticked(c)]
         \/ c.slot = 1 /\ Dispatch([procs EXCEPT ![3] = Yielded(c)], ctl)
  BY <1>1, <1>2, BedTickIs
<1>4. /\ c.slot \in Int /\ c.act \in Int /\ c.act >= 0
      /\ left[3] \in Int /\ left[3] >= 0 /\ left[3] <= Work
      /\ other \in Int /\ other >= 0 /\ other <= Slack
  BY <1>1, <1>2, Left, Fields, CurrentRuns
<1>5. procs \in [Pids -> Task \cup {NoTask}]
  BY DEF IInv, TypeOK
<1>6. prog[3] = "nice2" => ~Counting
  BY <1>2 DEF Counting
<1>7. /\ c.act + 1 - other' <= Work - left'[3] /\ Work - left'[3] <= c.act + 1
  BY <1>1, <1>2, <1>3, <1>4
<1>8. left[1] \in Int /\ left[1] >= 0 /\ left[1] <= Work /\ other' \in Int /\ other' >= other /\ other' <= Slack
      /\ left'[3] \in Int
  BY <1>1, <1>3, <1>4, Left
<1>9. Spent /\ Work - left[1] <= Nice
  BY <1>2 DEF Interrupted
<1>10. procs[1].act <= other' + (Work - left'[1])
  BY <1>1, <1>2, <1>3, <1>4, <1>8, <1>9 DEF Spent, Interrupted
<1> HIDE DEF c
<1>11. CASE prog[3] = "nice2" /\ left[3] = Work /\ c.act <= other /\ c.slot >= Nice - other
  <2>1. ~Counting /\ other' = other + 1 /\ other < Slack /\ left'[3] = Work
    BY <1>3, <1>6, <1>11
  <2>2. c.slot > 1 /\ current' = current /\ halted' = halted
        /\ procs' = [procs EXCEPT ![3] = Ticked(c)]
    <3>1. c.slot # 1
      BY <1>1, <1>4, <1>11
    <3> QED BY <1>3, <3>1
  <2>3. /\ procs'[3] = Ticked(c) /\ procs'[1] = procs[1] /\ procs'[2] = procs[2]
        /\ \A p \in Pids \ {1, 2, 3} : procs'[p] = procs[p]
    BY <1>1, <1>5, <2>2
  <2>4. procs'[3].slot = c.slot - 1 /\ procs'[3].parent = 1 /\ procs'[3].act = c.act + 1
    BY <1>2, <1>3, <2>3, TickedIs
  <2>5. Interrupted'
    BY <1>2, <1>3, <1>10, <2>3 DEF Interrupted, Only, Spent
  <2>6. 2 * procs'[3].act <= Nice /\ procs'[3].act <= other' /\ procs'[3].slot >= Nice - other'
    BY <1>1, <1>4, <1>11, <2>1, <2>4
  <2>7. procs'[3].act - other' <= Work - left'[3] /\ Work - left'[3] <= procs'[3].act
    BY <1>1, <1>4, <1>7, <1>8, <2>4
  <2> QED BY <1>2, <1>3, <1>11, <2>1, <2>2, <2>3, <2>4, <2>5, <2>6, <2>7 DEF Third
<1>12. CASE prog[3] = "count2" /\ c.slot = 1 /\ c.quantum = 1 /\ c.nice = Nice - 1
  <2> DEFINE t == [procs EXCEPT ![3] = Yielded(c)]
             a == c.act + 1
  <2>1. Dispatch(t, ctl)
    BY <1>3, <1>12
  <2>2. /\ t[3] = Yielded(c) /\ t[1] = procs[1] /\ t[2] = procs[2]
        /\ \A p \in Pids \ {1, 2, 3} : t[p] = NoTask
        /\ t[1] # NoTask /\ t[1].state = "ready"
    BY <1>1, <1>2, <1>5 DEF Interrupted, Only, NoTask
  <2>3. /\ t[3].state = "ready" /\ t[3].nice = Nice - 1 /\ t[3].quantum = 1 /\ t[3].slot = 1
        /\ t[3].parent = 1 /\ t[3].act = a /\ t[3].dyn = Weight(Nice - 1) * a
    BY <1>2, <1>3, <1>12, <2>2, TickedIs
  <2>4. t[3] # NoTask
    BY <2>3 DEF NoTask
  <2>5. t[1].dyn = Nice * (Nice + 1) /\ t[3].dyn = Nice * (2 * a) /\ a \in Int
    <3>1. In(procs, 1)
      BY <1>1, <2>2 DEF In
    <3>2. t[1].dyn = Weight(0) * Nice
      BY <1>1, <1>2, <2>2, <3>1, Fields DEF Interrupted
    <3>3. Weight(0) = Nice + 1 /\ Weight(Nice - 1) = 2 * Nice /\ a \in Int
      BY <1>1, <1>4 DEF Weight
    <3> HIDE DEF a
    <3>4. (Nice + 1) * Nice = Nice * (Nice + 1) /\ (2 * Nice) * a = Nice * (2 * a)
      BY <1>1, <3>3
    <3> HIDE DEF t
    <3> QED BY <2>3, <3>2, <3>3, <3>4
  <2>6. t[1].dyn \in Int /\ t[3].dyn \in Int
    BY <1>1, <2>5
  <2>7. /\ 2 * a < Nice + 1 => t[3].dyn < t[1].dyn
        /\ Nice + 1 <= 2 * a => t[1].dyn <= t[3].dyn
    <3> HIDE DEF a, t
    <3> QED BY <1>1, <2>5, Scale
  <2>8. 2 * a < Nice + 1 \/ Nice + 1 <= 2 * a
    BY <1>1, <2>5
  <2>9. Ready(t) = {1, 3}
    <3> HIDE DEF t
    <3> QED BY <1>1, <1>2, <2>2, <2>3, <2>4 DEF Ready, Has, In
  <2> HIDE DEF t
  <2>10. CASE 2 * a < Nice + 1
    <3>1. procs' = [t EXCEPT ![3].state = "running"] /\ current' = 3 /\ halted' = halted
      <4>1. \A p \in Ready(t) \ {3} : t[3].dyn < t[p].dyn
        BY <2>7, <2>9, <2>10
      <4> QED BY <2>1, <2>6, <2>9, <4>1, SwitchTo
    <3>2. /\ procs'[1] = procs[1] /\ procs'[2] = procs[2]
          /\ procs'[3].slot = 1 /\ procs'[3].quantum = 1 /\ procs'[3].nice = Nice - 1
          /\ procs'[3].parent = 1 /\ procs'[3].act = a
          /\ \A p \in Pids \ {1, 2, 3} : procs'[p] = NoTask
      <4>1. t \in [Pids -> {Yielded(c)} \cup Task \cup {NoTask}]
        BY <1>5 DEF t
      <4>2. procs'[3] = [t[3] EXCEPT !.state = "running"]
        BY <1>1, <3>1, <4>1
      <4>3. [t[3] EXCEPT !.state = "running"] = [Ticked(c) EXCEPT !.state = "running", !.slot = c.quantum]
        BY <2>2 DEF Yielded, Ticked
      <4>4. /\ procs'[3].slot = t[3].slot /\ procs'[3].quantum = t[3].quantum /\ procs'[3].nice = t[3].nice
            /\ procs'[3].parent = t[3].parent /\ procs'[3].act = t[3].act
        BY <1>3, <2>2, <4>2 DEF Yielded, Ticked, Task
      <4> QED BY <1>1, <2>2, <2>3, <3>1, <4>1, <4>4
    <3>3. Interrupted'
      BY <1>2, <1>3, <1>10, <3>2 DEF Interrupted, Only, Spent
    <3>4. 2 * procs'[3].act <= Nice
      BY <1>1, <2>5, <2>10, <3>2
    <3>5. procs'[3].act - other' <= Work - left'[3] /\ Work - left'[3] <= procs'[3].act
      BY <1>1, <1>4, <1>7, <1>8, <3>2
    <3> QED BY <1>2, <1>3, <1>12, <3>1, <3>2, <3>3, <3>4, <3>5 DEF Third
  <2>11. CASE Nice + 1 <= 2 * a
    <3>1. procs' = [t EXCEPT ![1].state = "running"] /\ current' = 1 /\ halted' = halted
      <4>1. \A p \in Ready(t) \ {1} : t[1].dyn < t[p].dyn \/ (t[1].dyn = t[p].dyn /\ 1 <= p)
        BY <2>6, <2>7, <2>9, <2>11
      <4> QED BY <2>1, <2>6, <2>9, <4>1, SwitchTo
    <3>2. /\ procs'[3] = t[3] /\ procs'[2] = procs[2]
          /\ procs'[1].slot = Nice /\ procs'[1].act = Nice /\ procs'[1].parent = 0
          /\ \A p \in Pids \ {1, 2, 3} : procs'[p] = NoTask
      <4>1. t \in [Pids -> {Yielded(c)} \cup Task \cup {NoTask}] /\ t[1] \in Task
        BY <1>1, <1>5, <2>2 DEF t
      <4>2. procs'[1] = [t[1] EXCEPT !.state = "running"]
        BY <1>1, <3>1, <4>1
      <4>3. /\ procs'[1].slot = t[1].slot /\ procs'[1].act = t[1].act /\ procs'[1].parent = t[1].parent
        BY <4>1, <4>2 DEF Task
      <4> QED BY <1>1, <1>2, <2>2, <3>1, <4>1, <4>3 DEF Interrupted
    <3>3. left'[3] < Work /\ 2 * left'[3] > Work
      BY <1>1, <1>2, <1>4, <1>7, <1>8, <2>11
    <3>4. Only({1, 2, 3})' /\ Spent'
      BY <1>10, <1>2, <3>2 DEF Only, Spent, Interrupted
    <3>5. procs'[1].slot = 2 * Nice - procs'[1].act
      BY <1>1, <3>2
    <3> QED BY <1>2, <1>3, <1>12, <2>3, <3>1, <3>2, <3>3, <3>4, <3>5 DEF Again, Interrupted
  <2> QED BY <2>8, <2>10, <2>11
<1> QED BY <1>2, <1>11, <1>12 DEF c

\* A tick while the first task finishes does not end its slot.
LEMMA AgainTick ==
  ASSUME Proportions, BedTyped, IInv, Again, BedTick
  PROVE  Again'
<1> DEFINE c == procs[1]
<1>1. /\ Nice \in Int /\ Work \in Int /\ Slack \in Int /\ Work + Slack < 2 * Nice
      /\ 1 \in Pids /\ 2 \in Pids /\ 3 \in Pids
  BY Sizes, WorkAssumption DEF Proportions
<1>2. /\ ~halted /\ current = 1 /\ c.parent = 0 /\ Only({1, 2, 3})
      /\ c.slot = 2 * Nice - c.act /\ Spent
      /\ \/ prog[1] = "count0" /\ procs[2].state = "zombie" /\ procs[2].parent = 1
         \/ prog[1] = "wait2" /\ procs[2] = NoTask /\ left[1] = 0
  BY DEF Again
<1>3. /\ c \in Task /\ prog' = prog
      /\ left'[2] = left[2] /\ left'[3] = left[3]
      /\ \/ Counting /\ other' = other /\ left'[1] = left[1] - 1
         \/ ~Counting /\ other < Slack /\ other' = other + 1 /\ left'[1] = left[1]
      /\ \/ /\ c.slot > 1 /\ current' = current /\ halted' = halted
            /\ procs' = [procs EXCEPT ![1] = Ticked(c)]
         \/ c.slot = 1
  BY <1>1, <1>2, BedTickIs
<1>4. /\ c.slot \in Int /\ c.act \in Int /\ left[1] \in Int /\ left[1] >= 0 /\ left[1] <= Work
      /\ other \in Int /\ other >= 0 /\ other <= Slack
  BY <1>1, <1>2, Left, Fields, CurrentRuns
<1>5. procs \in [Pids -> Task \cup {NoTask}]
  BY DEF IInv, TypeOK
<1>6. Counting => left[1] > 0 /\ prog[1] # "wait2"
  BY <1>2 DEF Counting
<1>7. ~Counting => left[1] = 0
  BY <1>2, <1>4 DEF Counting
<1>8. c.act <= other + (Work - left[1])
  BY <1>2 DEF Spent
<1>9. c.slot # 1
  BY <1>1, <1>2, <1>3, <1>4, <1>6, <1>7, <1>8
<1> HIDE DEF c
<1>10. /\ procs'[1] = Ticked(c) /\ procs'[2] = procs[2] /\ procs'[3] = procs[3]
       /\ \A p \in Pids \ {1, 2, 3} : procs'[p] = procs[p]
  BY <1>1, <1>3, <1>5, <1>9
<1>11. procs'[1].slot = c.slot - 1 /\ procs'[1].parent = 0 /\ procs'[1].act = c.act + 1
  BY <1>2, <1>3, <1>10, TickedIs
<1>12. procs'[1].slot = 2 * Nice - procs'[1].act
  BY <1>1, <1>2, <1>4, <1>11
<1>13. Spent'
  BY <1>1, <1>3, <1>4, <1>8, <1>11 DEF Spent
<1>14. Only({1, 2, 3})'
  BY <1>2, <1>10 DEF Only
<1>15. prog[1] = "wait2" => left'[1] = left[1]
  BY <1>3, <1>6
<1> QED BY <1>2, <1>3, <1>9, <1>10, <1>11, <1>12, <1>13, <1>14, <1>15 DEF Again

\* Whoever is chosen is one of the tasks there are.
LEMMA DispatchOnly ==
  ASSUME NEW t, NEW k, Typed(t), Dispatch(t, k),
         1 \in Pids, 3 \in Pids, \A p \in Pids \ {1, 3} : t[p] = NoTask
  PROVE  Only({1, 3})' /\ (~halted' => current' \in {1, 3})
<1>1. CASE Ready(t) = {}
  BY <1>1 DEF Dispatch, Only
<1>2. CASE Ready(t) # {}
  <2> DEFINE n == FindLowest(t)
  <2>1. n \in Ready(t)
    BY <1>2, FindsReady
  <2>2. procs' = [t EXCEPT ![n].state = "running"] /\ current' = n
    BY <1>2 DEF Dispatch
  <2>3. n \in Pids /\ t[n] # NoTask
    BY <2>1 DEF Ready, Has, In
  <2> HIDE DEF n
  <2>4. n \in {1, 3}
    BY <2>3
  <2> QED BY <2>2, <2>3, <2>4 DEF Typed, Only
<1> QED BY <1>1, <1>2

LEMMA YieldedTask ==
  ASSUME NEW c \in Task, c.slot \in Int
  PROVE  Yielded(c) \in Task
<1>1. c.act + 1 \in Nat /\ c.nice \in -Nice .. Nice - 1 /\ c.quantum \in Nat
  BY DEF Task
<1>2. Weight(c.nice) * (c.act + 1) \in Nat
  BY <1>1, PriorityNat
<1> QED BY <1>1, <1>2 DEF Yielded, Ticked, Task

\* A tick when only the first and the third task are left.
LEMMA LateTick ==
  ASSUME Proportions, BedTyped, IInv, Late, BedTick
  PROVE  Late'
<1> DEFINE c == procs[current]
<1>1. 1 \in Pids /\ 2 \in Pids /\ 3 \in Pids /\ Work \in Int
  BY Sizes
<1>2. /\ ~halted /\ current \in Pids /\ c \in Task /\ prog' = prog
      /\ \A p \in Pids \ {current} : left'[p] = left[p]
      /\ \/ Counting /\ left'[current] = left[current] - 1
         \/ left'[current] = left[current]
      /\ \/ /\ current' = current /\ halted' = halted
            /\ procs' = [procs EXCEPT ![current] = Ticked(c)]
         \/ Dispatch([procs EXCEPT ![current] = Yielded(c)], ctl)
      /\ IInv'
  BY BedTickIs
<1>3. /\ current \in {1, 3} /\ Only({1, 3}) /\ left[1] = 0 /\ left[2] = 0 /\ left[3] < Work
      /\ \A p \in {1, 3} : prog[p] \notin {"fork1", "fork2", "error"}
  BY <1>2 DEF Late
<1>4. procs \in [Pids -> Task \cup {NoTask}]
  BY DEF IInv, TypeOK
<1>5. left'[1] = 0 /\ left'[2] = 0 /\ left'[3] < Work
  <2>1. left[3] \in Int
    BY <1>1, Left
  <2>2. CASE Counting /\ left'[current] = left[current] - 1
    <3>1. left[current] > 0
      BY <2>2 DEF Counting
    <3>2. left[1] = 0 /\ left[2] = 0 /\ left[3] < Work /\ current \in {1, 3}
      BY <1>3
    <3>3. current = 3
      BY <3>1, <3>2
    <3>4. \A p \in Pids \ {3} : left'[p] = left[p]
      BY <1>2, <3>3
    <3>5. left'[3] = left[3] - 1
      BY <2>2, <3>3
    <3> QED BY <1>1, <2>1, <3>2, <3>4, <3>5
  <2> QED BY <1>1, <1>2, <1>3, <2>2
<1> HIDE DEF c
<1>6. Only({1, 3})' /\ (~halted' => current' \in {1, 3})
  <2>1. CASE /\ current' = current /\ halted' = halted
             /\ procs' = [procs EXCEPT ![current] = Ticked(c)]
    BY <1>3, <1>4, <2>1 DEF Only
  <2>2. CASE Dispatch([procs EXCEPT ![current] = Yielded(c)], ctl)
    <3> DEFINE t == [procs EXCEPT ![current] = Yielded(c)]
    <3>1. \A p \in Pids \ {1, 3} : t[p] = NoTask
      BY <1>3, <1>4 DEF Only
    <3>2. Typed(t)
      <4>1. Yielded(c) \in Task
        BY <1>2, YieldedTask DEF Task
      <4> QED BY <1>2, <1>4, <4>1 DEF Typed
    <3> HIDE DEF t
    <3> QED BY <1>1, <2>2, <3>1, <3>2, DispatchOnly DEF t
  <2> QED BY <1>2, <2>1, <2>2
<1> QED BY <1>2, <1>3, <1>5, <1>6 DEF Late

\* The two forks take the pids 2 and 3.
LEMMA LowestIs ==
  ASSUME NEW S \in SUBSET Pids, NEW n \in S, \A x \in S : n <= x
  PROVE  Lowest(S) = n
<1>1. Lowest(S) \in S /\ Lowest(S) <= n
  <2>1. IsFiniteSet(S)
    BY PidsFinite, FS_Subset
  <2>2. S \subseteq Int
    BY DEF Pids
  <2> QED BY <2>1, <2>2, LowestIsLowest
<1>2. n <= Lowest(S)
  BY <1>1
<1>3. Lowest(S) \in Pids /\ n \in Pids
  BY <1>1
<1> QED BY <1>1, <1>2, <1>3 DEF Pids

\* A fork in the first slot.
LEMMA ForkStep ==
  ASSUME Proportions, BedTyped, IInv, First, InitFork
  PROVE  First' /\ BedTyped'
<1> DEFINE free == {x \in Pids : ~In(procs, x)}
           p == Lowest(free)
<1>1. 1 \in Pids /\ 2 \in Pids /\ 3 \in Pids
  BY Sizes
<1>2. /\ ~halted /\ halted' = halted /\ current = 1 /\ current' = current
      /\ procs' = [procs EXCEPT ![p] = NewTask(1)] /\ next' = p
      /\ UNCHANGED <<left, other>>
      /\ \/ prog[1] = "fork1" /\ prog' = [prog EXCEPT ![1] = "fork2", ![p] = "nice1"]
         \/ prog[1] = "fork2" /\ prog' = [prog EXCEPT ![1] = "count0", ![p] = "nice2"]
  BY DEF First, InitFork, Fork, At
<1>3. procs[1] # NoTask /\ procs \in [Pids -> Task \cup {NoTask}]
  BY <1>2, CurrentRuns DEF In, IInv, TypeOK
<1>4. prog \in [Pids -> Statements] /\ {"fork2", "count0", "nice1", "nice2"} \subseteq Statements
  BY DEF BedTyped, Statements
<1>5. CASE prog[1] = "fork1" /\ prog' = [prog EXCEPT ![1] = "fork2", ![p] = "nice1"]
  <2>1. left[1] = Work /\ Only({1})
    BY <1>5 DEF First
  <2>2. p = 2
    <3>1. free = Pids \ {1}
      BY <1>1, <1>3, <2>1 DEF Only, In
    <3>2. free \in SUBSET Pids /\ 2 \in free /\ \A x \in free : 2 <= x
      BY <1>1, <3>1 DEF Pids
    <3> HIDE DEF free
    <3> QED BY <3>2, LowestIs
  <2> HIDE DEF p
  <2>3. procs'[1] = procs[1] /\ procs'[2] = NewTask(1) /\ Only({1, 2})'
    BY <1>1, <1>2, <1>3, <2>1, <2>2 DEF Only
  <2>4. prog'[1] = "fork2" /\ prog'[2] = "nice1" /\ BedTyped'
    BY <1>1, <1>2, <1>4, <1>5, <2>2 DEF BedTyped
  <2> QED BY <1>2, <2>1, <2>3, <2>4 DEF First, Waiting, Spent
<1>6. CASE prog[1] = "fork2" /\ prog' = [prog EXCEPT ![1] = "count0", ![p] = "nice2"]
  <2>1. left[1] = Work /\ Only({1, 2}) /\ Waiting(2, "nice1")
    BY <1>6 DEF First
  <2>2. p = 3
    <3>1. free = Pids \ {1, 2}
      BY <1>1, <1>3, <2>1, Newcomer DEF Only, In, Waiting
    <3>2. free \in SUBSET Pids /\ 3 \in free /\ \A x \in free : 3 <= x
      BY <1>1, <3>1 DEF Pids
    <3> HIDE DEF free
    <3> QED BY <3>2, LowestIs
  <2> HIDE DEF p
  <2>3. /\ procs'[1] = procs[1] /\ procs'[2] = procs[2] /\ procs'[3] = NewTask(1)
        /\ Only({1, 2, 3})'
    BY <1>1, <1>2, <1>3, <2>1, <2>2 DEF Only
  <2>4. prog'[1] = "count0" /\ prog'[2] = prog[2] /\ prog'[3] = "nice2" /\ BedTyped'
    BY <1>1, <1>2, <1>4, <1>6, <2>2 DEF BedTyped
  <2> QED BY <1>2, <2>1, <2>3, <2>4 DEF First, Waiting, Spent
<1> QED BY <1>2, <1>5, <1>6

\* Nobody else calls sched_fork, and SIGVTALRM stays blocked after it failed.
LEMMA ForkOnlyFirst ==
  ASSUME IInv, First \/ Second \/ Third \/ Again \/ Late, At("fork1") \/ At("fork2")
  PROVE  First
<1>1. ~halted /\ prog[current] \in {"fork1", "fork2"}
  BY DEF At, Running
<1>2. CASE Second
  BY <1>1, <1>2 DEF Second
<1>3. CASE Third
  BY <1>1, <1>3 DEF Third
<1>4. CASE Again
  BY <1>1, <1>4 DEF Again
<1>5. CASE Late
  BY <1>1, <1>5 DEF Late
<1> QED BY <1>2, <1>3, <1>4, <1>5

\* A fork that fails happens in the first slot, before any loop.
LEMMA ForkErrorStep ==
  ASSUME Proportions, BedTyped, First, InitForkError
  PROVE  Failed' /\ BedTyped'
<1>1. 1 \in Pids /\ 2 \in Pids /\ 3 \in Pids
  BY Sizes
<1>2. /\ current = 1 /\ UNCHANGED <<current, procs, ctl, left, other>>
      /\ prog[1] \in {"fork1", "fork2"} /\ prog' = [prog EXCEPT ![1] = "error"]
  BY DEF First, InitForkError, ForkNoStack, At, Step
<1>5. masked' /\ ctl[1] = "user"
  BY DEF First, InitForkError, ForkNoStack, At, Running
<1>3. prog'[1] = "error" /\ prog'[2] = prog[2] /\ BedTyped'
  <2>1. prog \in [Pids -> Statements] /\ "error" \in Statements
    BY DEF BedTyped, Statements
  <2>2. prog' = [prog EXCEPT ![1] = "error"] /\ left' = left /\ other' = other
    BY <1>2
  <2>3. prog' \in [Pids -> Statements] /\ prog'[1] = "error" /\ prog'[2] = prog[2]
    BY <1>1, <2>1, <2>2
  <2> QED BY <2>2, <2>3 DEF BedTyped
<1>4. left[1] = Work /\ left[2] = Work /\ left[3] = Work /\ (procs[2] = NoTask \/ prog[2] = "nice1")
  <2>1. prog[1] # "count0"
    BY <1>2
  <2> QED BY <1>1, <2>1 DEF First, Only, Waiting
<1> QED BY <1>2, <1>3, <1>4, <1>5 DEF Failed

\* After a failed fork only exit(1) is left.
LEMMA FailedStep ==
  ASSUME BedTyped, Failed, BedNext
  PROVE  Failed' /\ BedTyped'
<1>1. Abort
  BY DEF Failed, BedNext, BedTick, Tick, InitFork, InitForkError, Child1Nice, Child2Nice,
         Child1Exit, Child2Exit, ParentWait, ParentExit, Return, At, Running,
         ForkReturn, WaitRead, WaitClear
<1> QED BY <1>1 DEF Abort, Failed, BedTyped, bedVars

\* What sched_nice sets, and what it leaves alone.
LEMMA NiceIs ==
  ASSUME IInv, BedTyped, ~halted, NEW n \in Int, NEW s \in Statements,
         SetNice(n), Step(s), UNCHANGED <<left, other>>
  PROVE  /\ current' = current /\ halted' = halted
         /\ \A p \in Pids \ {current} : procs'[p] = procs[p] /\ prog'[p] = prog[p]
         /\ procs'[current].parent = procs[current].parent
         /\ procs'[current].act = procs[current].act
         /\ procs'[current].nice = Clamp(n)
         /\ procs'[current].quantum = Nice - Clamp(n)
         /\ procs'[current].slot = Nice - Clamp(n)
         /\ prog'[current] = s /\ BedTyped'
<1>1. /\ procs' = [procs EXCEPT ![current].nice = Clamp(n),
                                ![current].quantum = Nice - Clamp(n),
                                ![current].dyn = Weight(Clamp(n)) * procs[current].act,
                                ![current].slot = Nice - Clamp(n)]
      /\ UNCHANGED <<current, halted>>
  BY DEF SetNice
<1>2. current \in Pids /\ procs[current] \in Task /\ procs \in [Pids -> Task \cup {NoTask}]
  BY CurrentRuns DEF IInv, TypeOK
<1>3. prog \in [Pids -> Statements] /\ prog' = [prog EXCEPT ![current] = s]
  BY DEF BedTyped, Step
<1>4. prog'[current] = s /\ (\A p \in Pids \ {current} : prog'[p] = prog[p]) /\ BedTyped'
  BY <1>2, <1>3 DEF BedTyped
<1>5. \A p \in Pids \ {current} : procs'[p] = procs[p]
  BY <1>1, <1>2
<1>6. /\ procs'[current].parent = procs[current].parent
      /\ procs'[current].act = procs[current].act
      /\ procs'[current].nice = Clamp(n)
      /\ procs'[current].quantum = Nice - Clamp(n)
      /\ procs'[current].slot = Nice - Clamp(n)
  BY <1>1, <1>2 DEF Task
<1> QED BY <1>1, <1>4, <1>5, <1>6

\* The second task makes its slot twice as long, the third as short as can be.
LEMMA NiceStep ==
  ASSUME Proportions, BedTyped, IInv, First \/ Second \/ Third \/ Again \/ Late,
         Child1Nice \/ Child2Nice
  PROVE  (Second \/ Third \/ Late)' /\ BedTyped' /\ IInv'
<1>1. /\ Nice \in Int /\ Work \in Int /\ Nice >= 3 /\ 1 \in Pids /\ 2 \in Pids /\ 3 \in Pids
  BY Sizes
<1>2. /\ ~halted /\ UNCHANGED <<left, other>>
      /\ \/ prog[current] = "nice1" /\ SetNice(-Nice) /\ Step("count1")
         \/ prog[current] = "nice2" /\ SetNice(Nice) /\ Step("count2")
  BY DEF Child1Nice, Child2Nice, At, Running
<1>3. PICK n \in {-Nice, Nice}, s \in {"count1", "count2"} :
        /\ SetNice(n) /\ Step(s)
        /\ \/ n = -Nice /\ s = "count1" /\ prog[current] = "nice1"
           \/ n = Nice /\ s = "count2" /\ prog[current] = "nice2"
  BY <1>2
<1>4. n \in Int /\ s \in Statements
  BY <1>1, <1>3 DEF Statements
<1>5. /\ current' = current /\ halted' = halted
      /\ \A p \in Pids \ {current} : procs'[p] = procs[p] /\ prog'[p] = prog[p]
      /\ procs'[current].parent = procs[current].parent
      /\ procs'[current].act = procs[current].act
      /\ procs'[current].nice = Clamp(n)
      /\ procs'[current].quantum = Nice - Clamp(n)
      /\ procs'[current].slot = Nice - Clamp(n)
      /\ prog'[current] = s /\ BedTyped'
  BY <1>2, <1>3, <1>4, NiceIs
<1>6. IInv'
  BY <1>3, <1>4, SetNiceInv
<1>7. /\ n = -Nice => Nice - Clamp(n) = 2 * Nice
      /\ n = Nice => Clamp(n) = Nice - 1 /\ Nice - Clamp(n) = 1
  BY <1>1 DEF Clamp
<1>8. ~First /\ ~Again
  BY <1>3 DEF First, Again
<1>9. CASE Second
  <2>1. /\ current = 2 /\ Interrupted /\ Waiting(3, "nice2") /\ procs[2].parent = 1
        /\ prog[2] = "nice1" /\ left[2] = Work /\ n = -Nice /\ s = "count1"
    BY <1>3, <1>9 DEF Second
  <2>2. /\ procs'[1] = procs[1] /\ procs'[3] = procs[3] /\ prog'[1] = prog[1] /\ prog'[3] = prog[3]
        /\ \A p \in Pids \ {1, 2, 3} : procs'[p] = procs[p]
        /\ procs'[2].parent = 1 /\ procs'[2].slot = 2 * Nice /\ prog'[2] = "count1"
    BY <1>1, <1>5, <1>7, <2>1
  <2>3. Interrupted' /\ Waiting(3, "nice2")'
    BY <1>2, <2>1, <2>2 DEF Interrupted, Waiting, Only, Spent
  <2>4. procs'[2].slot >= 2 * Nice - other' - (Work - left'[2])
    BY <1>1, <1>2, <2>1, <2>2, Left
  <2> QED BY <1>2, <1>5, <1>6, <2>1, <2>2, <2>3, <2>4 DEF Second
<1>10. CASE Third
  <2>1. /\ current = 3 /\ Interrupted /\ prog[3] = "nice2" /\ n = Nice /\ s = "count2"
        /\ procs[2].state = "zombie" /\ procs[2].parent = 1 /\ left[2] = 0
        /\ procs[3].parent = 1 /\ 2 * procs[3].act <= Nice
        /\ procs[3].act - other <= Work - left[3] /\ Work - left[3] <= procs[3].act
    BY <1>3, <1>10 DEF Third
  <2>2. /\ procs'[1] = procs[1] /\ procs'[2] = procs[2] /\ prog'[1] = prog[1]
        /\ \A p \in Pids \ {1, 2, 3} : procs'[p] = procs[p]
        /\ procs'[3].parent = 1 /\ procs'[3].act = procs[3].act
        /\ procs'[3].slot = 1 /\ procs'[3].quantum = 1 /\ procs'[3].nice = Nice - 1
        /\ prog'[3] = "count2"
    BY <1>1, <1>5, <1>7, <2>1
  <2>3. Interrupted'
    BY <1>2, <2>1, <2>2 DEF Interrupted, Only, Spent
  <2> QED BY <1>2, <1>5, <1>6, <2>1, <2>2, <2>3 DEF Third
<1>11. CASE Late
  <2>1. current \in {1, 3} /\ Only({1, 3}) /\ s \notin {"fork1", "fork2", "error"}
    BY <1>2, <1>3, <1>11 DEF Late
  <2>2. Only({1, 3})' /\ \A p \in {1, 3} : prog'[p] \notin {"fork1", "fork2", "error"}
    BY <1>1, <1>5, <1>11, <2>1 DEF Only, Late
  <2> QED BY <1>2, <1>5, <1>6, <1>11, <2>1, <2>2 DEF Late
<1> QED BY <1>8, <1>9, <1>10, <1>11

\* The second task leaves a zombie, and the third begins, which has no time on
\* its account.
LEMMA SecondExit ==
  ASSUME Proportions, BedTyped, IInv, Second, Child1Exit
  PROVE  Third'
<1> DEFINE t == [procs EXCEPT ![2].state = "zombie", ![2].exit = 1]
<1>1. /\ Nice \in Int /\ Work \in Int /\ Nice >= 3 /\ Slack \in Int
      /\ 1 \in Pids /\ 2 \in Pids /\ 3 \in Pids
  BY Sizes
<1>2. /\ ~halted /\ current = 2 /\ procs[2].parent = 1 /\ Interrupted /\ Waiting(3, "nice2")
      /\ prog[2] = "count1" /\ ~Counting /\ UNCHANGED bedVars
  BY DEF Second, Child1Exit, At
<1>3. left[2] = 0
  <2>1. left[2] \in Int /\ left[2] >= 0
    BY <1>1, Left
  <2>2. ~(left[2] > 0)
    BY <1>2 DEF Counting
  <2> QED BY <2>1, <2>2
<1>4. Dispatch(t, ctl)
  <2>1. ~Has(procs, 1, "sleeping")
    BY <1>2 DEF Interrupted, Has
  <2> QED BY <1>2, <2>1 DEF Child1Exit, Exit
<1>5. procs[2] \in Task /\ procs \in [Pids -> Task \cup {NoTask}]
  BY <1>2, CurrentRuns DEF IInv, TypeOK
<1>6. /\ t[1] = procs[1] /\ t[3] = NewTask(1)
      /\ t[2].state = "zombie" /\ t[2].parent = 1
      /\ \A p \in Pids \ {1, 2, 3} : t[p] = NoTask
      /\ t[1] # NoTask /\ t[1].state = "ready"
  BY <1>1, <1>2, <1>5 DEF Interrupted, Waiting, Only, Task, NoTask
<1>7. t[1].dyn \in Int /\ t[1].dyn > 0
  <2>1. In(procs, 1)
    BY <1>1, <1>6 DEF In
  <2>2. t[1].dyn = Weight(0) * Nice
    BY <1>1, <1>2, <1>6, <2>1, Fields DEF Interrupted
  <2>3. Weight(0) = Nice + 1
    BY <1>1 DEF Weight
  <2>4. (Nice + 1) * Nice > 0 /\ (Nice + 1) * Nice \in Int
    BY <1>1, Scale
  <2> QED BY <2>2, <2>3, <2>4
<1> HIDE DEF t
<1>8. Ready(t) = {1, 3}
  BY <1>1, <1>6, Newcomer DEF Ready, Has, In
<1>9. procs' = [t EXCEPT ![3].state = "running"] /\ current' = 3 /\ halted' = halted
  <2>1. t[3].dyn = 0
    BY <1>6, Newcomer
  <2>2. \A p \in Ready(t) \ {3} : t[3].dyn < t[p].dyn
    BY <1>7, <1>8, <2>1
  <2>3. \A p \in Ready(t) : t[p].dyn \in Int
    BY <1>7, <1>8, <2>1
  <2> QED BY <1>4, <1>8, <2>2, <2>3, SwitchTo
<1>10. /\ procs'[1] = procs[1] /\ procs'[2].state = "zombie" /\ procs'[2].parent = 1
       /\ procs'[3].parent = 1 /\ procs'[3].act = 0 /\ procs'[3].slot = Nice
       /\ \A p \in Pids \ {1, 2, 3} : procs'[p] = NoTask
  <2>1. t \in [Pids -> {t[2]} \cup Task \cup {NoTask}]
    BY <1>1, <1>5 DEF t
  <2>2. procs'[3] = [NewTask(1) EXCEPT !.state = "running"]
    BY <1>1, <1>6, <1>9, <2>1
  <2>3. procs'[3].parent = 1 /\ procs'[3].act = 0 /\ procs'[3].slot = Nice
    BY <2>2 DEF NewTask
  <2> QED BY <1>1, <1>6, <1>9, <2>1, <2>3
<1>11. UNCHANGED <<prog, left, other>> /\ prog[3] = "nice2" /\ left[3] = Work
       /\ other \in Int /\ other >= 0
  BY <1>1, <1>2, Left DEF Waiting, bedVars
<1>12. Interrupted'
  BY <1>2, <1>10, <1>11 DEF Interrupted, Only, Spent
<1> QED BY <1>1, <1>2, <1>3, <1>9, <1>10, <1>11, <1>12 DEF Third

\* An exit of one of the last two tasks.
LEMMA LateExit ==
  ASSUME Proportions, BedTyped, IInv, Late, NEW code \in Int, Exit(code), UNCHANGED bedVars
  PROVE  Late'
<1> DEFINE p == procs[current].parent
           t == [procs EXCEPT ![p].childExit = code, ![p].state = "ready", ![current] = NoTask]
           u == [procs EXCEPT ![current].state = "zombie", ![current].exit = code]
<1>1. 1 \in Pids /\ 2 \in Pids /\ 3 \in Pids
  BY Sizes
<1>2. /\ ~halted
      /\ \/ Has(procs, p, "sleeping") /\ Dispatch(t, ctl)
         \/ Dispatch(u, ctl)
  BY DEF Exit, Running
<1>3. current \in Pids /\ procs[current] \in Task /\ procs \in [Pids -> Task \cup {NoTask}]
  BY <1>2, CurrentRuns DEF IInv, TypeOK
<1>4. /\ current \in {1, 3} /\ Only({1, 3}) /\ UNCHANGED <<prog, left>>
  BY <1>2 DEF Late, bedVars
<1>5. Only({1, 3})' /\ (~halted' => current' \in {1, 3})
  <2>1. CASE Dispatch(u, ctl)
    <3>1. Typed(u) /\ \A x \in Pids \ {1, 3} : u[x] = NoTask
      BY <1>3, <1>4 DEF Typed, Task, Only
    <3> HIDE DEF u
    <3> QED BY <1>1, <2>1, <3>1, DispatchOnly
  <2>2. CASE Has(procs, p, "sleeping") /\ Dispatch(t, ctl)
    <3>1. p \in Pids /\ procs[p] \in Task /\ procs[p] # NoTask
      BY <1>3, <2>2 DEF Has, In
    <3> HIDE DEF p
    <3>2. p \in {1, 3}
      BY <1>4, <3>1 DEF Only
    <3>3. Typed(t) /\ \A x \in Pids \ {1, 3} : t[x] = NoTask
      BY <1>3, <1>4, <3>1, <3>2 DEF Typed, Task, Only
    <3> HIDE DEF t
    <3> QED BY <1>1, <2>2, <3>3, DispatchOnly
  <2> QED BY <1>2, <2>1, <2>2
<1> QED BY <1>4, <1>5 DEF Late

\* The first task cannot be through with its loop in its first slot, nor the
\* third with its own before it is overtaken.
LEMMA ExitStep ==
  ASSUME Proportions, BedTyped, IInv, First \/ Second \/ Third \/ Again \/ Late,
         Child1Exit \/ Child2Exit \/ ParentExit
  PROVE  (Third \/ Late)' /\ BedTyped' /\ IInv'
<1>1. /\ Nice \in Int /\ Work \in Int /\ Slack \in Int /\ Nice >= 3 /\ Nice < Work
      /\ 1 \in Pids /\ 2 \in Pids /\ 3 \in Pids
  BY Sizes
<1>2. ~halted /\ prog[current] \in {"count1", "count2", "exit0"} /\ UNCHANGED bedVars
  BY DEF Child1Exit, Child2Exit, ParentExit, At, Running
<1>3. PICK code \in {0, 1, 2} : Exit(code)
  BY DEF Child1Exit, Child2Exit, ParentExit
<1>4. IInv'
  BY <1>3, ExitInv
<1>5. BedTyped'
  BY <1>2 DEF BedTyped, bedVars
<1>6. ~First /\ ~Again
  BY <1>2 DEF First, Again
<1>7. CASE Second
  <2>1. Child1Exit
    BY <1>7 DEF Second, Child1Exit, Child2Exit, ParentExit, At
  <2> QED BY <1>4, <1>5, <1>7, <2>1, SecondExit
<1>8. ~Third
  <2> SUFFICES ASSUME Third PROVE FALSE
    OBVIOUS
  <2>1. current = 3 /\ In(procs, 3)
    BY <1>2, CurrentRuns DEF Third
  <2>2. /\ 2 * procs[3].act <= Nice /\ Work - left[3] <= procs[3].act /\ procs[3].act \in Int
        /\ procs[3].act >= 0
    BY <1>1, <2>1, Fields DEF Third
  <2>3. left[3] \in Int /\ left[3] > 0
    BY <1>1, <2>2, Left
  <2>4. prog[3] = "count2" /\ ~Counting
    BY <1>2, <2>1 DEF Third, Child1Exit, Child2Exit, ParentExit, At
  <2> QED BY <2>1, <2>3, <2>4 DEF Counting
<1>9. CASE Late
  <2>1. code \in Int
    BY <1>3
  <2> QED BY <1>2, <1>3, <1>4, <1>5, <1>9, <2>1, LateExit
<1> QED BY <1>6, <1>7, <1>8, <1>9

\* The first sched_wait finds the zombie of the second task, the second one
\* sleeps for the third.
LEMMA AgainWait ==
  ASSUME Proportions, BedTyped, IInv, Again, ParentWait
  PROVE  (Again \/ Late)' /\ BedTyped' /\ IInv'
<1>1. 1 \in Pids /\ 2 \in Pids /\ 3 \in Pids
  BY Sizes
<1>2. /\ ~halted /\ current = 1 /\ UNCHANGED <<left, other>>
      /\ \/ prog[1] = "count0" /\ ~Counting /\ Step("wait2")
         \/ prog[1] = "wait2" /\ Step("exit0")
      /\ WaitZombie \/ WaitSleep
  BY DEF Again, ParentWait, At
<1>3. prog \in [Pids -> Statements] /\ "wait2" \in Statements /\ "exit0" \in Statements
  BY DEF BedTyped, Statements
<1>4. /\ procs \in [Pids -> Task \cup {NoTask}] /\ procs[1] # NoTask
      /\ procs[1].parent = 0 /\ Only({1, 2, 3}) /\ procs[3].state = "ready"
  BY <1>2, CurrentRuns DEF Again, IInv, TypeOK, In
<1>5. IInv'
  BY <1>2, WaitZombieInv, WaitSleepInv
<1>6. CASE prog[1] = "count0" /\ ~Counting /\ Step("wait2")
  <2>1. procs[2].state = "zombie" /\ procs[2].parent = 1
    BY <1>6 DEF Again
  <2>2. Zombies(procs, 1) = {2}
    BY <1>1, <1>4, <2>1 DEF Zombies, Children, Only, In, NoTask
  <2>3. WaitZombie
    BY <1>2, <2>2 DEF WaitSleep
  <2>4. Lowest({2}) = 2
    BY DEF Lowest
  <2>5. procs' = [procs EXCEPT ![2] = NoTask] /\ UNCHANGED <<current, halted>>
    BY <1>2, <2>2, <2>3, <2>4 DEF WaitZombie
  <2>6. prog' = [prog EXCEPT ![1] = "wait2"]
    BY <1>2, <1>6 DEF Step
  <2>7. /\ prog'[1] = "wait2" /\ prog'[3] = prog[3] /\ BedTyped'
    BY <1>1, <1>2, <1>3, <2>6 DEF BedTyped
  <2>8. left[1] = 0
    <3>1. left[1] \in Int /\ left[1] >= 0 /\ ~(left[1] > 0)
      BY <1>1, <1>2, <1>6, Left DEF Counting
    <3> QED BY <3>1
  <2>9. procs'[1] = procs[1] /\ procs'[2] = NoTask /\ procs'[3] = procs[3] /\ Only({1, 2, 3})'
    BY <1>1, <1>4, <2>5 DEF Only
  <2>10. Again'
    BY <1>2, <2>5, <2>7, <2>8, <2>9 DEF Again, Spent
  <2> QED BY <1>5, <2>7, <2>10
<1>7. CASE prog[1] = "wait2" /\ Step("exit0")
  <2>1. procs[2] = NoTask /\ left[1] = 0
    BY <1>7 DEF Again
  <2>2. Zombies(procs, 1) = {}
    BY <1>1, <1>4, <2>1 DEF Zombies, Children, Only, In, NoTask
  <2>3. WaitSleep
    BY <1>2, <2>2 DEF WaitZombie
  <2>4. prog' = [prog EXCEPT ![1] = "exit0"]
    BY <1>2, <1>7 DEF Step
  <2>5. prog'[1] = "exit0" /\ prog'[3] = "count2" /\ BedTyped'
    BY <1>1, <1>2, <1>3, <2>4 DEF BedTyped, Again
  <2> DEFINE t == [procs EXCEPT ![1].state = "sleeping"]
             k == [ctl EXCEPT ![1] = "asleep"]
  <2>6. Dispatch(t, k)
    BY <1>2, <2>3 DEF WaitSleep
  <2>7. Typed(t) /\ \A p \in Pids \ {1, 3} : t[p] = NoTask
    BY <1>1, <1>4, <2>1 DEF Typed, Only, Task
  <2> HIDE DEF t, k
  <2>8. Only({1, 3})' /\ (~halted' => current' \in {1, 3})
    BY <1>1, <2>6, <2>7, DispatchOnly
  <2>9. left'[1] = 0 /\ left'[2] = 0 /\ left'[3] < Work
    BY <1>2, <2>1 DEF Again
  <2>10. Late'
    BY <2>5, <2>8, <2>9 DEF Late
  <2> QED BY <1>5, <2>5, <2>10
<1> QED BY <1>2, <1>6, <1>7

\* A wait when only the first and the third task are left.
LEMMA LateWait ==
  ASSUME Proportions, BedTyped, IInv, Late, ParentWait
  PROVE  Late' /\ BedTyped' /\ IInv'
<1> DEFINE t == [procs EXCEPT ![current].state = "sleeping"]
           k == [ctl EXCEPT ![current] = "asleep"]
           z == Lowest(Zombies(procs, current))
<1>1. 1 \in Pids /\ 2 \in Pids /\ 3 \in Pids
  BY Sizes
<1>2. PICK s \in {"wait2", "exit0"} : Step(s) /\ ~halted /\ UNCHANGED <<left, other>>
  BY DEF ParentWait, At, Running
<1>3. WaitZombie \/ WaitSleep
  BY DEF ParentWait
<1>4. /\ current \in Pids /\ procs[current] \in Task /\ current \in {1, 3} /\ Only({1, 3})
      /\ procs \in [Pids -> Task \cup {NoTask}]
  BY <1>2, CurrentRuns DEF IInv, TypeOK, Late
<1>5. IInv'
  BY <1>3, WaitZombieInv, WaitSleepInv
<1>6. prog' = [prog EXCEPT ![current] = s] /\ prog \in [Pids -> Statements] /\ s \in Statements
  BY <1>2 DEF Step, BedTyped, Statements
<1>7. BedTyped'
  BY <1>2, <1>4, <1>6 DEF BedTyped
<1>8. \A p \in {1, 3} : prog'[p] \notin {"fork1", "fork2", "error"}
  <2>1. s \notin {"fork1", "fork2", "error"}
    BY <1>2
  <2> QED BY <1>1, <1>4, <1>6, <2>1 DEF Late
<1>9. Only({1, 3})' /\ (~halted' => current' \in {1, 3})
  <2>1. CASE WaitZombie
    <3>1. procs' = [procs EXCEPT ![z] = NoTask] /\ current' = current
      BY <2>1 DEF WaitZombie
    <3> QED BY <1>4, <3>1 DEF Only
  <2>2. CASE WaitSleep
    <3>1. Dispatch(t, k)
      BY <2>2 DEF WaitSleep
    <3>2. Typed(t) /\ \A p \in Pids \ {1, 3} : t[p] = NoTask
      BY <1>1, <1>4 DEF Typed, Only, Task
    <3> HIDE DEF t, k
    <3> QED BY <1>1, <3>1, <3>2, DispatchOnly
  <2> QED BY <1>3, <2>1, <2>2
<1> QED BY <1>2, <1>5, <1>7, <1>8, <1>9 DEF Late

\* The first task cannot come to its sched_wait in its first slot.
LEMMA WaitStep ==
  ASSUME Proportions, BedTyped, IInv, First \/ Second \/ Third \/ Again \/ Late, ParentWait
  PROVE  (Again \/ Late)' /\ BedTyped' /\ IInv'
<1>1. /\ Nice \in Int /\ Work \in Int /\ Slack \in Int /\ Nice < Work
      /\ 1 \in Pids /\ 2 \in Pids /\ 3 \in Pids
  BY Sizes
<1>2. ~halted /\ (prog[current] = "wait2" \/ (prog[current] = "count0" /\ ~Counting))
  BY DEF ParentWait, At, Running
<1>3. ~Second /\ ~Third
  BY <1>2 DEF Second, Third
<1>4. ~First
  <2> SUFFICES ASSUME First PROVE FALSE
    OBVIOUS
  <2>1. current = 1 /\ In(procs, 1)
    BY <1>2, CurrentRuns DEF First
  <2>2. procs[1].act <= Nice - 1 /\ Work - left[1] <= procs[1].act /\ procs[1].act \in Int
    BY <1>1, <2>1, Fields DEF First
  <2>3. left[1] \in Int /\ left[1] > 0
    BY <1>1, <2>2, Left
  <2>4. prog[1] = "count0" /\ ~Counting
    BY <1>2, <2>1 DEF First
  <2> QED BY <2>1, <2>3, <2>4 DEF Counting
<1> QED BY <1>3, <1>4, AgainWait, LateWait

\* What is left of a call that has unblocked SIGVTALRM changes no phase.
LEMMA ReturnStep ==
  ASSUME Proportions, BedTyped, IInv, First \/ Second \/ Third \/ Again \/ Late, Return
  PROVE  (First \/ Second \/ Third \/ Again \/ Late)' /\ BedTyped' /\ IInv'
<1>1. 1 \in Pids /\ 2 \in Pids /\ 3 \in Pids
  BY Sizes
<1>2. /\ ~halted /\ UNCHANGED <<prog, left, other, current, halted>>
      /\ \/ procs' = procs
         \/ procs' = [procs EXCEPT ![current].childExit = 0]
  BY DEF Return, ForkReturn, WaitRead, WaitClear, Running, bedVars
<1>3. /\ current \in Pids /\ procs[current] \in Task
      /\ procs \in [Pids -> Task \cup {NoTask}]
  BY <1>2, CurrentRuns DEF IInv, TypeOK
<1>4. /\ \A p \in Pids \ {current} : procs'[p] = procs[p]
      /\ procs'[current].parent = procs[current].parent
      /\ procs'[current].nice = procs[current].nice
      /\ procs'[current].quantum = procs[current].quantum
      /\ procs'[current].act = procs[current].act
      /\ procs'[current].slot = procs[current].slot
  BY <1>2, <1>3 DEF Task
<1>5. IInv'
  BY ForkReturnInv, WaitReadInv, WaitClearInv DEF Return
<1>6. BedTyped'
  BY <1>2 DEF BedTyped
<1>7. CASE First
  <2>1. current = 1
    BY <1>7 DEF First
  <2>2. First'
    BY <1>1, <1>2, <1>4, <1>7, <2>1 DEF First, Spent, Only, Waiting
  <2> QED BY <1>5, <1>6, <2>2
<1>8. CASE Second
  <2>1. current = 2
    BY <1>8 DEF Second
  <2>2. Second'
    BY <1>1, <1>2, <1>4, <1>8, <2>1 DEF Second, Interrupted, Spent, Only, Waiting
  <2> QED BY <1>5, <1>6, <2>2
<1>9. CASE Third
  <2>1. current = 3
    BY <1>9 DEF Third
  <2>2. Third'
    BY <1>1, <1>2, <1>4, <1>9, <2>1 DEF Third, Interrupted, Spent, Only
  <2> QED BY <1>5, <1>6, <2>2
<1>10. CASE Again
  <2>1. current = 1
    BY <1>10 DEF Again
  <2>2. Again'
    BY <1>1, <1>2, <1>4, <1>10, <2>1 DEF Again, Spent, Only
  <2> QED BY <1>5, <1>6, <2>2
<1>11. CASE Late
  <2>1. current \in {1, 3}
    BY <1>2, <1>11 DEF Late
  <2>2. Late'
    BY <1>1, <1>2, <1>4, <1>11, <2>1 DEF Late, Only
  <2> QED BY <1>5, <1>6, <2>2
<1> QED BY <1>7, <1>8, <1>9, <1>10, <1>11

\* Every step of the testbed stays in a phase or leads to the next one.
LEMMA BedStep == BedInv /\ [BedNext]_allVars => BedInv'
<1> SUFFICES ASSUME BedInv, [BedNext]_allVars PROVE BedInv'
  OBVIOUS
<1> DEFINE Phases == First \/ Second \/ Third \/ Again \/ Late
<1>1. Proportions /\ BedTyped
  BY DEF BedInv
<1>2. CASE UNCHANGED allVars
  BY <1>2 DEF allVars, vars, hist, bedVars, BedInv, BedTyped, Failed, IInv, TypeOK, OneRunning, Numbered,
              Stopped, First, Second, Third, Again, Late, Interrupted, Spent, Only, Waiting
<1>3. CASE BedNext /\ Failed
  BY <1>1, <1>3, FailedStep DEF BedInv
<1>4. CASE BedNext /\ IInv /\ Phases
  <2>1. CASE BedTick
    <3>1. BedTyped' /\ IInv'
      BY <1>1, <1>4, <2>1, BedTickIs
    <3>2. Phases'
      BY <1>1, <1>4, <2>1, FirstTick, SecondTick, ThirdTick, AgainTick, LateTick
    <3> QED BY <1>1, <3>1, <3>2 DEF BedInv
  <2>2. CASE InitFork
    <3>1. First
      BY <1>4, <2>2, ForkOnlyFirst DEF InitFork
    <3>2. IInv'
      BY <1>4, <2>2, ForkInv DEF InitFork
    <3> QED BY <1>1, <1>4, <2>2, <3>1, <3>2, ForkStep DEF BedInv
  <2>3. CASE InitForkError
    <3>1. First
      BY <1>4, <2>3, ForkOnlyFirst DEF InitForkError
    <3> QED BY <1>1, <2>3, <3>1, ForkErrorStep DEF BedInv
  <2>4. ~Abort
    BY <1>4 DEF Abort, At, Running, First, Second, Third, Again, Late
  <2>5. CASE Child1Nice \/ Child2Nice
    BY <1>1, <1>4, <2>5, NiceStep DEF BedInv
  <2>6. CASE Child1Exit \/ Child2Exit \/ ParentExit
    BY <1>1, <1>4, <2>6, ExitStep DEF BedInv
  <2>7. CASE ParentWait
    BY <1>1, <1>4, <2>7, WaitStep DEF BedInv
  <2>8. CASE Return
    BY <1>1, <1>4, <2>8, ReturnStep DEF BedInv
  <2> QED BY <1>4, <2>1, <2>2, <2>3, <2>4, <2>5, <2>6, <2>7, <2>8 DEF BedNext
<1> QED BY <1>2, <1>3, <1>4 DEF BedInv

LEMMA BedInitInv == Proportions /\ BedInit => BedInv
<1> SUFFICES ASSUME Proportions, BedInit PROVE BedInv
  OBVIOUS
<1>1. /\ Nice \in Int /\ Nice >= 3 /\ Work \in Nat /\ Slack \in Nat
      /\ 1 \in Pids /\ 2 \in Pids /\ 3 \in Pids
  BY Sizes
<1>2. IInv
  BY InitInv DEF BedInit
<1>3. /\ left = [p \in Pids |-> Work] /\ other = 0
      /\ prog = [p \in Pids |-> IF p = 1 THEN "fork1" ELSE "none"]
      /\ procs = [p \in Pids |-> IF p = 1 THEN [NewTask(0) EXCEPT !.state = "running"] ELSE NoTask]
      /\ current = 1 /\ ~halted
  BY DEF BedInit, Init
<1>4. BedTyped
  <2>1. {"fork1", "none"} \subseteq Statements
    BY DEF Statements
  <2>2. prog \in [Pids -> Statements]
    BY <1>3, <2>1
  <2> QED BY <1>1, <1>3, <2>2 DEF BedTyped
<1>5. Only({1}) /\ prog[1] = "fork1" /\ left[1] = Work /\ left[2] = Work /\ left[3] = Work
  BY <1>1, <1>3 DEF Only
<1>6. /\ procs[1].parent = 0 /\ procs[1].nice = 0 /\ procs[1].quantum = Nice
      /\ procs[1].act = 0 /\ procs[1].slot = Nice
  BY <1>1, <1>3 DEF NewTask
<1>7. First
  BY <1>1, <1>3, <1>5, <1>6 DEF First, Spent
<1> QED BY <1>2, <1>4, <1>7 DEF BedInv

\* In every phase the comment of testbed.c:17-22 holds.
LEMMA BedShows == BedInv => AsDescribed
<1> SUFFICES ASSUME BedInv PROVE AsDescribed
  OBVIOUS
<1>1. /\ Nice \in Int /\ Nice >= 3 /\ Work \in Int /\ Slack \in Int /\ Nice + 2 < Work
      /\ 1 \in Pids /\ 2 \in Pids /\ 3 \in Pids
  BY Sizes DEF BedInv, Proportions
<1>2. /\ left[1] \in Int /\ left[1] >= 0 /\ left[1] <= Work
      /\ left[2] \in Int /\ left[2] >= 0 /\ left[2] <= Work
      /\ left[3] \in Int /\ left[3] >= 0 /\ left[3] <= Work
  BY <1>1, Left DEF BedInv
<1>3. CASE Failed
  BY <1>1, <1>2, <1>3 DEF Failed, AsDescribed, Has, In
<1>4. CASE IInv /\ First
  <2>1. In(procs, 1) /\ current = 1
    BY <1>4, CurrentRuns DEF First
  <2>2. left[1] > 0 /\ left[2] = Work /\ left[3] = Work
    <3>1. procs[1].slot >= 1 /\ procs[1].slot \in Int
      BY <1>1, <1>4, <2>1, Fields
    <3> QED BY <1>1, <1>2, <1>4, <3>1 DEF First
  <2>3. Has(procs, 2, "ready") => prog[2] = "nice1"
    BY <1>1, <1>4 DEF First, Only, Waiting, Has, In
  <2> QED BY <1>1, <1>2, <2>2, <2>3 DEF AsDescribed
<1>5. CASE IInv /\ Second
  <2>1. procs[2].state = "running"
    BY <1>5, CurrentRuns DEF Second
  <2>2. left[1] > 0 /\ left[3] = Work
    BY <1>1, <1>2, <1>5 DEF Second, Interrupted, Waiting
  <2> QED BY <1>1, <1>2, <2>1, <2>2 DEF AsDescribed, Has
<1>6. CASE IInv /\ Third
  <2>1. procs[2].state = "zombie" /\ left[2] = 0
    BY <1>6 DEF Third
  <2>2. left[1] > 0
    BY <1>1, <1>2, <1>6 DEF Third, Interrupted
  <2>3. In(procs, 3)
    BY <1>6, CurrentRuns DEF Third
  <2>4. 2 * left[3] > Work
    <3>1. procs[3].act \in Int
      BY <1>1, <1>6, <2>3, Fields
    <3> QED BY <1>1, <1>2, <1>6, <3>1 DEF Third
  <2> QED BY <1>1, <1>2, <2>1, <2>2, <2>4 DEF AsDescribed, Has
<1>7. CASE Again
  BY <1>1, <1>2, <1>7 DEF Again, AsDescribed, Has, In
<1>8. CASE Late
  BY <1>1, <1>2, <1>8 DEF Late, Only, AsDescribed, Has, In
<1> QED BY <1>3, <1>4, <1>5, <1>6, <1>7, <1>8 DEF BedInv

\* The schedule that the comment of testbed.c:17-22 describes is the one the
\* program has, for every nice range and every length of the loops in the
\* proportions above: the second task's slot holds its whole loop, and the
\* third is overtaken before it is half done.
THEOREM BedSchedule == Proportions /\ BedSpec => []AsDescribed
<1>1. Proportions /\ BedSpec => []BedInv
  BY BedInitInv, BedStep, PTL DEF BedSpec
<1>2. BedInv => AsDescribed
  BY BedShows
<1> QED BY <1>1, <1>2, PTL
=============================================================================
