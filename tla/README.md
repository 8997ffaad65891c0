# Formal models of benschenker/SchoolProjects

The repository collects small, independent programs: exercises in operating systems (processes, signals,
pipes, sockets, a scheduler) and in data structures (hash table, heap, shortest paths, lists, dynamic
programming). Two of them are concurrent systems in their own right, the semaphores and fifo of
`Operating Systems/Project7-Semaphore_FIFO` (processes, shared memory, signals) and the preemptive scheduler of
`Operating Systems/Project9-Scheduler` (simulated tasks, a timer signal); they are the core of this development.
Three more are made of several processes (`cat | grep | more`, the shell, the network tools). The others are
sequential.

Paths below are relative to `src/`; `Pn/` stands for the directory `Operating Systems/Projectn-...`, `DS/`
for `Data Structures and Algorithms/`.

## 1. Inventory

| part | state | operations | what makes it hard |
|---|---|---|---|
| semaphores, `P7/sem.c`, `sem.h`, `tas64.S` | in shared memory: `count`, spin lock `lock`, table `q[N_PROC]` of sleeping pids; per process: installed handler, pending SIGUSR1 | `sem_init`, `sem_try`, `sem_wait`, `sem_inc`, handler `sighand` | every load, store, `tas`, `signal`, `kill` and `sigsuspend` interleaves with those of the other processes; wake-ups are signals, which do not queue; `exit(1)` with the lock held |
| fifo, `P7/fifo.c`, `main.c` | ring `addr[4096]`, wrapping `unsigned` indices `beg` and `end`, three semaphores `access`, `write`, `read` | `fifo_init`, `fifo_wr`, `fifo_rd`, the writer and reader processes | bounded buffer, several writers, termination depends on every wake-up |
| scheduler, `P9/sched.c`, `sched.h`, `savectx64.S`, `adjstack.c` | table `q.procs` by pid, `current`, `next`, per task state, nice value, quantum, time slot, accumulated time, dynamic priority, parent pid, exit codes; the mask of SIGVTALRM | `sched_init`, `sched_fork`, `sched_exit`, `sched_wait`, `sched_nice`, `sched_switch`, `sched_tick`, getters, `sched_ps` | the tick arrives between any two instructions with the signal unblocked; pids are used again; error returns |
| testbed, `P9/testbed.c` | where each of three tasks is, its loop counter | `init_fn`, `parent`, `child1`, `child2` | its schedule depends on quanta and priorities |
| cat, grep, more, `P4/catgrepmore.c` | the file and buffer, two pipes and their open ends in three processes, the counters `fproc` and `bproc` | `main`, `readwrite`, `writeit`, `sighand` | an end of a pipe nobody closes; partial writes; a pager that is quit; SIGINT between a write and the count of it; a child that is a copy with the handler still installed |
| shell, `P3/mysh.c` | the script, `progargv`, `redirs`, stdio's buffer, per child its descriptors | reading a line, `fork`, `makeredirs`, `execvp`, `wait3` | arguments that are never initialized nor ended; buffered output that is in two processes after `fork` |
| find, `P2/myfind.c` | the stack of calls with their directory streams, the options | options, `find` | the recursion relies on a value that is not returned |
| cat, `P1/copycat.c` | the argument, what is left of source and standard input, the buffer | `main`, `readwrite`, `writeit` | partial reads and writes, `-` more than once |
| TCP tools, `P6/send/tcp_send.c`, `P6/rec/tcp_recv.c` | positions in two buffers, a connection | line by line into `send`, `recv` into a file | the stream is cut anywhere; the connection is reset; the buffer pointer moves |
| UDP tools, `P6/userver/udp_server.c`, `P6/uclient/udp_client.c` | the server's buffer, ports, datagrams on their way | one question and one answer | datagrams are lost, doubled, late or of somebody else; ports are used again |
| hash table, `DS/Binary_Heap_using_Hashtable/hash.cpp` (again in `DS/Dijkstra_using_Binary_Heap`, a variant in `DS/Spellchecker_Hashtable`) | open addressing with lazy deletion: `data`, `capacity`, `filled` | `insert`, `contains`, `getPointer`, `setPointer`, `remove`, `rehash` | long sequences of calls that end in a rehash |
| binary heap, `DS/Binary_Heap_using_Hashtable/heap.cpp` | array `data`, `size`, hash table from ids to nodes | `insert`, `setKey`, `deleteMin`, `remove` | two structures that must agree after every swap |
| Dijkstra, `DS/Dijkstra_using_Binary_Heap/graph.cpp` | nodes, edges, distances, predecessors, a heap | `insert`, `dijkstra`, `out` | depends on heap and hash table |
| merge checker, `DS/Merge/merge.cpp` | table of reachable prefixes | dynamic programme and its trace back | boundaries of the table; a trace that compares no letters |
| stacks and queues, `DS/Stacks_and_Queues/StacksQueues.cpp` | named linked lists, their nodes in the heap | `create`, `push`, `pop` | `head`, `tail` and `size` after `delete`; addresses that come back |
| spell checker, `DS/Spellchecker_Hashtable/spellcheck.cpp` | dictionary, what is left of the line | splitting lines into words | word boundaries |
| kernel demonstrations (`P5/mm.c`, `P8/p5.c`, `P9/schedtest.c`) and the matrix calculator (`Computer Architecture/Matrix Calculator/femtomatlab.asm`) | | | not modelled, see section 6 |

How they interact: writers and the reader call `fifo.c`, which calls `sem.c` four times per operation,
which calls `tas` and the kernel's signals. `testbed.c` calls `sched.c`; the kernel's timer calls
`sched_tick`. `catgrepmore.c` runs as three processes that meet in two pipes; the shell and its child share
descriptors and what stdio has buffered; `tcp_send` and `tcp_recv` share a connection, `udp_client` and
`udp_server` a network. `graph.cpp` calls `heap.cpp`, which calls `hash.cpp`; the spell checker calls its own
`hash.cpp`. Nothing else interacts.

What makes each of the modelled parts correct:

* *semaphores*: units are neither lost nor invented, a caller takes one only when there is one, nobody is
  killed by the wake-up signal, and whoever sleeps is either going to be awakened or has nothing to wait for;
* *fifo*: the reader gets every writer's stream complete and in sequence, and all processes finish;
* *scheduler*: exactly one task runs, time slots never run below zero, priorities are up to date, every exit
  code reaches one parent once, and "all procs ended" is printed only when it is so;
* *cat, grep, more*: the pager shows what grep passes, in order and once; there is one pipeline at a time and
  none is left over; what is reported after a signal is what happened;
* *shell*: one command at a time, with its own words and the redirections of its line;
* *find*: exactly what the options ask for, directories before what is in them;
* *copycat, tcp*: what comes out is what went in, however the kernel cuts it; *udp*: an answer fits its question;
* *hash table*: it is a map, whatever collides, is deleted or is moved by a rehash; every probe ends;
* *heap*: it is a priority queue, and the table of ids agrees with the array;
* *shortest paths*: every distance is the least one, every path is made of edges of the file, and the heap's
  keys are the distances of the nodes at every step;
* *merge checker*: the answer is yes exactly for merges, and the merge printed is one;
* *stacks and queues*: nothing dangles, nothing leaks, and the commands are those of stacks and queues;
* *spell checker*: every wrong word is reported once, at its line, in the order of the text.

## 2. Modules

| module | models | builds on |
|---|---|---|
| `CountingSemaphore` | what the callers of `sem.h` may see: P, V and a look at the count, each atomic | |
| `Semaphore` | `sem.c` and `tas64.S`, one action per access to shared memory and per system call | `CountingSemaphore` (refinement) |
| `BoundedQueue` | what `fifo.h` promises: a queue of bounded capacity fed by streams | |
| `SemFifo` | `fifo.c` and the processes of `main.c`, with every step of the semaphores inside | `Semaphore`; `BoundedQueue` (refinement) |
| `SemaphoreProofs` | theorems about `Semaphore` and, in its second part, `SemFifo` | `SemFifo` |
| `Sched` | `sched.c`: tasks making any calls, ticks at any moment the timer is not masked | |
| `Testbed` | `testbed.c` | `Sched` |
| `SchedProofs` | theorems about `Sched`, the table and the exit codes, and in its third part about `Testbed` | `Testbed` |
| `Pipeline` | `catgrepmore.c` with its children and pipes | |
| `Shell` | `mysh.c` and the child of each line | |
| `Find` | `myfind.c` | |
| `UnixProofs` | theorems about `Pipeline` and, in its further parts, `Shell` and `Find` | `Pipeline`, `Shell`, `Find` |
| `Copycat` | `copycat.c` | |
| `TcpStream` | `tcp_send.c`, `tcp_recv.c` and their connection | |
| `Udp` | `udp_server.c`, several `udp_client.c` and the network | |
| `NetworkProofs` | theorems about `TcpStream` and, in its second part, `Udp` | `TcpStream`, `Udp` |
| `Dictionary` | what `hash.h` promises: a map from keys to pointers | |
| `HashTable` | the class `hashTable`, as operators on a table | |
| `HashMap` | any sequence of calls on a hash table | `HashTable`; `Dictionary` (refinement) |
| `HashTableProofs` | lemmas about the operators of `HashTable` | `HashTable` |
| `PriorityQueue` | what `heap.h` promises | |
| `BinaryHeap` | the class `heap` | `HashTable`; `PriorityQueue` (refinement) |
| `BinaryHeapProofs` | theorems about `BinaryHeap` | `BinaryHeap`, `HashTableProofs` |
| `Dijkstra` | `graph.cpp` and `dijkstra.cpp` | `HashTable`; the queue that `BinaryHeap` implements |
| `DijkstraProofs` | theorems about `Dijkstra` | `Dijkstra`, `HashTableProofs` |
| `Containers` | what the opening comment of `StacksQueues.cpp` promises: named stacks and queues | |
| `Lists` | `StacksQueues.cpp`, with nodes at addresses that are used again | `Containers` (refinement) |
| `Merge` | `merge.cpp` | |
| `Spell` | `spellcheck.cpp`; its table is a set, which `HashMap` justifies | |
| `ProgramProofs` | theorems about `HashMap` and, in its further parts, `Lists`, `Copycat`, `Spell` and `Merge` | these, `HashTableProofs` |
| `Programs` | one of the programs, chosen by the initial state, beside the others at rest | `Testbed`, `HashMap` and `Pipeline`, `Find`, `Shell`, `Lists`, `Merge`, `Copycat`, `TcpStream`, `Udp`, `Spell` |
| `MC...` | small instances for TLC | |

An operator whose comment begins with "Fault:" is not part of the model. It is a plausible mistake in the
operator below it; a property that still held with the mistake in place would say nothing about the code.

### Semaphores and fifo (`Semaphore`, `SemFifo`)

The variables `count`, `lock` and `q` are the fields of every `struct sem`; `pending` is the one SIGUSR1 the
kernel can hold for a process, `handler` whether it has called `signal`; `cur`, `idx` and `reg` are the
argument, the index `i` and the register of `count++` and `count--`. `pc[p]` is the process's place:

| action | code |
|---|---|
| `CallWait`, `WaitTas` | `sem.c:34-39`, the spin (`tas64.S`) |
| `WaitNonZero`, `WaitDec`, `WaitReturn` | 40, the load and the store of 66, 67 |
| `WaitZero`, `WaitFind`, `WaitHelp` | 40-55 |
| `WaitInstall`, `WaitEnqueue`, `WaitRelease` | 56-61 |
| `WaitSuspend`, `WaitWake` | entering `sigsuspend`, its return after the handler has run (62-64) |
| `CallInc`, `IncTas`, `IncLoad`, `IncStore`, `IncWake`, `IncScanned`, `IncReturn` | 70-88 |
| `CallTry`, `TryTas`, `TryTest`, `TryReturn` | 21-32 |
| `Deliver` | `sighand`, outside `sigsuspend` |

`SemFifo` adds the ring (`addr`, `beg`, `end`) and a place `at[p]` per process between the calls. A call
hands the process to the actions of `Semaphore` until `pc[p]` is "idle" again, so no step of the two files is
taken as atomic with another one.

What the model takes for granted: loads and stores of shared memory happen in program order (x86-64 keeps
the order of a process's stores, and `tas` is an `xchg`, hence a fence; the store of `lock=0` is the last of
the critical section); the compiler keeps calls and accesses in the order of the source; `fork` succeeds
(`main.c:31-33` ends the parent otherwise, which leaves the writers that exist without a reader).

### Scheduler (`Sched`, `Testbed`)

`procs` is `q.procs`, a record per pid with the fields of `struct sched_proc`; `current`, `next` and
`numticks` are the globals. Every function of `sched.c` masks SIGVTALRM on its first line, so all it does up
to `sigprocmask(SIG_UNBLOCK)` is one action, and what it does after that line is another one (`ForkReturn`,
`WaitRead`, `WaitClear`), which a `Tick` may precede. `Dispatch` is the tail of `sched_switch`: a task goes on
where it was suspended, in user code (`ctl` = "user"), as a new child, or inside `sched_wait`; this stands for
`savectx`, `restorectx` and `adjstack`. The history variables number the tasks, because a pid is used again
once its task is gone; they change no other variable. `Testbed` restricts the calls to those of `testbed.c`.

### Hash tables and heap (`HashTable`, `HashMap`, `BinaryHeap`)

A table is a record `[cap, filled, item]` and a member function an operator that gives the next table and
what is returned. `Rehash` and `NoMemory` have the two versions of the repository: "heap", where the old
capacity is in force while entries are inserted again, and "spell", where the new one is in force before the
allocation. A key is the `int` its characters are hashed to, negative values included. The heap is
`data`, `size` and `mapping`, a table of `HashTable`; the pointers in it are positions. `percolateUp` and
`percolateDown` are recursive in the code and bounded iterations of one step here, because a step that finds
the node in order changes nothing.

### Shortest paths (`Dijkstra`)

A node is its place in `nodes`, with its distance, `known`, `prev` and adjacency list; `mapping` is a table of
`HashTable`, so the graph meets its rehash as the program does. `ReadLine` is one line of the file, `Start` what
`dijkstra()` does before its loop, `VisitNext` one turn of the loop (all edges of a node) and `VisitAgain` the
last turn, after `deleteMin` has failed. The heap is the set of its nodes with their keys, and any node with
the least key may come out: `BinaryHeap` implements that, up to a rehash of its own table, which has more
than 2n entries for at most n nodes and never gets there. `setKey` finds its node by the id, as in the code,
while `dist` and `prev` are set through the pointer.

### Processes and pipes (`Pipeline`)

`cat` is the statement of `main` (and of `readwrite` and `writeit`, which it calls), `kids` what has become of
each child, `fds` the ends of pipes each process holds: end of file on a pipe means that nobody holds its write
end, and a write that nobody can read raises SIGPIPE. `Setup` is a child's `dup2` and `close` calls, which only
that child can see. A byte is its position in the file, and grep passes the positions in `Hits`.

| action | code |
|---|---|
| `SkipFile`, `OpenFile`, `MakePipes`, `PipeFails` | `catgrepmore.c:34-44` |
| `ForkGrep`, `ForkMore`, `Setup`, `ExecKid` | 45-91 |
| `CloseEnds`, `Read`, `Write`, `CountBytes` | 92-97, 123-148: `writeit` goes on with what a write has left, and `bproc` is counted after each |
| `CloseLast`, `Wait1`, `Wait2`, `EndOfArgs` | 99-120 |
| `Interrupt`, `BrokenPipe` | `sighand` (18-22), in the program and in a child that has not called exec |
| `GrepReads` ... `MoreQuits` | grep, more and its user, as the program uses them |

### The other programs

* `Shell`: `shell` and `child` are the places of the two processes. `progargv` holds pointers to tokens of this
  or an earlier line, or what the stack held; `pending` is what stdio has not written, which a child inherits
  and writes again when it ends in `exit` or `main`. Tokens are an operator and a name, as `makeredirs` sees them.
* `Find`: `stack` holds, per call of `find`, the directory and what `readdir` will still return; `Entry` is one
  turn of the loop, `FallsOff` the end of the function, which returns what the register holds.
* `Copycat`: one action per `open`, `read` and `write`, a write taking any part of its buffer.
* `TcpStream`: the connection is a bounded sequence of bytes that a reset empties; `drift` is how far `tcp_send`
  has moved its buffer pointer, `rbuf` what `tcp_recv` still has in its buffer when `fputs` looks for a 0.
* `Udp`: `requests` and `replies` are sets, which makes datagrams late and overtaken; `Serve` and `Hear` may leave
  a datagram there (duplicated), `Lose` takes one away, `Disturb` is another sender. Ports are chosen from few.
* `Merge`: `FillEntry` is one turn of the two loops; a write outside the table is only noted (`beyond`), because
  nothing reads what it hits. `TraceB`, `TraceA` and `EndTrace` are the loop that prints.
* `Lists`: a list is `head`, `tail` and `size`, a node is an address of `memory`; `new` gives any free address.
* `Spell`: `NextWord` and `Delimiter` are the two branches of the inner loop, `Verdict` what is written.

## 3. What TLC checks

All runs that are expected to pass are exhaustive for their bounds. Deadlock is not checked, because every one
of these programs may stop: clients that make no more calls, processes that have exited, a scheduler that
has called `exit(0)`, a program that has crashed, or a bound on calls that is reached; the runs of the
fifo and of the testbed check instead by liveness that nothing stops too early.

| run | question | bounds, and why they are enough |
|---|---|---|
| `sem_all` | do the three functions keep the lock, the table of sleepers and the signals consistent, and implement atomic semaphores? | 3 processes, 2 semaphores, 2 slots: one process more than slots (so "HELP!!!" happens), a sleeper, its waker and a third that interferes, wake-ups that could arrive on the other semaphore. Counts up to 2: 0, 1 and more. |
| `sem_try` | does `sem_try` take the unit it reports? | one process suffices; violated |
| `fifo_ring` | is the fifo a bounded queue, and does every run end? | 2 writers of 2 items, a ring of 2: full, empty, writers against each other; indices modulo 4 so that both wrap, as the 32-bit ones do at a multiple of 4096. 3 slots: as many as processes, as `main.c:15` ensures. |
| `fifo_hang` | does every run of `main.c` finish? | one writer, one item; violated |
| `sched_safe` | do table, slots, priorities and exit codes stay consistent under any calls and ticks? | 3 pids and 4 tasks, so that a pid is used again; `Nice` = 2, quanta 1 to 4; `sched_nice` with both ends exceeded; 3 ticks, enough to exhaust several slots |
| `sched_hang` | is "all procs ended" true when printed? | violated with four tasks |
| `sched_forkpid` | does `sched_fork` return the child's pid? | violated with one tick in the gap |
| `heap` | is the heap a priority queue? | 6 nodes with keys 0 and 1: three levels, an only child, all ties, the smallest heap in which `remove` has to move a node up; two other calls in between and after, so that what the first one leaves is seen by the second. New ids come in a fixed order (all ids collide, so they are interchangeable), and states that differ only in the last answer are one, since nothing depends on it |
| `heap_twice` | is an id in the heap only once? | 3 ids, capacity 3, primes 7 and 13; violated |
| `dijkstra` | are distances, paths and the heap right? | 4 vertices, 4 edges of costs 1 and 3, MAX = 4: distances lowered in the heap before a later vertex depends on them, ties, loops, parallel edges, sums equal to and above MAX; a first table of 9, which the fourth vertex fills and one node more rehashes; files whose ids come in a fixed order, since all ids collide and are interchangeable |
| `programs` | is each of the other programs right, on a small instance? | one program at a time, by the choice of the initial state. *Testbed*: the constants of the code; loops of 31 ticks as in `termout.txt`; up to 2 ticks outside the loops. *Hash tables*: both versions, 3 keys of which two collide in a table of 3 and two in one of 7, one negative hash value, a rehash, deleted entries that fill a table to its limit, allocations that fail. *Pipeline*: files of 0, 2, 3 and 4 bytes and a missing one, buffer and pipes of 2, so that writes are partial and block; `pipe`, `fork`, `exec` and `read` that fail; SIGINT anywhere. *Shell*: three scripts of up to 5 lines with every redirection, files that cannot be opened, three redirections, then a line of nothing but a redirection, longer and shorter lines; 4 places in `progargv` with every garbage in them; stdout a terminal or not, the script a file or not. *Find*: a tree of six nodes, three levels, with a link, ages at the limits of `-m`, a user without a name. *Lists*: 3 names, of which one is refused, 3 addresses, 2 items. *Merge*: all pairs of words of up to 2 letters over two, with every third word that is too short, a possible merge, or too long, and a longer pair. *Copycat*: buffers of 0 to 2 bytes, files of 2 and 3, `-` twice, a missing file, `-o`, reads and writes that fail (every later read of that input fails too). *TCP*: lines shorter and longer than `MAXBUFLEN` = 3, bytes that are 0, resets. *UDP*: 2 clients with different questions, 2 ports, other senders. *Spell checker*: all lines of up to 3 characters (capital, small, digit, delimiter) before a second line, words longer than `MaxWord` = 2 |
| `find_recursion` | does a walk without options list every node? | the same tree; violated |

The properties, by what they relate:

* Semaphores: `LockExclusion` (two processes in critical sections of one semaphore), `SignalDiscipline` (slots,
  pending signals, handlers and program points), `NoUnitWhileRegistered` (units against sleepers),
  `HelpNeedsCrowd` (the full table), `StrandedForever` (a wake-up that is lost is never made good), `Refines` (every
  unit is taken or given once).
* Fifo: `PlacesConserved` (each item is a unit of `read` or in the hands of one call, each free place a unit of
  `write` or in the hands of one), `StreamsIntact`, `RefinesQueue`, `FinishedOrStranded` (the lost wake-up of
  `sem.c:61-62` is the *only* way to hang).
* Scheduler: `OneRunning`, `SlotInRange`, `PriorityFresh`, `SleeperSound` (nobody sleeps without a child that will
  wake it), `ExitCodesKept` (each code is in exactly one place), `ReapedByMother`, `EndedWhenGenuine` (as long as
  no pid has been taken over, the scheduler ends only when all tasks have).
* Testbed: `AsDescribed`, the schedule of `testbed.c:17-22`.
* Hash tables: `TableSound` (`ProbesEnd`, `AllFindable`: there are empty entries, every stored key is found),
  `CallsRight` (`FailureHarmless`, `CallsCorrect`: a failed allocation loses nothing, every call is one of
  `Dictionary`). Heap: `HeapOrdered`, `MappingExact`, `CallsCorrect`: order, array against table, every call one of
  `PriorityQueue`. Dijkstra: `ShortestFound`, `HeapAgrees`, `PathsReal`: distances against the file and the heap's
  keys against the nodes up to the first rehash, and at any time each `prev` against an edge.
* Pipeline: `FilesInTurn` (one pipeline at a time, no file left out without a reason), `PageComplete` (what the pager
  has shown against the file), `ReportHonest` (what `sighand` prints against what happened).
* Shell: `CommandRight` (one command at a time, the words of its line, the descriptors its redirections ask for),
  `Announced` (the order of announcements and commands, through stdio's buffer in two processes).
* `ListingRight` (find: what is listed, in which order, and that nothing is missing, with `-u` for any user but 0), `CopyRight` and `StreamExact`
  (bytes against the source), `AnswerFits` (an answer against the client's question), `ListsSound` and
  `RefinesContainers` (nodes against sizes, and the lists as containers), `MergeRight` (the answer against all
  interleavings), `ReportsRight` (complaints against the maximal runs of characters that make words).
* `ProgramsEnd`: testbed and merge checker come to an end, the pipeline ends with no process and no descriptor
  left, both TCP programs end, and a UDP client waits for ever only if a datagram was lost or the server is gone.

`CallsCorrect` and its neighbours hold up to the first rehash of the "heap" version, and say so: what comes
after it is the finding below. They are stated for any table, so the limit is in the code, not in the bounds.

### Fairness

`SemFifo!FairSpec` assumes weak fairness of every process and of the delivery of every signal: the kernel
runs a process that can run and delivers a pending, unblocked signal. Nothing stronger is assumed for `tas`: a
spinning process may find the lock taken as often as the others take it. Liveness still holds because the
others run out of work. `Programs!Fairness` assumes weak fairness of the steps of the testbed (the processor goes
on executing and, in the loops, the timer goes on ticking) and of the merge checker; of the program, grep and more
each (`PipeFair`: the user of the pager pages on, but need not quit it); of both TCP programs (`TcpFair`); of the
server for each question that is in its queue and of each client (`UdpFair`: a socket's queue is first in first
out, so a datagram that has arrived is not passed over for ever). Nothing is assumed of failures, resets, lost
datagrams, signals or users. The other specifications state safety only and assume no fairness.

## 4. What is proved

Eight modules hold proofs. Every safety invariant and every action property that a passing run checks is the subject of a
theorem. For each program an inductive invariant carries the theorems (`IInv`, `FInv`, `Codes`, `BedInv`, `ShellInv`, `FindInv`, `TcpInv`,
`HInv`, `ShelvesInv`, `CopyInv`, `SpellInv`, `MergeInv`, `HeapInv`, `DijkstraInv`).

`SemaphoreProofs` holds for every set of processes and semaphores, every number of slots and every initial
count, from the assumptions named in `Semaphore`: 0 is no pid, there is a semaphore, initial counts and the
number of slots are natural numbers, and clients call only the three functions. The bound `MaxCount` on the
calls of `sem_inc` is a constant like the others.

`TypeOK` is not inductive: `count--` needs to know that the register still equals the count and is positive.
The inductive invariant `IInv` therefore adds

* `LockHeld` and `LockExclusion` (`Alone`): whoever is inside has the lock and is alone;
* `RegCurrent`, `ZeroCurrent`, `SlotCurrent`, `HandlerFirst` (`Current`): what a process inside has loaded,
  tested, found or installed is still so when it uses it, *because* it is alone;
* `SignalDiscipline` and `NeverKilled` (`Signals`);
* `UnitsSeen`: units and sleepers are together only while `sem_inc` empties the table.

One lemma per function (`WaitStepInv`, `IncStepInv`, `TryStepInv`, `CallInv`, `DeliverInv`) shows that its
steps preserve `IInv`; `StepInv` and `Invariance` combine them. From it follow

| theorem | states |
|---|---|
| `Exclusion`, `SignalsAgree`, `NoUnitLeft` | `LockExclusion`, `SignalDiscipline`, `NoUnitWhileRegistered` |
| `TypeCorrect`, `HelpIsFinal` | the types; after "HELP!!!" the lock of that semaphore is never free again |
| `StrandedStays` | `StrandedForever` |
| `HelpMeansFull` | `HelpNeedsCrowd`, by a bijection between slots and registered processes |
| `NoHelp` | with at most `NSlots` processes, which is what `main.c:15` ensures, nobody prints "HELP!!!" |
| `Implements` | `Refines`: the store of `count--` is P, the store of `count++` is V, the test of `sem_try` is a look, and every other step changes nothing the caller can see |

The second part of `SemaphoreProofs` is about `SemFifo`. It holds for every finite set of writers and a reader that is
none of them (`ProcAssumption`), every number of items, every ring whose size divides the number of values of its
indices, as 4096 divides 2^32 (`SizeAssumption`), and any items. The semaphores are the three of the fifo, with the counts
of `fifo_init` (`FifoSems`, `FifoInit`). What `SemaphoreProofs` proves about a semaphore is used through one lemma
(`SemStepEffect`): a step inside the semaphores keeps `IInv`, and changes units only at the store of `count++` or `count--`.
The inductive invariant `FInv` is `IInv` with

* `AtOK` and `AccessInv`: which semaphore a process is calling at each place outside, and that whoever is between
  `sem_wait(access)` and `sem_inc(access)` is alone, so that its `beg` or `end` is still what it loaded;
* `Ready` and `PlacesConserved`: in sums over the processes, units of `read` and items in hands are the items in the ring,
  units of `write` and places in hands the free ones; so the ring is never written when full nor read when empty, whatever
  the wrapping indices are;
* `StreamInv`: what was read, then what is in the ring, is a merge of what the writers have put, each in its order.

| theorem | states |
|---|---|
| `FifoInvariance` | `FInv`, the inductive invariant |
| `PlacesAreConserved` | `PlacesConserved` |
| `StreamsAreIntact` | `StreamsIntact`: that nothing is missing at the end is a count of the items (`AllReceived`) |
| `RefinesQueueHolds` | `RefinesQueue`: the store into the ring is the put of `BoundedQueue`, the advance of `beg` its get, every other step a stutter |

`SchedProofs` holds for every number of pids above 1 (`NProcAssumption`), every range of nice values that is
not empty and any integers as arguments of `sched_nice` (`NiceAssumption`), and every bound on ticks and tasks
(`BoundAssumption`). An action of the scheduler changes the table and then dispatches, so the parts of its
`IInv` about the table are written for any table `t` and any places `k`, `Good(t, k)`:

* `SlotsFull`, `Fresh` and `Sleepers` say of `t` what `SlotInRange`, `PriorityFresh` and `SleeperSound` say of
  the state; `DispatchKeeps` shows that a switch from a table where nobody is RUNNING keeps them and makes one
  task RUNNING, `OneChanges` that replacing the current task does, given what the new one must satisfy;
* `OneRunning` and `Stopped`: while the process runs one task is RUNNING, afterwards none is, and none READY;
* `Numbered`: every task is younger than its mother, so "sleeps for" has no cycles.

That `sched_findlowest` finds a task when there is one (`FindsReady`) rests on `LowestExists`, a finite set of
integers has a lowest member, proved by counting. From `IInv` follow

| theorem | states |
|---|---|
| `TypeCorrect`, `OneRuns`, `SlotsKept`, `PrioritiesKept`, `SleepersWait` | the invariants of run `sched_safe` with the same subject |
| `EndsWhenEnded` | `EndedWhenGenuine`: were a task asleep at the end, the youngest sleeper would have a child that is neither asleep nor a zombie |

The second part of `SchedProofs` adds the ledger of exit codes, `Codes`, under the same assumptions. `Carries` says which tasks have
been awakened in `sched_wait` and have not read `child_exit` yet; `Pockets` and `Bodies`, where codes are; `Once` and
`Given`, that none is in two places; `Somewhere`, that none is lost; `Kin` and `Heirs`, that the parent field names the
mother unless she has ended. Most actions leave all of that as it was (`AsBefore`, `LedgerSame`), in particular every
context switch (`SwitchSame`); `sched_fork`, `sched_exit` and the three steps of `sched_wait` are the rest. It gives
`CodesKept` (`ExitCodesKept`) and `Reaped` (`ReapedByMother`).

The third part is about `Testbed`: `BedSchedule` is `AsDescribed`, for every number of pids that leaves room for three tasks and
every range of nice values, under the condition `Proportions` on the length `Work` of the loops: longer than a quantum by
more than 2 ticks, so that the third task is overtaken before it is half done, and with the `Slack` ticks elsewhere shorter
than two quanta, so that the second task ends within its slot. For the 20 of the code and a slack of 2 these are loops of
23 to 37 ticks; those of `termout.txt` have 31. Both limits are sharp: TLC finds a schedule that is not the one of the
comment with 22 and with 38. `BedInv` is `IInv` with the phase the program is in: the first slot of
the first task (`First`), the second task's slot (`Second`), the third task, which gets single ticks as long as its priority is
the better one (`Third`), the first task again (`Again`), what comes after both loops (`Late`); or a fork has failed. In each
phase the accumulated time of a task is tied to what is left of its loop and its slot, which is why no tick comes at a
moment that would change the order.

`UnixProofs` holds, in its first part, for any files, sizes of buffer and pipes and any `Hits`, with or without failing calls
(`PipelineAssumption`). Its `IInv` says which ends of pipes each process holds at each statement (`Closed`, `CatEnds`),
which children there are (`Children`), and that nothing has gone wrong with them as long as nothing was cut short
(`Flowing`); the last is needed for `StopsEarly`, because a SIGPIPE has to be traced back to a reader that left.
Theorems: `InTurn` (`FilesInTurn`); with the second invariant `Counted` about the counters, `Honest` (`ReportHonest`); with
the third, `Showing`, `PageIsComplete` (`PageComplete`). `Showing` cuts the file at the places the bytes have reached: page,
grep's line, second pipe, first pipe, buffer and unread rest, in the order of the file, and each byte that grep passes in
one of them; it also says when the end of a pipe can have been seen, so that an ordinary end leaves all of it on the page.

The second part is about `Shell`: any scripts whose lines have at most `MaxArgs` words (the code writes past the array
otherwise), any files that can be opened and any garbage in `progargv` (`ShellAssumption`). `ShellInv` says where each pointer in
`progargv` comes from (`PointersFrom`), what of a line has been read (`LineRead`), which lines have been announced and in which
order a terminal shows them (`Telling`), and what each descriptor of the child stands for after its first n redirections
(`FdsAfter`). Theorems: `ShellRunsRight` (`CommandRight`), `ShellAnnounces` (`Announced`).

The third part is about `Find`: any tree, that is, any set of nodes in which of any nodes one is in a
directory that is not one of them (`TreeAssumption`), any kinds, owners and ages, and any arguments (`ArgAssumption`). `FindInv` says
that the calls of `find` lead down from the starting path, each in a directory that has been listed and none twice
(`Descent`); that what `readdir` has still to return has not been listed (`Unlisted`); and that what is sought and not listed is
still to come, or its directory has not been listed either (`ToCome`). At an ordinary end nothing is to come, and a
directory above which everything is listed is found from the set of nodes that are not (`Between` is an intersection of sets closed
upwards, so this needs no induction). `Passes` is what the program asks of a node, `Wanted` what the
options ask for; they are the same for any user but 0 (`PassesIs`). Theorem: `FindLists` (`ListingRight`, so of -u for any
user but 0).

`NetworkProofs` holds, in its first part, for any file, any buffer of at least two bytes and any window
(`StreamAssumption`), with partial sends and receives and with resets at any moment. A byte is its position in the file, so
`outfile`, what is on the wire and what `tcp_send` still has in its buffer are one sequence `Sent` of positions. `TcpInv` says
that it is increasing and lacks nothing before the first byte that is 0 (`InOrder`, `Full`), which the strings of C cut off,
and which of its parts may be left at which statements of the two programs (`Stages`). It is claimed until
`fputs` of `tcp_recv` has returned EOF (`putFailed`), and covers the partial sends that move the buffer pointer. What `fgets` adds is the next line up to its first
0 (`LineAdded`, from `LineEnds` and `StringedIs`). Theorem: `StreamIsExact` (`StreamExact`). The second part holds for any clients, questions,
ports and senders. That the server clears its buffer (`Cleared`) is what makes a question be read as it was sent;
`Traffic` and `Own` say what may be on its way to a port, the point being that a port nobody had yet is silent.
Theorem: `Fits` (`AnswerFits`).

`HashTableProofs` and the two modules on top of it hold for every set of keys and every hash value, negative ones included
(`KeyAssumption`), every strictly increasing list of odd primes (`PrimeAssumption`; that the numbers are prime is never
needed, that they are odd is), any pointers (`PointerAssumption`) and any size of the first table for which the list has a
prime (`ClientAssumption`, `CapacityAssumption`). The argument:

* a linear probe reaches every index of the table (`ProbeReaches`), so it ends if one entry is free; a table of odd
  capacity that is filled to at most a half has room for one more (`RoomThere`, `GoodRoom`);
* a key is found iff no free entry lies between its hash value and its entry (`Reached`, `FindableReached`); filling a
  free entry keeps that for all keys (`ReachedKept`), and `remove`, which only marks, does not touch it;
* `rehash` puts the entries one after the other into a table that is more than twice as large, so no step of it rehashes
  again (`StepHasRoom`). Its loop is the recursive function `Again`, and what it has done after n entries is shown by
  induction on n (`Induct`, `AgainFilling`); what it does in the version of the heap, which counts with the old capacity,
  is left open, and the theorems about that version end there;
* `GoodTable` (capacity, counter, pointers, room) and `AllFindable` make the inductive invariant `HInv`. A table is seen as
  the map `Val` from keys to pointers; each call of `Dictionary` is compared with it (`InsertCall`, `RemoveCall`,
  `SetPointerCall`).

| theorem | states |
|---|---|
| `MapInvariance`, `TablesAreSound` | `HInv`; `TableSound`: every probe ends, every stored key can be found |
| `FailuresAreHarmless` | `FailureHarmless`: an allocation that fails loses nothing |
| `CallsAreRight` | `CallsRight`: every call is one of `Dictionary` |

The rest of `ProgramProofs` is about four programs.

* `Lists`, for any names, addresses and items (`ListsAssumption`). A chain is a recursive function over the length of the list;
  `WalkIs` says that any injective sequence of nodes that follows the links is the chain, so that a step only has to
  show the new sequence. `GoodLists` is about any set of lists in any memory, and `ShelvesInv` says it of the three sequences of
  the program: each list is a chain from its head to its tail, no two have a name or a node in common, and no node is
  lost. Theorems: `ListsStaySound` (`ListsSound`), and `ListsRefineContainers` (`RefinesContainers`): push, append, pop and create do to the
  containers what the commands say, every other step nothing.
* `Copycat`, for any arguments that name files or `-`, a file named twice included, any lengths and any buffer
  (`CopyAssumption`). `CopyInv` says of each output that it has got what the arguments so far have for it (`LoopOf`, and `ArgOf` and
  `OutOf` within one), all of it unless a read or a write has failed. Theorem: `CopyIsRight` (`CopyRight`).
* `Spell`, for any documents, words of the dictionary, longest word and characters, of which the mark of the end of a line is none that
  words are made of (`SpellAssumption`). `SpellInv` says how much of the line has been cut off (`CutAt`) and that the
  complaints are, in the order of the text, those of the wrong words before that place (`Reported`: the place of a complaint is
  the number of wrong words before its own). Theorem: `SpellReports` (`ReportsRight`).
* `Merge`, for any three lines (`MergeAssumption`). A way to merge is the set of places that the letters of the first word
  take; `ReachIs` is the rule by which the program fills its table, shown by taking the last place from a way or adding
  one. `MergeInv` says that the entries filled so far are right (`TableAt`), and of the trace (`Traced`) that what it has written
  completes every way to where it is, and that among all ways it takes the letters of the first word as early as
  possible (`Ahead`, which compares how many of its letters come among the first k, for each k). Theorem: `MergeAnswers` (`MergeRight`).

`BinaryHeapProofs` holds for every capacity, any keys, and any sequence of calls up to the first rehash of the heap's table.
`HeapInv` says that the array holds nodes, that the table is sound, that array and table agree both ways (`Agree`), and the
order of the heap (`Ordered`). While a node percolates the order is broken around it: `TooHigh` and `TooLow` say that all
other pairs are in order and that its children are in order with its parent. One step keeps that and moves the hole
(`UpStepEffect`, `DownStepEffect`), and it has ended after at most as many steps as the heap has places (`UpSteps`,
`DownSteps`, by induction). The lemmas `InsertEffect`, `SetKeyEffect`, `FillEffect`, `RemoveEffect` and `DeleteMinEffect` say
what the calls do to nodes, keys and order. The root has the least key (`RootIsLeast`, by the least place that has a lower
one), and as many ids have keys as nodes are held (`HeldCounts`, by a bijection), which is what `PriorityQueue` sees.

| theorem | states |
|---|---|
| `HeapInvariance`, `HeapIsOrdered`, `MappingIsExact` | `HeapInv`; `HeapOrdered`; `MappingExact` |
| `HeapCallsAreRight` | `CallsCorrect` of `BinaryHeap`: every call is one of `PriorityQueue` |

`DijkstraProofs` holds for all ids, hash values, costs and numbers of lines, under the assumptions of `HashTable` and two of
its own: costs are positive, as in the assignment (`CostAssumption`), and the list of primes has one for the first
table and goes on as long as the tables of a file grow (`TableAssumption`). The bound `MAX` is any positive number. The
argument has three layers, each an invariant that includes the one before:

* `PathInv` needs nothing of the table but that it points only at nodes, which a rehash keeps even when it loses keys
  (`TableFor`). The nodes are a graph (`Graph`), untouched until the loop begins (`Fresh`), and each `prev` leads by an edge
  to a known node, whose distance does not change any more (`Ways`).
* `HeapInv` holds up to the first rehash, and adds that the nodes are the file and nothing else (`Mapped`: `Named`, one node
  per id, `Backed` and `Covered`; the second node that a line from a new vertex to itself makes is the
  exception, and nothing can leave it), and that the heap holds the nodes still to be visited with their distances, none
  of which is below that of a known node (`Agreed`). One turn of the loop goes over all edges of a node: `RelaxStep` and
  `VisitEffect` say, by induction on their number, that it only lowers distances (`Advanced`), reaches every neighbour
  (`Served`), and that `setKey`, which searches for the id, changes the node that was meant (`SetKeyAgrees`).
* `DijkstraInv` adds that no edge from a known node could lower a distance (`Settled`), so that by induction on its length
  no walk is cheaper than the distance found (`NotTooFar`); and that a distance is never below the cheapest walk with as many
  edges as there are known nodes (`Near`, `Past`), so that at the end it is that of a walk. `Cheapest` looks at walks of at
  most `MaxEdges` edges; this is enough because each vertex that has been reached has a line of the file of its own
  that leads to it (`HitFew`, by an injection).

| theorem | states |
|---|---|
| `PathsAreReal` | `PathsReal`, also after a rehash |
| `HeapIsAgreed` | `HeapAgrees`, up to the first rehash |
| `ShortestIsFound` | `ShortestFound` |

That the queue of the model is one `BinaryHeap` implements is `HeapCallsAreRight`, so the two together are about the program
with its heap; the composition itself is not a theorem.

Only model-checked: what must happen in the end (`ProgramsEnd` and
`FinishedOrStranded`), since neither fairness nor ENABLED can be reasoned about here; and the six runs that look for a
violation. Recursion is over numbers throughout (a recursive function, or a fold over `1..n`), and induction over numbers is
possible: the set of the numbers up to which a statement holds is all of them.

## 5. Where the code differs from what it says

With a run each:

* `sem_try` answers 1 without taking a unit (`sem.c:25-31` against `pset-w07.ps:307-310`): run `sem_try`.
* A wake-up sent between `lock=0` and `sigsuspend` is lost, and `main.c` hangs (`sem.c:61-62` against
  `pset-w07.ps:379-381`): run `fifo_hang`.
* `sched_fork` reads `next->pid` after unblocking the timer and may return another pid (`sched.c:138-139`
  against `pset-w09.ps:311-312`): run `sched_forkpid`.
* "all procs ended" while tasks sleep, after a pid named as parent was used again (`sched.c:153`, `308`): run
  `sched_hang`.
* `rehash` inserts with the old capacity, so that stored keys are lost (`hash.cpp:83-88`) and the heap takes
  an id twice (`heap.h:27`): run `heap_twice`.
* `find` ends with `closedir` and without a `return`, while its caller takes a 0 for a failure and returns 0 as well:
  whether a walk goes on after its first subdirectory is up to what the register holds (`myfind.c:254-262` against
  `pset-w02.ps:250-255`): run `find_recursion`.

Met while reading, without a run of their own because one call shows them or because nothing in the
repository promises otherwise. In the models:

* The error returns of `sched_fork` and `sched_wait` leave the timer masked (`sched.c:97`); zombies whose parent is gone
  stay in the table, and `sched_zombie` gives a task the zombies of an earlier owner of its pid; `sched_nice` refills the
  time slot, so that a task that calls it often enough keeps the processor (`sched.c:234`).
* `heap::remove` of an unknown id reads through `NULL` before it looks (`heap.cpp:165` against `heap.h:68`), and
  `heap::insert` does not look at what `mapping->insert` returns (116). The spell checker's `rehash` sets the capacity
  before an allocation that may fail. `MAX` in `graph.cpp:8` is a million, and the assignment (`Dijkstra.pdf`) only
  says that distances are below a billion: a path of a million or more is reported as "NO PATH"; `ShortestFound`
  states it as it is. An edge from a new vertex to itself, which the assignment excludes, makes two nodes
  (`graph.cpp:49-67`).
* The shell puts no null pointer after the words of a line, so `exec` gets whatever `progargv` held: words of an earlier,
  longer line or garbage (`mysh.c:48-66`); `ArgsOfLine` says when it does get the right ones, and `CommandRight` nothing about
  the others. `2>` appends instead of truncating, a word that begins with a 2 is taken for a
  redirection, and a third redirection overwrites the first word, a fourth the
  second (`mysh.c:54-61`, 172-224).
* A pager that is quit ends the whole program by SIGPIPE, while `pset-w04.ps:261-265` wants it to go on with the next
  file, and `FilesInTurn` takes that signal for a reason to stop (`cut`); a child that has not called
  `exec` has the handler too and reports the counters it was forked with.
* `-u root` is the user 0 and 0 means that `-u` was not given (`myfind.c:136`): everything is listed, though
  `pset-w02.ps:286-291` wants only the nodes of the user. User 0 stays among the checked users, and `ListingRight` claims
  what `-u` asks for only of the others (`UserHeeded`). A uid without a name
  ends the walk if some earlier call has left `errno` set.
* `merge.cpp:69-73` writes outside the table for every input that is a complete merge, and only then (`TableLeft`).
* `tcp_send` moves its buffer pointer with every partial send and never back, until `fgets` writes past the buffer
  (place "overrun"); a client of the UDP server takes the first datagram that comes to its port, even one for the
  port's earlier owner, and waits without a timeout.

Not in the models: `i|(j<<6)` in `main.c:37` overflows an `int` from `j` = 2^25 on; `dv + Cvw` in
`graph.cpp:101` would for costs near 2^31, which the assignment excludes; a line of more than ten words overruns
`progargv` (`mysh.c:62`); the server's `sprintf` relies on its buffer being long enough (`udp_server.c:70`); what
`copycat` reports goes to the standard output and so into the copy.

## 6. What is not modelled

* `sched_ps` and the getters of `sched.c`, which only print or return a field; the contents of stacks and registers,
  abstracted to the place a task goes on at; the numbers of the list of primes, of which only
  odd and increasing ones are assumed; an
  allocation that fails while `Olddata` is copied, which ends the program with an exception nobody catches.
* The driver `useHeap.cpp`, which reads commands and calls the class; the text `out()` of `graph.cpp` prints (what its
  loop needs is `PathsReal`).
* How lines look: `find`'s columns, the shell's times and usage, addresses and rates of the network tools, the table
  `merge.cpp` prints.
* The kernel demonstrations. `P5/mm.c` shows what `mmap` and signals of the kernel do, step by step, and keeps no
  state of its own between steps; `P8/p5.c` times empty loops, calls and system calls, and the assembly beside it makes
  one call each; `P9/schedtest.c` does not link with `sched.c`.
* The matrix calculator, `femtomatlab.asm`: 1078 lines of MIPS assembly that do not assemble as they stand (line 1052
  branches to `transpose_fin`, the label at line 1056 is `tranpose_fin`), with the transposition marked "CURRENTLY NOT
  FUNCTIONAL" (line 1023) and a copy (`assign_implicit_copy`) that uses a register no path to it sets. There is no
  program here whose steps a model could be faithful to.

## 7. Plan

What is left, in order: the composition of `DijkstraProofs` and `BinaryHeapProofs` as one refinement, with the heap of the code in
place of the queue; liveness, should the prover's reach grow.
