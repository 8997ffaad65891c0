------------------------------- MODULE Programs -------------------------------
(***************************************************************************)
(* The programs of the repository that need no run of their own, side by   *)
(* side: the initial state chooses one, and the others stay idle.          *)
(***************************************************************************)
EXTENDS Testbed, HashMap, Pipeline, Find, Shell, Lists, Merge, Copycat, TcpStream, Udp, Spell

VARIABLE program     \* the one that runs

programs == {"testbed", "hash", "pipeline", "find", "shell", "lists", "merge", "copycat",
             "tcp", "udp", "spell"}

programVars == <<program, allVars, mapVars, pipeVars, findVars, shellVars, listVars, mergeVars,
                 copyVars, tcpVars, udpVars, spellVars>>

ProgramsInit ==
    /\ program \in programs
    /\ BedInit
    /\ IF program = "hash"     THEN MapInit   ELSE MapIdle
    /\ IF program = "pipeline" THEN PipeInit  ELSE PipeIdle
    /\ IF program = "find"     THEN FindInit  ELSE FindIdle
    /\ IF program = "shell"    THEN ShellInit ELSE ShellIdle
    /\ ListsInit
    /\ IF program = "merge"    THEN MergeInit ELSE MergeIdle
    /\ IF program = "copycat"  THEN CopyInit  ELSE CopyIdle
    /\ IF program = "tcp"      THEN TcpInit   ELSE TcpIdle
    /\ IF program = "udp"      THEN UdpInit   ELSE UdpIdle
    /\ IF program = "spell"    THEN SpellInit ELSE SpellIdle

\* What program p leaves alone.
Others(p) == /\ UNCHANGED program
             /\ p # "testbed"  => UNCHANGED allVars
             /\ p # "hash"     => UNCHANGED mapVars
             /\ p # "pipeline" => UNCHANGED pipeVars
             /\ p # "find"     => UNCHANGED findVars
             /\ p # "shell"    => UNCHANGED shellVars
             /\ p # "lists"    => UNCHANGED listVars
             /\ p # "merge"    => UNCHANGED mergeVars
             /\ p # "copycat"  => UNCHANGED copyVars
             /\ p # "tcp"      => UNCHANGED tcpVars
             /\ p # "udp"      => UNCHANGED udpVars
             /\ p # "spell"    => UNCHANGED spellVars

RunTestbed == program = "testbed" /\ BedNext
RunShell   == program = "shell" /\ ShellNext
RunMerge   == program = "merge" /\ MergeNext

ProgramsNext ==
    \/ RunTestbed                            /\ Others("testbed")
    \/ program = "hash"     /\ MapNext       /\ Others("hash")
    \/ program = "pipeline" /\ PipeNext      /\ Others("pipeline")
    \/ program = "find"     /\ FindNext      /\ Others("find")
    \/ RunShell                              /\ Others("shell")
    \/ program = "lists"    /\ ListsNext     /\ Others("lists")
    \/ RunMerge                              /\ Others("merge")
    \/ program = "copycat"  /\ CopyNext      /\ Others("copycat")
    \/ program = "tcp"      /\ TcpNext       /\ Others("tcp")
    \/ program = "udp"      /\ UdpNext       /\ Others("udp")
    \/ program = "spell"    /\ SpellNext     /\ Others("spell")

\* The processes of the program that runs are scheduled.
Fairness == /\ WF_allVars(RunTestbed)
            /\ PipeFair /\ TcpFair /\ UdpFair
            /\ WF_mergeVars(RunMerge)

ProgramsSpec == ProgramsInit /\ [][ProgramsNext]_programVars /\ Fairness

------------------------------------------------------------------------------
\* Completes of Testbed, when that is the program that runs.
TestbedCompletes == program = "testbed" => Completes

\* Whatever program runs, it comes to its end, with the results it should have
\* (testbed), with no process left over (pipeline), and without waiting for
\* ever on one another (tcp, udp) or in a loop (merge).
ProgramsEnd == TestbedCompletes /\ PipelineEnds /\ TraceEnds /\ TcpEnds /\ Answered
==============================================================================
