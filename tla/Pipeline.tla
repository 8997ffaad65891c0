------------------------------- MODULE Pipeline -------------------------------
(***************************************************************************)
(* Operating Systems/Project4-Cat/catgrepmore.c: for every input file a    *)
(* pipeline  cat | grep | more  of the program itself and two children,    *)
(* over two pipes.  Bytes are positions in the file; grep passes those in  *)
(* Hits.  Pipes, fork, exec, wait, grep and more are as the program uses   *)
(* them: end of file needs that nobody holds the write end, and a write    *)
(* that nobody can read any more raises SIGPIPE.                           *)
(***************************************************************************)
EXTENDS Integers, Sequences, FiniteSets

CONSTANTS InfileLists,   \* the values of argv[2..]: lengths, or Missing
          Missing,       \* a name that cannot be opened
          Hits,          \* the positions grep passes on
          BufSize,       \* bufsize of readwrite
          PipeSize,      \* what the kernel buffers in a pipe
          Failures       \* whether pipe, fork, exec and read may fail

ASSUME PipelineAssumption ==
    /\ Missing \notin Nat
    /\ InfileLists \subseteq Seq(Nat \cup {Missing})
    /\ BufSize \in Nat \ {0} /\ PipeSize \in Nat \ {0}
    /\ Failures \in BOOLEAN

VARIABLES infiles,   \* argv[2..]
          cat,       \* the statement the program is at
          infile,    \* i: the file it is at
          unread,    \* what read has not returned of the file
          buf, werr, \* buf[0..n-1], and what the last write returned
          fproc, bproc,
          bfork,     \* bproc as the children of this file have it, from fork
          kids,      \* per child: none, forked, ready to exec, running, zombie
          fds,       \* per process, the pipe ends it has open
          pipe1, pipe2,
          line,      \* what grep has read and not written
          page,      \* history: what more has shown of this file
          cut,       \* history: the pager did not get to the end of the file
          taken,     \* history: the bytes pipes took from the program
          reports,   \* history: what sighand printed, and in which process
          sigint     \* history: SIGINT has been sent

catVars  == <<cat, infile, unread, buf, werr, fproc, bproc, bfork>>
dataVars == <<pipe1, pipe2, line, page>>
histVars == <<cut, taken, reports, sigint>>
pipeVars == <<infiles, catVars, kids, fds, dataVars, histVars>>

Kids == {"grep", "more"}
PipeEnds == {"r1", "w1", "r2", "w2"}

\* Fault: grep does not close the end of its pipe that it could write.
OwnLeaky(p) == IF p = "grep" THEN {"r1", "w1", "w2"} ELSE {"r2"}

\* Fault: grep closes the end it should read.
OwnDeaf(p) == IF p = "grep" THEN {"w2"} ELSE {"r2"}

\* What a child keeps after dup2 and the five calls of close.
Own(p) == IF p = "grep" THEN {"r1", "w2"} ELSE {"r2"}

Held(e) == \E p \in {"cat"} \cup Kids : e \in fds[p]

PipeIdle == /\ infiles = <<>> /\ cat = "exited" /\ infile = 1
            /\ unread = <<>> /\ buf = <<>> /\ werr = 0
            /\ fproc = 0 /\ bproc = 0 /\ bfork = 0
            /\ kids = [p \in Kids |-> "none"]
            /\ fds = [p \in {"cat"} \cup Kids |-> {}]
            /\ pipe1 = <<>> /\ pipe2 = <<>> /\ line = <<>> /\ page = <<>>
            /\ cut = FALSE /\ taken = 0 /\ reports = {} /\ sigint = FALSE

PipeInit == /\ infiles \in InfileLists
            /\ cat = "loop" /\ infile = 1
            /\ unread = <<>> /\ buf = <<>> /\ werr = 0
            /\ fproc = 0 /\ bproc = 0 /\ bfork = 0
            /\ kids = [p \in Kids |-> "none"]
            /\ fds = [p \in {"cat"} \cup Kids |-> {}]
            /\ pipe1 = <<>> /\ pipe2 = <<>> /\ line = <<>> /\ page = <<>>
            /\ cut = FALSE /\ taken = 0 /\ reports = {} /\ sigint = FALSE

\* The program ends; the kernel closes its descriptors and init reaps what
\* is or will be left of its children.
CatExits == /\ cat' = "exited"
            /\ fds' = [fds EXCEPT !["cat"] = {}]
            /\ kids' = [p \in Kids |-> IF kids[p] = "zombie" THEN "none" ELSE kids[p]]

KidExits(p) == /\ kids' = [kids EXCEPT ![p] = IF cat = "exited" THEN "none" ELSE "zombie"]
               /\ fds' = [fds EXCEPT ![p] = {}]

\* The files before infile that could be opened, and the one it is at.
Opened == Cardinality({i \in 1..Len(infiles) : /\ infiles[i] # Missing
                                               /\ i < infile + (IF cat = "loop" THEN 0 ELSE 1)})

\* What sighand prints in process p, which has counters of its own, with what
\* it should say.
Report(p) == [by |-> p, files |-> fproc, bytes |-> IF p = "cat" THEN bproc ELSE bfork,
              opened |-> Opened, taken |-> taken]

------------------------------------------------------------------------------
\* The loop of main.

EndOfArgs == /\ cat = "loop" /\ infile > Len(infiles)
             /\ CatExits
             /\ UNCHANGED <<infiles, infile, unread, buf, werr, fproc, bproc, bfork, dataVars, histVars>>

\* A file that cannot be opened is passed over without a word.
SkipFile == /\ cat = "loop" /\ infile <= Len(infiles)
            /\ infiles[infile] = Missing
            /\ infile' = infile + 1
            /\ UNCHANGED <<infiles, cat, unread, buf, werr, fproc, bproc, bfork, kids, fds, dataVars, histVars>>

OpenFile == /\ cat = "loop" /\ infile <= Len(infiles)
            /\ infiles[infile] # Missing
            /\ cat' = "opened"
            /\ unread' = [k \in 1..infiles[infile] |-> k]
            /\ cut' = FALSE
            /\ UNCHANGED <<infiles, infile, buf, werr, fproc, bproc, bfork, kids, fds, dataVars,
                           taken, reports, sigint>>

\* fproc++ and the two pipes
MakePipes == /\ cat = "opened"
             /\ fproc' = fproc + 1
             /\ cat' = "fork_grep"
             /\ fds' = [fds EXCEPT !["cat"] = PipeEnds]
             /\ pipe1' = <<>> /\ pipe2' = <<>> /\ line' = <<>> /\ page' = <<>>
             /\ UNCHANGED <<infiles, infile, unread, buf, werr, bproc, bfork, kids, histVars>>

\* pipe fails: main returns 1.
PipeFails == /\ Failures /\ cat = "opened"
             /\ fproc' = fproc + 1
             /\ cut' = TRUE
             /\ CatExits
             /\ UNCHANGED <<infiles, infile, unread, buf, werr, bproc, bfork, dataVars, taken, reports, sigint>>

\* fork: the child has every descriptor and counter the program has.
ForkKid(p, from, to) ==
    /\ cat = from
    /\ \/ /\ cat' = to
          /\ kids' = [kids EXCEPT ![p] = "forked"]
          /\ fds' = [fds EXCEPT ![p] = fds["cat"]]
          /\ bfork' = bproc
          /\ UNCHANGED cut
       \/ Failures /\ CatExits /\ cut' = TRUE /\ UNCHANGED bfork
    /\ UNCHANGED <<infiles, infile, unread, buf, werr, fproc, bproc, dataVars, taken, reports, sigint>>

ForkGrep == ForkKid("grep", "fork_grep", "fork_more")
ForkMore == ForkKid("more", "fork_more", "close")

\* close(pipe1[0]), close(pipe2[0]), close(pipe2[1])
CloseEnds == /\ cat = "close"
             /\ cat' = "read"
             /\ fds' = [fds EXCEPT !["cat"] = @ \ {"r1", "r2", "w2"}]
             /\ UNCHANGED <<infiles, infile, unread, buf, werr, fproc, bproc, bfork, kids, dataVars, histVars>>

\* read of readwrite, from a regular file
Read == /\ cat = "read"
        /\ LET n == IF Len(unread) < BufSize THEN Len(unread) ELSE BufSize IN
              /\ buf' = SubSeq(unread, 1, n)
              /\ unread' = SubSeq(unread, n + 1, Len(unread))
              /\ cat' = IF n > 0 THEN "write" ELSE "close_last"
        /\ UNCHANGED <<infiles, infile, werr, fproc, bproc, bfork, kids, fds, dataVars, histVars>>

\* read returns -1: readwrite reports it and returns, as at the end of the file.
ReadFails == /\ Failures /\ cat = "read"
             /\ cat' = "close_last"
             /\ cut' = TRUE
             /\ UNCHANGED <<infiles, infile, unread, buf, werr, fproc, bproc, bfork, kids, fds, dataVars,
                            taken, reports, sigint>>

\* write of writeit takes some of the bytes, as many as there is room for.
Write == /\ cat = "write"
         /\ Held("r1")
         /\ \E k \in 1..Len(buf) :
               /\ Len(pipe1) + k <= PipeSize
               /\ pipe1' = pipe1 \o SubSeq(buf, 1, k)
               /\ werr' = k
               /\ taken' = taken + k
         /\ cat' = "count"
         /\ UNCHANGED <<infiles, infile, unread, buf, fproc, bproc, bfork, kids, fds, pipe2, line, page,
                        cut, reports, sigint>>

\* Fault: buf+=werr is missing.
CountBytesStuck == /\ cat = "count"
                   /\ bproc' = bproc + werr
                   /\ buf' = SubSeq(buf, 1, Len(buf) - werr)
                   /\ cat' = IF werr < Len(buf) THEN "write" ELSE "read"
                   /\ UNCHANGED <<infiles, infile, unread, werr, fproc, bfork, kids, fds, dataVars, histVars>>

\* Fault: what should have been written is counted.
CountBytesAll == /\ cat = "count"
                 /\ bproc' = bproc + Len(buf)
                 /\ buf' = SubSeq(buf, werr + 1, Len(buf))
                 /\ cat' = IF werr < Len(buf) THEN "write" ELSE "read"
                 /\ UNCHANGED <<infiles, infile, unread, werr, fproc, bfork, kids, fds, dataVars, histVars>>

\* bproc+=werr, n-=werr, buf+=werr and the two loops
CountBytes == /\ cat = "count"
              /\ bproc' = bproc + werr
              /\ buf' = SubSeq(buf, werr + 1, Len(buf))
              /\ cat' = IF werr < Len(buf) THEN "write" ELSE "read"
              /\ UNCHANGED <<infiles, infile, unread, werr, fproc, bfork, kids, fds, dataVars, histVars>>

\* The reader is gone: write raises SIGPIPE, and sighand reports and exits.
BrokenPipe == /\ cat = "write" /\ ~Held("r1")
              /\ reports' = reports \cup {Report("cat")}
              /\ CatExits
              /\ UNCHANGED <<infiles, infile, unread, buf, werr, fproc, bproc, bfork, dataVars, cut, taken, sigint>>

\* close(fdi), close(pipe1[1])
CloseLast == /\ cat = "close_last"
             /\ cat' = "wait_1"
             /\ fds' = [fds EXCEPT !["cat"] = @ \ {"w1"}]
             /\ UNCHANGED <<infiles, infile, unread, buf, werr, fproc, bproc, bfork, kids, dataVars, histVars>>

\* wait takes whichever child has exited.
Reap(p) == kids[p] = "zombie" /\ kids' = [kids EXCEPT ![p] = "none"]

Wait1 == /\ cat = "wait_1"
         /\ \E p \in Kids : Reap(p)
         /\ cat' = "wait_2"
         /\ UNCHANGED <<infiles, infile, unread, buf, werr, fproc, bproc, bfork, fds, dataVars, histVars>>

\* Fault: there is no second wait.
Wait2Missing == /\ cat = "wait_2"
                /\ cat' = "loop"
                /\ infile' = infile + 1
                /\ UNCHANGED <<infiles, unread, buf, werr, fproc, bproc, bfork, kids, fds, dataVars, histVars>>

Wait2 == /\ cat = "wait_2"
         /\ \E p \in Kids : Reap(p)
         /\ cat' = "loop"
         /\ infile' = infile + 1
         /\ UNCHANGED <<infiles, unread, buf, werr, fproc, bproc, bfork, fds, dataVars, histVars>>

CatStep == \/ EndOfArgs \/ SkipFile \/ OpenFile \/ MakePipes \/ PipeFails \/ ForkGrep \/ ForkMore
           \/ CloseEnds \/ Read \/ ReadFails \/ Write \/ CountBytes \/ BrokenPipe \/ CloseLast
           \/ Wait1 \/ Wait2

------------------------------------------------------------------------------
\* The children.

\* dup2 and close of all that is left
Setup(p) == /\ kids[p] = "forked"
            /\ kids' = [kids EXCEPT ![p] = "ready"]
            /\ fds' = [fds EXCEPT ![p] = Own(p)]
            /\ UNCHANGED <<infiles, catVars, dataVars, histVars>>

ExecKid(p) == /\ kids[p] = "ready"
              /\ \/ kids' = [kids EXCEPT ![p] = "running"] /\ UNCHANGED <<fds, cut>>
                 \/ Failures /\ KidExits(p) /\ cut' = TRUE
              /\ UNCHANGED <<infiles, catVars, dataVars, taken, reports, sigint>>

GrepReads == /\ kids["grep"] = "running" /\ line = <<>> /\ pipe1 # <<>>
             /\ pipe1' = Tail(pipe1)
             /\ line' = IF Head(pipe1) \in Hits THEN <<Head(pipe1)>> ELSE <<>>
             /\ UNCHANGED <<infiles, catVars, kids, fds, pipe2, page, histVars>>

GrepWrites == /\ kids["grep"] = "running" /\ line # <<>>
              /\ Held("r2") /\ Len(pipe2) < PipeSize
              /\ pipe2' = pipe2 \o line
              /\ line' = <<>>
              /\ UNCHANGED <<infiles, catVars, kids, fds, pipe1, page, histVars>>

\* At the end of its input, or killed by SIGPIPE.
GrepEnds == /\ kids["grep"] = "running"
            /\ \/ line = <<>> /\ pipe1 = <<>> /\ ~Held("w1")
               \/ line # <<>> /\ ~Held("r2")
            /\ KidExits("grep")
            /\ UNCHANGED <<infiles, catVars, dataVars, histVars>>

MoreShows == /\ kids["more"] = "running" /\ pipe2 # <<>>
             /\ page' = Append(page, Head(pipe2))
             /\ pipe2' = Tail(pipe2)
             /\ UNCHANGED <<infiles, catVars, kids, fds, pipe1, line, histVars>>

MoreEnds == /\ kids["more"] = "running" /\ pipe2 = <<>> /\ ~Held("w2")
            /\ KidExits("more")
            /\ UNCHANGED <<infiles, catVars, dataVars, histVars>>

\* The user quits the pager.
MoreQuits == /\ kids["more"] = "running"
             /\ KidExits("more")
             /\ cut' = TRUE
             /\ UNCHANGED <<infiles, catVars, dataVars, taken, reports, sigint>>

KidStep(p) == \/ Setup(p) \/ ExecKid(p)
              \/ p = "grep" /\ (GrepReads \/ GrepWrites \/ GrepEnds)
              \/ p = "more" /\ (MoreShows \/ MoreEnds)

\* The terminal sends SIGINT to all three.  sighand runs in the program and in
\* a child that has not called exec; grep dies, and more may stay.
Interrupt ==
    /\ cat # "exited" /\ ~sigint
    /\ sigint' = TRUE /\ cut' = TRUE
    /\ LET handlers == {"cat"} \cup {p \in Kids : kids[p] \in {"forked", "ready"}} IN
          /\ reports' = reports \cup {Report(p) : p \in handlers}
          /\ \E stays \in SUBSET {p \in Kids : p = "more" /\ kids[p] = "running"} :
                /\ kids' = [p \in Kids |-> IF p \in stays THEN kids[p] ELSE "none"]
                /\ fds' = [p \in DOMAIN fds |-> IF p \in stays THEN fds[p] ELSE {}]
    /\ cat' = "exited"
    /\ UNCHANGED <<infiles, infile, unread, buf, werr, fproc, bproc, bfork, dataVars, taken>>

PipeNext == CatStep \/ (\E p \in Kids : KidStep(p)) \/ MoreQuits \/ Interrupt

\* The processes are scheduled, and the user pages on, but need not quit.
PipeFair == WF_pipeVars(CatStep) /\ \A p \in Kids : WF_pipeVars(KidStep(p))

PipeSpec == PipeInit /\ [][PipeNext]_pipeVars /\ PipeFair

------------------------------------------------------------------------------
PipeTypeOK ==
    /\ infiles \in Seq(Nat \cup {Missing}) /\ infile \in Nat \ {0}
    /\ cat \in {"loop", "opened", "fork_grep", "fork_more", "close", "read", "write", "count",
                "close_last", "wait_1", "wait_2", "exited"}
    /\ unread \in Seq(Nat) /\ buf \in Seq(Nat) /\ werr \in Nat
    /\ fproc \in Nat /\ bproc \in Nat /\ bfork \in Nat /\ taken \in Nat
    /\ kids \in [Kids -> {"none", "forked", "ready", "running", "zombie"}]
    /\ fds \in [{"cat"} \cup Kids -> SUBSET PipeEnds]
    /\ pipe1 \in Seq(Nat) /\ pipe2 \in Seq(Nat) /\ line \in Seq(Nat) /\ page \in Seq(Nat)
    /\ cut \in BOOLEAN /\ sigint \in BOOLEAN

\* Every run ends with nobody left: no descriptor that somebody forgot to close
\* keeps a child from its end of file or the program in wait
\* (catgrepmore.c:93-114).
PipelineEnds == <>[](cat = "exited" /\ \A p \in Kids : kids[p] = "none" /\ fds[p] = {})

\* One pipeline at a time: while the program is between two files nothing is
\* left of the children of the one before, nor of its pipes
\* (catgrepmore.c:99-114).
OneAtATime == cat \in {"loop", "opened", "fork_grep"} =>
                 /\ \A p \in Kids : kids[p] = "none" /\ fds[p] = {}
                 /\ cat # "fork_grep" => fds["cat"] = {}

\* Unless the pager was quit, interrupted or not started, or a read failed, it
\* has shown all that grep passes of the file, in order and once, when the
\* program goes on to wait for its second child or to the next file.
PageComplete ==
    (kids["more"] = "zombie" /\ ~cut) =>
        /\ {page[i] : i \in 1..Len(page)} = {k \in 1..infiles[infile] : k \in Hits}
        /\ \A i, k \in 1..Len(page) : i < k => page[i] < page[k]

\* What sighand reports: every file opened so far, but for the one whose
\* fproc++ is still to come, and no byte that no pipe took.  The program's own
\* count is short by no more than the write whose result is not added yet; a
\* child that has not called exec reports what there was at its fork
\* (catgrepmore.c:18-22, 39, 137-148).
ReportHonest ==
    \A r \in reports : /\ r.opened - r.files \in (IF r.by = "cat" THEN {0, 1} ELSE {0})
                       /\ r.bytes <= r.taken
                       /\ r.by = "cat" => r.taken - r.bytes <= BufSize

\* The program leaves files unprocessed only after an interrupt, a failure, or
\* when a write found no reader.
StopsEarly ==
    (cat = "exited" /\ infile <= Len(infiles)) => cut

\* The files are processed in turn: never two pipelines at a time, and none
\* left out without a reason.
FilesInTurn == OneAtATime /\ StopsEarly
==============================================================================
