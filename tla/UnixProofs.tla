----------------------------- MODULE UnixProofs -----------------------------
(***************************************************************************)
(* What Pipeline, Shell and Find promise for all of their inputs: for all  *)
(* lists of files, buffers, pipes and failures the pager shows what it     *)
(* should; for all scripts and failures the shell runs what the lines say  *)
(* and says so; for all trees and options find lists what was asked for.   *)
(* IInv is the inductive invariant of the pipeline: which of the three     *)
(* processes there are and which ends of the pipes each has open, at every *)
(* statement of the program; ShellInv and FindInv are those of the others. *)
(***************************************************************************)
EXTENDS Pipeline, Shell, Find, FiniteSetTheorems, SequenceTheorems, TLAPS

Alive(p) == kids[p] \in {"forked", "ready", "running"}

\* A child that is not there or has ended has nothing open.
Closed == \A p \in Kids : ~Alive(p) => fds[p] = {}

\* The ends of the pipes the program itself has open.
CatEnds == /\ cat \in {"loop", "opened", "wait_1", "wait_2", "exited"} => fds["cat"] = {}
           /\ cat \in {"fork_grep", "fork_more", "close"} => fds["cat"] = PipeEnds
           /\ cat \in {"read", "write", "count", "close_last"} => fds["cat"] = {"w1"}

\* The children the program has not waited for.
Children == /\ cat \in {"loop", "opened", "fork_grep"} => \A p \in Kids : kids[p] = "none"
            /\ cat = "fork_more" => kids["grep"] # "none" /\ kids["more"] = "none"
            /\ cat \in {"close", "read", "write", "count", "close_last", "wait_1"} =>
                  \A p \in Kids : kids[p] # "none"
            /\ cat = "wait_2" => \E p, q \in Kids : kids[p] = "none" /\ kids[q] # "none"

\* As long as nothing was cut short and the program has not closed its end of
\* the first pipe, nobody has a reason to end: grep has a reader and a writer,
\* and so has more.
Flowing == ~cut =>
    /\ cat \in {"fork_more", "close", "read", "write", "count", "close_last"} =>
          Alive("grep") /\ {"r1", "w2"} \subseteq fds["grep"]
    /\ cat \in {"close", "read", "write", "count", "close_last"} =>
          Alive("more") /\ "r2" \in fds["more"]

IInv == PipeTypeOK /\ Closed /\ CatEnds /\ Children /\ Flowing /\ StopsEarly

LEMMA InitIInv ==
  ASSUME PipeInit PROVE IInv
<1>1. PipeTypeOK
  <2>1. infiles \in Seq(Nat \cup {Missing})
    BY PipelineAssumption DEF PipeInit
  <2>2. <<>> \in Seq(Nat)
    BY EmptySeq
  <2>3. /\ infiles \in Seq(Nat \cup {Missing})
        /\ unread \in Seq(Nat) /\ buf \in Seq(Nat)
        /\ pipe1 \in Seq(Nat) /\ pipe2 \in Seq(Nat) /\ line \in Seq(Nat) /\ page \in Seq(Nat)
    BY <2>1, <2>2, Zenon DEF PipeInit
  <2>4. /\ kids \in [Kids -> {"none", "forked", "ready", "running", "zombie"}]
        /\ fds \in [{"cat"} \cup Kids -> SUBSET PipeEnds]
    BY DEF PipeInit
  <2>5. /\ infile \in Nat \ {0} /\ cat = "loop" /\ werr \in Nat
        /\ fproc \in Nat /\ bproc \in Nat /\ bfork \in Nat /\ taken \in Nat
    <3>1. infile = 1 /\ cat = "loop" /\ werr = 0 /\ fproc = 0 /\ bproc = 0 /\ bfork = 0 /\ taken = 0
      BY DEF PipeInit
    <3> QED  BY <3>1
  <2>6. cut \in BOOLEAN /\ sigint \in BOOLEAN
    BY Zenon DEF PipeInit
  <2> QED  BY <2>3, <2>4, <2>5, <2>6 DEF PipeTypeOK
<1>2. Closed /\ CatEnds /\ Children /\ Flowing /\ StopsEarly
  BY DEF PipeInit, Closed, CatEnds, Children, Flowing, StopsEarly, Kids, Alive
<1> QED  BY <1>1, <1>2 DEF IInv

LEMMA NextIInv ==
  ASSUME IInv, [PipeNext]_pipeVars PROVE IInv'
<1> USE DEF IInv, catVars, dataVars, histVars
<1> DEFINE Parts == Closed /\ CatEnds /\ Children /\ Flowing /\ StopsEarly
<1>1. CASE EndOfArgs
  <2>1. PipeTypeOK'  BY <1>1 DEF EndOfArgs, CatExits, PipeTypeOK, Kids
  <2>2. Parts'
    BY <1>1 DEF EndOfArgs, CatExits, PipeTypeOK, Kids, Closed, CatEnds, Children, Flowing, StopsEarly, Alive
  <2> QED  BY <2>1, <2>2
<1>2. CASE SkipFile
  <2>1. PipeTypeOK'  BY <1>2 DEF SkipFile, PipeTypeOK, Kids
  <2>2. Parts'
    BY <1>2 DEF SkipFile, PipeTypeOK, Kids, Closed, CatEnds, Children, Flowing, StopsEarly, Alive
  <2> QED  BY <2>1, <2>2
<1>3. CASE OpenFile
  <2>1. PipeTypeOK'
    <3> DEFINE N == infiles[infile]
    <3>1. N \in Nat
      <4>1. infiles \in Seq(Nat \cup {Missing}) /\ infile \in Nat /\ infile # 0
        BY DEF PipeTypeOK
      <4>2. infile <= Len(infiles) /\ N # Missing
        BY <1>3 DEF OpenFile
      <4>3. infile \in 1..Len(infiles)
        BY <4>1, <4>2, LenProperties
      <4>4. N \in Nat \cup {Missing}
        BY <4>1, <4>3, ElementOfSeq
      <4> QED  BY <4>2, <4>4
    <3>2. unread' \in Seq(Nat)
      <4>1. unread' = [k \in 1..N |-> k]
        BY <1>3 DEF OpenFile
      <4> HIDE DEF N
      <4>2. [k \in 1..N |-> k] \in [1..N -> Nat]
        BY <3>1
      <4>3. \A m \in Nat : \A f \in [1..m -> Nat] : f \in Seq(Nat)
        BY SeqDef
      <4> QED  BY <3>1, <4>1, <4>2, <4>3, Zenon
    <3> QED  BY <1>3, <3>2 DEF OpenFile, PipeTypeOK
  <2>2. Parts'
    BY <1>3 DEF OpenFile, PipeTypeOK, Kids, Closed, CatEnds, Children, Flowing, StopsEarly, Alive
  <2> QED  BY <2>1, <2>2
<1>3a. CASE MakePipes
  <2>1. PipeTypeOK'
    <3>1. /\ pipe1' \in Seq(Nat) /\ pipe2' \in Seq(Nat) /\ line' \in Seq(Nat) /\ page' \in Seq(Nat)
      BY <1>3a, EmptySeq DEF MakePipes
    <3>2. fproc' \in Nat /\ fds' \in [{"cat"} \cup Kids -> SUBSET PipeEnds]
      <4>1. fproc \in Nat /\ fproc' = fproc + 1
        BY <1>3a DEF MakePipes, PipeTypeOK
      <4>2. /\ fds \in [{"cat"} \cup Kids -> SUBSET PipeEnds]
            /\ fds' = [fds EXCEPT !["cat"] = PipeEnds]
        BY <1>3a DEF MakePipes, PipeTypeOK
      <4> QED  BY <4>1, <4>2
    <3> QED  BY <1>3a, <3>1, <3>2 DEF MakePipes, PipeTypeOK
  <2>2. Parts'
    BY <1>3a DEF MakePipes, PipeTypeOK, Kids, PipeEnds, Closed, CatEnds, Children, Flowing, StopsEarly, Alive
  <2> QED  BY <2>1, <2>2
<1>4. CASE PipeFails
  <2>1. PipeTypeOK'  BY <1>4 DEF PipeFails, CatExits, PipeTypeOK, Kids
  <2>2. Parts'
    BY <1>4 DEF PipeFails, CatExits, PipeTypeOK, Kids, Closed, CatEnds, Children, Flowing, StopsEarly, Alive
  <2> QED  BY <2>1, <2>2
<1>5. CASE ForkGrep
  <2>1. PipeTypeOK'  BY <1>5, ZenonT(60) DEF ForkGrep, ForkKid, CatExits, PipeTypeOK, Kids
  <2>2. Parts'
    BY <1>5 DEF ForkGrep, ForkKid, CatExits, PipeTypeOK, Kids, PipeEnds, Closed, CatEnds, Children, Flowing, StopsEarly, Alive
  <2> QED  BY <2>1, <2>2
<1>6. CASE ForkMore
  <2>1. PipeTypeOK'  BY <1>6, ZenonT(60) DEF ForkMore, ForkKid, CatExits, PipeTypeOK, Kids
  <2>2. Parts'
    BY <1>6 DEF ForkMore, ForkKid, CatExits, PipeTypeOK, Kids, PipeEnds, Closed, CatEnds, Children, Flowing, StopsEarly, Alive
  <2> QED  BY <2>1, <2>2
<1>7. CASE CloseEnds
  <2>1. PipeTypeOK'  BY <1>7 DEF CloseEnds, PipeTypeOK, Kids
  <2>2. Parts'
    BY <1>7 DEF CloseEnds, PipeTypeOK, Kids, PipeEnds, Closed, CatEnds, Children, Flowing, StopsEarly, Alive
  <2> QED  BY <2>1, <2>2
<1>8. CASE Read
  <2>1. PipeTypeOK'
    <3> DEFINE n == IF Len(unread) < BufSize THEN Len(unread) ELSE BufSize
    <3>2. unread \in Seq(Nat) /\ Len(unread) \in Nat
      BY LenProperties DEF PipeTypeOK
    <3>1. /\ n \in Nat /\ n <= Len(unread)
          /\ buf' = SubSeq(unread, 1, n)
          /\ unread' = SubSeq(unread, n + 1, Len(unread))
      <4>1. n \in Nat /\ n <= Len(unread)
        BY <3>2, PipelineAssumption
      <4>2. /\ buf' = SubSeq(unread, 1, n)
            /\ unread' = SubSeq(unread, n + 1, Len(unread))
        BY <1>8, Zenon DEF Read
      <4> QED  BY <4>1, <4>2
    <3> HIDE DEF n
    <3>3. \A k \in 1..Len(unread) : unread[k] \in Nat
      BY <3>2, ElementOfSeq
    <3>4. buf' \in Seq(Nat)
      BY <3>1, <3>2, <3>3, SubSeqProperties
    <3>5. unread' \in Seq(Nat)
      BY <3>1, <3>2, <3>3, SubSeqProperties
    <3> QED  BY <1>8, <3>4, <3>5 DEF Read, PipeTypeOK
  <2>2. Parts'
    BY <1>8 DEF Read, PipeTypeOK, Kids, Closed, CatEnds, Children, Flowing, StopsEarly, Alive
  <2> QED  BY <2>1, <2>2
<1>8a. CASE ReadFails
  <2>1. PipeTypeOK'  BY <1>8a DEF ReadFails, PipeTypeOK
  <2>2. Parts'
    BY <1>8a DEF ReadFails, PipeTypeOK, Kids, Closed, CatEnds, Children, Flowing, StopsEarly, Alive
  <2> QED  BY <2>1, <2>2
<1>9. CASE Write
  <2>1. PipeTypeOK'
    <3>1. PICK k \in 1..Len(buf) : /\ pipe1' = pipe1 \o SubSeq(buf, 1, k)
                                  /\ werr' = k /\ taken' = taken + k
      BY <1>9 DEF Write
    <3>2. buf \in Seq(Nat) /\ Len(buf) \in Nat /\ \A i \in 1..Len(buf) : buf[i] \in Nat
      BY LenProperties, ElementOfSeq DEF PipeTypeOK
    <3>3. SubSeq(buf, 1, k) \in Seq(Nat)
      BY <3>2, SubSeqProperties
    <3>4. pipe1' \in Seq(Nat)
      BY <3>1, <3>3, ConcatProperties DEF PipeTypeOK
    <3> QED  BY <1>9, <3>1, <3>2, <3>4 DEF Write, PipeTypeOK
  <2>2. Parts'
    BY <1>9, SMTT(40) DEF Write, PipeTypeOK, Kids, Closed, CatEnds, Children, Flowing, StopsEarly, Alive
  <2> QED  BY <2>1, <2>2
<1>10. CASE CountBytes
  <2>1. PipeTypeOK'  BY <1>10, SMTT(30) DEF CountBytes, PipeTypeOK
  <2>2. Parts'
    BY <1>10 DEF CountBytes, PipeTypeOK, Kids, Closed, CatEnds, Children, Flowing, StopsEarly, Alive
  <2> QED  BY <2>1, <2>2
\* A write finds no reader only if the pipeline was cut short.
<1>11. CASE BrokenPipe
  <2>1. PipeTypeOK'  BY <1>11 DEF BrokenPipe, CatExits, PipeTypeOK, Kids
  <2>2. cut
    BY <1>11 DEF BrokenPipe, Held, Flowing, Kids
  <2>3. Parts'
    BY <1>11, <2>2 DEF BrokenPipe, CatExits, PipeTypeOK, Kids, Closed, CatEnds, Children, Flowing, StopsEarly, Alive
  <2> QED  BY <2>1, <2>3
<1>12. CASE CloseLast
  <2>1. PipeTypeOK'  BY <1>12 DEF CloseLast, PipeTypeOK, Kids
  <2>2. Parts'
    BY <1>12 DEF CloseLast, PipeTypeOK, Kids, Closed, CatEnds, Children, Flowing, StopsEarly, Alive
  <2> QED  BY <2>1, <2>2
<1>13. CASE Wait1
  <2>1. PipeTypeOK'  BY <1>13 DEF Wait1, Reap, PipeTypeOK, Kids
  <2>2. Parts'
    BY <1>13 DEF Wait1, Reap, PipeTypeOK, Kids, Closed, CatEnds, Children, Flowing, StopsEarly, Alive
  <2> QED  BY <2>1, <2>2
<1>14. CASE Wait2
  <2>1. PipeTypeOK'
    <3>1. kids' \in [Kids -> {"none", "forked", "ready", "running", "zombie"}]
      BY <1>14 DEF Wait2, Reap, PipeTypeOK
    <3>2. infile' \in Nat \ {0}
      <4>1. infile \in Nat /\ infile # 0
        BY DEF PipeTypeOK
      <4>2. infile' = infile + 1
        BY <1>14 DEF Wait2
      <4> QED  BY <4>1, <4>2
    <3> QED  BY <1>14, <3>1, <3>2 DEF Wait2, PipeTypeOK
  <2>2. Parts'
    BY <1>14 DEF Wait2, Reap, PipeTypeOK, Kids, Closed, CatEnds, Children, Flowing, StopsEarly, Alive
  <2> QED  BY <2>1, <2>2
<1>15. ASSUME NEW p \in Kids, Setup(p) PROVE IInv'
  <2>1. PipeTypeOK'  BY <1>15 DEF Setup, Own, PipeTypeOK, Kids, PipeEnds
  <2>2. Parts'
    BY <1>15, ZenonT(60) DEF Setup, Own, PipeTypeOK, Kids, Closed, CatEnds, Children, Flowing, StopsEarly, Alive
  <2> QED  BY <2>1, <2>2
<1>16. ASSUME NEW p \in Kids, ExecKid(p) PROVE IInv'
  <2>1. PipeTypeOK'  BY <1>16, ZenonT(40) DEF ExecKid, KidExits, PipeTypeOK, Kids
  <2>2. CASE kids' = [kids EXCEPT ![p] = "running"] /\ UNCHANGED <<fds, cut>>
    BY <1>16, <2>1, <2>2 DEF ExecKid, PipeTypeOK, Kids, Closed, CatEnds, Children, Flowing, StopsEarly, Alive
  <2>3. CASE KidExits(p) /\ cut' = TRUE
    BY <1>16, <2>1, <2>3 DEF ExecKid, KidExits, PipeTypeOK, Kids, Closed, CatEnds, Children, Flowing, StopsEarly, Alive
  <2> QED  BY <1>16, <2>2, <2>3 DEF ExecKid
<1>17. CASE GrepReads
  <2>1. Tail(pipe1) \in Seq(Nat) /\ Head(pipe1) \in Nat
    BY <1>17, HeadTailProperties DEF GrepReads, PipeTypeOK
  <2>2. line' \in Seq(Nat)
    BY <1>17, <2>1, EmptySeq DEF GrepReads
  <2>3. PipeTypeOK'  BY <1>17, <2>1, <2>2 DEF GrepReads, PipeTypeOK
  <2>4. Parts'
    BY <1>17 DEF GrepReads, PipeTypeOK, Closed, CatEnds, Children, Flowing, StopsEarly, Alive
  <2> QED  BY <2>3, <2>4
<1>18. CASE GrepWrites
  <2>1. PipeTypeOK'
    <3>1. pipe2 \o line \in Seq(Nat)
      BY ConcatProperties DEF PipeTypeOK
    <3>2. <<>> \in Seq(Nat)
      BY EmptySeq
    <3> QED  BY <1>18, <3>1, <3>2 DEF GrepWrites, PipeTypeOK
  <2>2. Parts'
    BY <1>18 DEF GrepWrites, PipeTypeOK, Closed, CatEnds, Children, Flowing, StopsEarly, Alive
  <2> QED  BY <2>1, <2>2
\* grep ends by itself only when the program has nothing more to write.
<1>19. CASE GrepEnds
  <2>1. PipeTypeOK'  BY <1>19 DEF GrepEnds, KidExits, PipeTypeOK, Kids
  <2>2. ~cut => cat \notin {"fork_more", "close", "read", "write", "count", "close_last"}
    BY <1>19 DEF GrepEnds, Held, Flowing, CatEnds, Kids, PipeEnds
  <2>3. Parts'
    BY <1>19, <2>2 DEF GrepEnds, KidExits, PipeTypeOK, Kids, Closed, CatEnds, Children, Flowing, StopsEarly, Alive
  <2> QED  BY <2>1, <2>3
<1>20. CASE MoreShows
  <2>1. PipeTypeOK'
    <3>1. Tail(pipe2) \in Seq(Nat) /\ Head(pipe2) \in Nat
      BY <1>20, HeadTailProperties DEF MoreShows, PipeTypeOK
    <3>2. page' \in Seq(Nat)
      <4>1. page' = Append(page, Head(pipe2))
        BY <1>20 DEF MoreShows
      <4>2. page \in Seq(Nat)
        BY DEF PipeTypeOK
      <4> QED  BY <3>1, <4>1, <4>2, AppendProperties
    <3> QED  BY <1>20, <3>1, <3>2 DEF MoreShows, PipeTypeOK
  <2>2. Parts'
    BY <1>20 DEF MoreShows, PipeTypeOK, Closed, CatEnds, Children, Flowing, StopsEarly, Alive
  <2> QED  BY <2>1, <2>2
<1>21. CASE MoreEnds
  <2>1. PipeTypeOK'  BY <1>21 DEF MoreEnds, KidExits, PipeTypeOK, Kids
  <2>2. ~cut => cat \notin {"fork_more", "close", "read", "write", "count", "close_last"}
    BY <1>21 DEF MoreEnds, Held, Flowing, Children, Kids
  <2>3. Parts'
    BY <1>21, <2>2 DEF MoreEnds, KidExits, PipeTypeOK, Kids, Closed, CatEnds, Children, Flowing, StopsEarly, Alive
  <2> QED  BY <2>1, <2>3
<1>22. CASE MoreQuits
  <2>1. PipeTypeOK'  BY <1>22 DEF MoreQuits, KidExits, PipeTypeOK, Kids
  <2>2. Parts'
    BY <1>22 DEF MoreQuits, KidExits, PipeTypeOK, Kids, Closed, CatEnds, Children, Flowing, StopsEarly, Alive
  <2> QED  BY <2>1, <2>2
<1>23. CASE Interrupt
  <2>1. PipeTypeOK'  BY <1>23 DEF Interrupt, PipeTypeOK, Kids
  <2>2. Parts'
    BY <1>23 DEF Interrupt, PipeTypeOK, Kids, Closed, CatEnds, Children, Flowing, StopsEarly, Alive
  <2> QED  BY <2>1, <2>2
<1>24. CASE UNCHANGED pipeVars
  <2>1. PipeTypeOK'  BY <1>24 DEF pipeVars, PipeTypeOK
  <2>2. Parts'
    BY <1>24 DEF pipeVars, Closed, CatEnds, Children, Flowing, StopsEarly, Alive
  <2> QED  BY <2>1, <2>2
<1> QED
  BY <1>1, <1>2, <1>3, <1>4, <1>5, <1>6, <1>7, <1>8, <1>9, <1>10, <1>11, <1>12, <1>13, <1>14,
     <1>15, <1>16, <1>17, <1>18, <1>19, <1>20, <1>21, <1>22, <1>23, <1>24, <1>3a, <1>8a
  DEF PipeNext, CatStep, KidStep

\* The inductive invariant the theorems about the pipeline rest on.
THEOREM Invariance == PipeSpec => []IInv
<1>1. PipeInit => IInv  BY InitIInv
<1>2. IInv /\ [PipeNext]_pipeVars => IInv'  BY NextIInv
<1> QED  BY <1>1, <1>2, PTL DEF PipeSpec

\* The files are processed in turn, for any files, sizes and failures: nothing
\* is left of one pipeline when the next begins, and no file is left out
\* unless something was cut short (catgrepmore.c:34-118).
THEOREM InTurn == PipeSpec => []FilesInTurn
<1>1. IInv => FilesInTurn
  <2> SUFFICES ASSUME IInv PROVE OneAtATime
    BY DEF IInv, FilesInTurn
  <2> QED  BY DEF IInv, OneAtATime, Closed, CatEnds, Children, Alive
<1> QED  BY <1>1, Invariance, PTL

------------------------------------------------------------------------------
\* The files before the n-th that could be opened.
Before(n) == {i \in 1..Len(infiles) : infiles[i] # Missing /\ i < n}

\* What the counters are worth: the bytes the pipes took, but for those of the
\* last write, and the files opened, but for the one just opened.
Counted ==
    /\ Len(buf) <= BufSize
    /\ cat = "count" => werr <= Len(buf)
    /\ bfork <= bproc
    /\ cat # "exited" => /\ taken = bproc + (IF cat = "count" THEN werr ELSE 0)
                         /\ Opened = fproc + (IF cat = "opened" THEN 1 ELSE 0)

LEMMA OpenedIs ==
  ASSUME PipeTypeOK
  PROVE  /\ cat = "loop" => Opened = Cardinality(Before(infile))
         /\ cat # "loop" => Opened = Cardinality(Before(infile + 1))
<1>1. infile + 0 = infile
  <2>1. infile \in Nat
    BY DEF PipeTypeOK
  <2> QED  BY <2>1
<1> QED  BY <1>1 DEF Opened, Before

LEMMA OneMore ==
  ASSUME PipeTypeOK, infile <= Len(infiles)
  PROVE  /\ Cardinality(Before(infile)) \in Nat
         /\ Cardinality(Before(infile + 1)) =
              Cardinality(Before(infile)) + (IF infiles[infile] = Missing THEN 0 ELSE 1)
<1>1. infile \in 1..Len(infiles) /\ Len(infiles) \in Nat
  <2>1. infile \in Nat /\ infile # 0 /\ infiles \in Seq(Nat \cup {Missing})
    BY DEF PipeTypeOK
  <2> QED  BY <2>1, LenProperties
<1>2. IsFiniteSet(Before(infile))
  <2>1. IsFiniteSet(1..Len(infiles))
    BY <1>1, FS_Interval
  <2> QED  BY <2>1, FS_Subset DEF Before
<1>3. CASE infiles[infile] = Missing
  <2>1. Before(infile + 1) = Before(infile)
    BY <1>1, <1>3 DEF Before
  <2> QED  BY <1>2, <1>3, <2>1, FS_CardinalityType
<1>4. CASE infiles[infile] # Missing
  <2>1. Before(infile + 1) = Before(infile) \cup {infile} /\ infile \notin Before(infile)
    BY <1>1, <1>4 DEF Before
  <2> QED  BY <1>2, <1>4, <2>1, FS_CardinalityType, FS_AddElement
<1> QED  BY <1>3, <1>4

\* Opened changes only with infile and at the two ends of the loop's body.
LEMMA OpenedStep ==
  ASSUME infiles' = infiles, infile' = infile, (cat' = "loop") <=> (cat = "loop")
  PROVE  Opened' = Opened
BY DEF Opened

LEMMA InitCounted ==
  ASSUME PipeInit PROVE Counted /\ ReportHonest
<1>1. Before(1) = {}
  <2>1. Len(infiles) \in Nat
    BY PipelineAssumption, LenProperties DEF PipeInit
  <2> QED  BY <2>1 DEF Before
<1>2. Opened = 0
  BY <1>1, InitIInv, OpenedIs, FS_EmptySet DEF PipeInit, IInv
<1>3. Len(buf) = 0
  BY EmptySeq DEF PipeInit
<1>4. reports = {}
  BY DEF PipeInit
<1>5. cat = "loop" /\ bfork = 0 /\ bproc = 0 /\ taken = 0 /\ fproc = 0
  BY DEF PipeInit
<1>6. 0 <= BufSize
  BY PipelineAssumption
<1> QED  BY <1>2, <1>3, <1>4, <1>5, <1>6 DEF Counted, ReportHonest

\* A step that counts nothing, opens nothing and reports nothing.
LEMMA Quiet ==
  ASSUME Counted, ReportHonest,
         UNCHANGED <<infiles, infile, werr, fproc, bproc, bfork, taken, reports>>,
         Len(buf') <= Len(buf) \/ Len(buf') <= BufSize,
         BufSize \in Nat, Len(buf) \in Nat, Len(buf') \in Nat,
         \/ cat' = "exited"
         \/ cat' = cat /\ buf' = buf
         \/ cat \notin {"loop", "opened", "count", "exited"} /\ cat' \notin {"loop", "opened", "count"}
  PROVE  Counted' /\ ReportHonest'
<1>1. ReportHonest'
  BY DEF ReportHonest
<1>2. cat' # "exited" => Opened' = Opened
  BY OpenedStep
<1>3. Len(buf') <= BufSize
  BY DEF Counted
<1>4. cat' = "count" => werr' <= Len(buf')
  BY DEF Counted
<1>5. bfork' <= bproc'
  BY DEF Counted
<1>6. cat' # "exited" => taken' = bproc' + (IF cat' = "count" THEN werr' ELSE 0)
  BY DEF Counted
<1>7. cat' # "exited" => Opened' = fproc' + (IF cat' = "opened" THEN 1 ELSE 0)
  BY <1>2 DEF Counted
<1>8. Counted'
  BY <1>3, <1>4, <1>5, <1>6, <1>7 DEF Counted
<1> QED  BY <1>1, <1>8


\* Counted after a step that leaves the program somewhere between two counts.
LEMMA BetweenCounts ==
  ASSUME bproc' \in Nat, fproc' \in Nat,
         cat' \notin {"count", "opened"},
         Len(buf') <= BufSize, bfork' <= bproc',
         cat' # "exited" => taken' = bproc' /\ Opened' = fproc'
  PROVE  Counted'
<1>1. \A n \in Nat : n + 0 = n
  OBVIOUS
<1> QED  BY <1>1 DEF Counted

LEMMA NextCounted ==
  ASSUME IInv, IInv', Counted, ReportHonest, [PipeNext]_pipeVars
  PROVE  Counted' /\ ReportHonest'
<1> USE DEF catVars, dataVars, histVars
<1>1. /\ infile \in Nat /\ infile # 0
      /\ fproc \in Nat /\ bproc \in Nat /\ bfork \in Nat /\ taken \in Nat /\ werr \in Nat
  BY DEF IInv, PipeTypeOK
<1>2. BufSize \in Nat /\ BufSize # 0
  BY PipelineAssumption
<1>3. unread \in Seq(Nat) /\ buf \in Seq(Nat) /\ buf' \in Seq(Nat)
  BY DEF IInv, PipeTypeOK
<1>4. Len(buf) \in Nat /\ Len(buf') \in Nat /\ Len(unread) \in Nat
  BY <1>3, LenProperties
<1>0. /\ Len(buf) <= BufSize /\ bfork <= bproc
      /\ cat \notin {"count", "exited"} => taken = bproc
      /\ cat \notin {"opened", "exited"} => Opened = fproc
      /\ cat = "opened" => Opened = fproc + 1
  <2>1. bproc + 0 = bproc /\ fproc + 0 = fproc
    BY <1>1
  <2> QED  BY <2>1 DEF Counted
<1>5. CASE EndOfArgs
  BY <1>2, <1>4, <1>5, Quiet DEF EndOfArgs, CatExits
<1>6. CASE SkipFile
  <2>1. Opened' = Opened
    <3>1. Opened = Cardinality(Before(infile)) /\ Opened' = Cardinality(Before(infile + 1))
      BY <1>6, OpenedIs DEF SkipFile, IInv, Opened, Before
    <3> QED  BY <1>6, <3>1, OneMore DEF SkipFile, IInv
  <2> QED  BY <1>6, <2>1 DEF SkipFile, Counted, ReportHonest
<1>7. CASE OpenFile
  <2>1. Opened' = Opened + 1
    <3>1. Opened = Cardinality(Before(infile)) /\ Opened' = Cardinality(Before(infile + 1))
      BY <1>7, OpenedIs DEF OpenFile, IInv, Opened, Before
    <3> QED  BY <1>7, <3>1, OneMore DEF OpenFile, IInv
  <2>2. Counted'
    <3>1. UNCHANGED <<buf, werr, bfork, bproc, taken, fproc>> /\ cat = "loop" /\ cat' = "opened"
      BY <1>7 DEF OpenFile
    <3>2. taken = bproc /\ Opened = fproc /\ Len(buf) <= BufSize /\ bfork <= bproc
      BY <1>0, <3>1
    <3> QED  BY <1>1, <2>1, <3>1, <3>2 DEF Counted
  <2> QED  BY <1>7, <2>2 DEF OpenFile, ReportHonest
<1>8. CASE MakePipes
  <2>1. Opened' = Opened
    BY <1>8, OpenedStep DEF MakePipes
  <2>2. Counted'
    <3>1. /\ UNCHANGED <<buf, werr, bfork, bproc, taken>>
          /\ cat = "opened" /\ cat' = "fork_grep" /\ fproc' = fproc + 1
      BY <1>8 DEF MakePipes
    <3>2. taken = bproc /\ Opened = fproc + 1 /\ Len(buf) <= BufSize /\ bfork <= bproc
      BY <1>0, <3>1
    <3>3. bproc' \in Nat /\ fproc' \in Nat /\ bfork' <= bproc' /\ Len(buf') <= BufSize
      BY <1>1, <3>1, <3>2
    <3>4. taken' = bproc' /\ Opened' = fproc'
      BY <2>1, <3>1, <3>2
    <3> QED  BY <3>1, <3>3, <3>4, BetweenCounts
  <2> QED  BY <1>8, <2>2 DEF MakePipes, ReportHonest
<1>9. CASE PipeFails
  BY <1>9 DEF PipeFails, CatExits, Counted, ReportHonest
<1>10. ASSUME NEW p \in Kids, NEW from \in {"fork_grep", "fork_more"},
              NEW to \in {"fork_more", "close"}, ForkKid(p, from, to)
       PROVE  Counted' /\ ReportHonest'
  <2>1. cat' # "exited" => Opened' = Opened
    BY <1>10, OpenedStep DEF ForkKid, CatExits
  <2>2. Counted'
    <3>1. /\ UNCHANGED <<buf, werr, bproc, taken, fproc>>
          /\ cat = from /\ cat' \in {to, "exited"} /\ bfork' \in {bfork, bproc}
      BY <1>10 DEF ForkKid, CatExits
    <3>2. taken = bproc /\ Opened = fproc /\ Len(buf) <= BufSize /\ bfork <= bproc
      BY <1>0, <1>10, <3>1
    <3>3. cat' # "exited" => taken' = bproc' /\ Opened' = fproc'
      BY <2>1, <3>1, <3>2
    <3>4. bproc' \in Nat /\ fproc' \in Nat /\ bfork' <= bproc' /\ Len(buf') <= BufSize
      BY <1>1, <3>1, <3>2
    <3>5. cat' \notin {"count", "opened"}
      BY <1>10, <3>1
    <3> QED  BY <3>3, <3>4, <3>5, BetweenCounts
  <2> QED  BY <1>10, <2>2 DEF ForkKid, ReportHonest
<1>11. CASE CloseEnds
  BY <1>2, <1>4, <1>11, Quiet DEF CloseEnds
<1>12. CASE Read
  <2>1. Len(buf') <= BufSize
    <3> DEFINE n == IF Len(unread) < BufSize THEN Len(unread) ELSE BufSize
    <3>1. n \in Nat /\ n <= Len(unread) /\ n <= BufSize
      BY <1>2, <1>4
    <3>2. buf' = SubSeq(unread, 1, n)
      BY <1>12, Zenon DEF Read
    <3> HIDE DEF n
    <3>3. Len(buf') = n
      BY <1>3, <1>4, <3>1, <3>2, SubSeqProperties
    <3> QED  BY <3>1, <3>3
  <2> QED  BY <1>2, <1>4, <1>12, <2>1, Quiet DEF Read
<1>12a. CASE ReadFails
  BY <1>2, <1>4, <1>12a, Quiet DEF ReadFails
<1>13. CASE Write
  <2>1. Opened' = Opened
    BY <1>13, OpenedStep DEF Write
  <2>2. werr' \in 1..Len(buf) /\ taken' = taken + werr'
    BY <1>13 DEF Write
  <2> QED  BY <1>1, <1>4, <1>13, <2>1, <2>2 DEF Write, Counted, ReportHonest
<1>14. CASE CountBytes
  <2>1. Opened' = Opened
    BY <1>14, OpenedStep DEF CountBytes
  <2>2. werr <= Len(buf)
    BY <1>14 DEF CountBytes, Counted
  <2>3. Len(buf') <= Len(buf)
    <3>1. buf' = SubSeq(buf, werr + 1, Len(buf))
      BY <1>14 DEF CountBytes
    <3> QED  BY <1>1, <1>3, <1>4, <2>2, <3>1, SubSeqProperties
  <2> QED  BY <1>1, <1>2, <1>4, <1>14, <2>1, <2>3 DEF CountBytes, Counted, ReportHonest
<1>15. /\ cat # "exited" /\ cat # "opened" => Opened = fproc
       /\ cat = "opened" => Opened = fproc + 1
       /\ cat # "exited" => taken - bproc \in 0..BufSize
       /\ cat # "exited" => taken >= bfork
  BY <1>1, <1>2, <1>4 DEF Counted
<1>16. CASE BrokenPipe
  <2>1. reports' = reports \cup {Report("cat")}
    BY <1>16 DEF BrokenPipe
  <2> QED  BY <1>1, <1>2, <1>15, <1>16, <2>1 DEF BrokenPipe, CatExits, Counted, ReportHonest, Report
<1>17. CASE CloseLast
  <2>1. /\ UNCHANGED <<infiles, infile, werr, fproc, bproc, bfork, taken, reports>> /\ buf' = buf
        /\ cat = "close_last" /\ cat' = "wait_1"
    BY <1>17 DEF CloseLast
  <2> QED  BY <1>2, <1>4, <2>1, Quiet
<1>18. CASE Wait1
  <2>1. /\ UNCHANGED <<infiles, infile, werr, fproc, bproc, bfork, taken, reports>> /\ buf' = buf
        /\ cat = "wait_1" /\ cat' = "wait_2"
    BY <1>18 DEF Wait1
  <2> QED  BY <1>2, <1>4, <2>1, Quiet
<1>19. CASE Wait2
  <2>1. Opened' = Opened
    <3>1. infile' + 0 = infile + 1 /\ infiles' = infiles /\ cat = "wait_2" /\ cat' = "loop"
      <4>1. infile' = infile + 1 /\ infiles' = infiles /\ cat = "wait_2" /\ cat' = "loop"
        BY <1>19 DEF Wait2
      <4> QED  BY <1>1, <4>1
    <3> QED  BY <3>1 DEF Opened
  <2>2. Counted'
    <3>1. UNCHANGED <<buf, werr, bfork, bproc, taken, fproc>> /\ cat = "wait_2" /\ cat' = "loop"
      BY <1>19 DEF Wait2
    <3>2. taken = bproc /\ Opened = fproc /\ Len(buf) <= BufSize /\ bfork <= bproc
      BY <1>0, <3>1
    <3>3. bproc' \in Nat /\ fproc' \in Nat /\ bfork' <= bproc' /\ Len(buf') <= BufSize
      BY <1>1, <3>1, <3>2
    <3>4. taken' = bproc' /\ Opened' = fproc'
      BY <2>1, <3>1, <3>2
    <3> QED  BY <3>1, <3>3, <3>4, BetweenCounts
  <2> QED  BY <1>19, <2>2 DEF Wait2, ReportHonest
<1>20. ASSUME NEW p \in Kids, KidStep(p) PROVE Counted' /\ ReportHonest'
  <2>1. UNCHANGED <<infiles, cat, infile, buf, werr, fproc, bproc, bfork, taken, reports>>
    BY <1>20 DEF KidStep, Setup, ExecKid, GrepReads, GrepWrites, GrepEnds, MoreShows, MoreEnds
  <2> QED  BY <1>2, <1>4, <2>1, Quiet
<1>21. CASE MoreQuits
  BY <1>2, <1>4, <1>21, Quiet DEF MoreQuits
\* At an interrupt the counters are as Counted says, and a child that runs the
\* handler is there only while the program is past fproc++.
<1>22. CASE Interrupt
  <2>1. cat = "opened" => \A p \in Kids : kids[p] = "none"
    BY DEF IInv, Children
  <2>2. \A r \in reports' \ reports : \E p \in {"cat"} \cup Kids :
            r = Report(p) /\ (p = "cat" \/ cat # "opened")
    BY <1>22, <2>1 DEF Interrupt
  <2>3. cat # "exited"
    BY <1>22 DEF Interrupt
  <2>4. \A r \in reports' \ reports :
            /\ r.opened - r.files \in (IF r.by = "cat" THEN {0, 1} ELSE {0})
            /\ r.bytes <= r.taken
            /\ r.by = "cat" => r.taken - r.bytes <= BufSize
    BY <1>1, <1>2, <1>15, <2>2, <2>3 DEF Report, Kids
  <2>5. ReportHonest'
    BY <2>4 DEF ReportHonest
  <2> QED  BY <1>22, <2>5 DEF Interrupt, Counted
<1>23. CASE UNCHANGED pipeVars
  BY <1>2, <1>4, <1>23, Quiet DEF pipeVars
<1> QED
  BY <1>5, <1>6, <1>7, <1>8, <1>9, <1>10, <1>11, <1>12, <1>12a, <1>13, <1>14, <1>16, <1>17, <1>18,
     <1>19, <1>20, <1>21, <1>22, <1>23
  DEF PipeNext, CatStep, ForkGrep, ForkMore, Kids

\* What sighand prints is right for any files, sizes and failures, whenever the
\* signal comes: no byte that no pipe took, and short by at most one write and
\* one file (catgrepmore.c:18-22, 137-148).
THEOREM Honest == PipeSpec => []ReportHonest
<1>1. PipeInit => Counted /\ ReportHonest  BY InitCounted
<1>2. IInv /\ IInv' /\ Counted /\ ReportHonest /\ [PipeNext]_pipeVars => Counted' /\ ReportHonest'
  BY NextCounted
<1> QED  BY <1>1, <1>2, Invariance, PTL DEF PipeSpec
------------------------------------------------------------------------------
(***************************************************************************)
(* What the pager shows.  The bytes of the file that are still to come lie *)
(* in what is unread, in the buffer and in the first pipe, in this order;  *)
(* those grep has read and passed lie in its line, in the second pipe and  *)
(* on the page.                                                            *)
(***************************************************************************)
\* The program is between the pipes and the second wait.
Busy == cat \in {"fork_grep", "fork_more", "close", "read", "write", "count",
                 "close_last", "wait_1", "wait_2"}

\* The file it is at could be opened.
FileThere == Busy \/ cat = "opened" =>
    infile <= Len(infiles) /\ infiles[infile] \in Nat

\* The length of the file, how much of the buffer is to be written, and the
\* last byte that grep has read.
FileLen == infiles[infile]
Rest    == IF cat = "write" THEN Len(buf) ELSE IF cat = "count" THEN Len(buf) - werr ELSE 0
Past    == FileLen - Len(unread) - Rest - Len(pipe1)

Unread == Busy \/ cat = "opened" =>
    /\ \A i \in 1..Len(unread) : unread[i] = FileLen - Len(unread) + i
    /\ cat = "opened" => Len(unread) = FileLen
    /\ cat \in {"close_last", "wait_1", "wait_2"} => cut \/ Len(unread) = 0

Buffered == /\ cat \in {"write", "count"} =>
                  \A i \in 1..Len(buf) : buf[i] = FileLen - Len(unread) - Len(buf) + i
            /\ cat = "count" => werr <= Len(buf)

Piped == Busy => /\ Past >= 0
                 /\ \A i \in 1..Len(pipe1) : pipe1[i] = Past + i

Passed == Busy =>
    /\ Len(line) <= 1
    /\ \A i \in 1..Len(page)  : page[i] \in Hits /\ 1 <= page[i] /\ page[i] <= Past
    /\ \A i \in 1..Len(pipe2) : pipe2[i] \in Hits /\ 1 <= pipe2[i] /\ pipe2[i] <= Past
    /\ \A i \in 1..Len(line)  : line[i] \in Hits /\ 1 <= line[i] /\ line[i] <= Past
    /\ \A i, k \in 1..Len(page)  : i < k => page[i] < page[k]
    /\ \A i, k \in 1..Len(pipe2) : i < k => pipe2[i] < pipe2[k]
    /\ \A i \in 1..Len(page), k \in 1..Len(pipe2) : page[i] < pipe2[k]
    /\ \A i \in 1..Len(page), k \in 1..Len(line)  : page[i] < line[k]
    /\ \A i \in 1..Len(pipe2), k \in 1..Len(line) : pipe2[i] < line[k]

NoneMissing == Busy =>
    \A h \in Hits : (h \in 1..Past) =>
        \/ \E i \in 1..Len(page)  : page[i] = h
        \/ \E i \in 1..Len(pipe2) : pipe2[i] = h
        \/ \E i \in 1..Len(line)  : line[i] = h

\* The children end one after the other, with nothing left behind them.
Ending == ~cut /\ cat \in {"wait_1", "wait_2"} =>
    /\ Alive("grep") => /\ "w2" \in fds["grep"]
                        /\ Alive("more") /\ "r2" \in fds["more"]
    /\ ~Alive("grep") => line = <<>> /\ pipe1 = <<>>
    /\ ~Alive("more") => ~Alive("grep") /\ pipe2 = <<>>

\* What is left of the children of a program that has exited is not waited for.
NoZombies == cat = "exited" => \A p \in Kids : kids[p] # "zombie"

Showing == FileThere /\ Unread /\ Buffered /\ Piped /\ Passed /\ NoneMissing /\ Ending /\ NoZombies

Data == FileThere /\ Unread /\ Buffered /\ Piped /\ Passed /\ NoneMissing

\* Past and the rest are made of lengths.
LEMMA Lengths ==
  ASSUME PipeTypeOK
  PROVE  /\ Len(unread) \in Nat /\ Len(buf) \in Nat /\ Len(pipe1) \in Nat
         /\ Len(pipe2) \in Nat /\ Len(line) \in Nat /\ Len(page) \in Nat
         /\ werr \in Nat /\ Rest \in Int
         /\ FileLen \in Nat => Past \in Int
<1>1. /\ Len(unread) \in Nat /\ Len(buf) \in Nat /\ Len(pipe1) \in Nat
      /\ Len(pipe2) \in Nat /\ Len(line) \in Nat /\ Len(page) \in Nat
      /\ werr \in Nat
  BY LenProperties DEF PipeTypeOK
<1>2. Rest \in Int
  BY <1>1 DEF Rest
<1>3. ASSUME FileLen \in Nat PROVE Past \in Int
  BY <1>1, <1>2, <1>3 DEF Past
<1> QED BY <1>1, <1>2, <1>3

\* Between two files nothing is said of the data.
LEMMA DataIdle ==
  ASSUME ~Busy', cat' # "opened" PROVE Data'
BY DEF Data, FileThere, Unread, Buffered, Piped, Passed, NoneMissing, Busy

\* A step that leaves the data alone.
LEMMA DataSame ==
  ASSUME Data, UNCHANGED <<infiles, infile, unread, buf, werr, pipe1, pipe2, line, page>>,
         cut => cut',
         \/ cat' = cat
         \/ /\ Busy /\ cat \notin {"write", "count"}
            /\ cat' \notin {"opened", "write", "count"}
            /\ cat' \in {"close_last", "wait_1", "wait_2"} =>
                  cut' \/ cat \in {"close_last", "wait_1", "wait_2"}
  PROVE  Data'
<1>1. Rest' = Rest
  BY DEF Rest
<1>2. FileLen' = FileLen /\ Past' = Past
  BY <1>1 DEF FileLen, Past
<1>3. Busy' => Busy
  BY DEF Busy
<1>4. cat' = "opened" => cat = "opened"
  BY DEF Busy
<1>5. FileThere'
  BY <1>3, <1>4 DEF Data, FileThere
<1>6. Unread'
  BY <1>2, <1>3, <1>4 DEF Data, Unread
<1>7. Buffered'
  BY <1>2 DEF Data, Buffered
<1>8. Piped' /\ Passed' /\ NoneMissing'
  BY <1>2, <1>3 DEF Data, Piped, Passed, NoneMissing
<1> QED BY <1>5, <1>6, <1>7, <1>8 DEF Data

LEMMA OpenFileData ==
  ASSUME PipeTypeOK, Data, OpenFile PROVE Data'
<1>1. /\ infile <= Len(infiles) /\ FileLen # Missing /\ cat' = "opened"
      /\ unread' = [k \in 1..FileLen |-> k] /\ UNCHANGED <<infiles, infile>>
  BY DEF OpenFile, FileLen
<1>2. FileLen \in Nat
  <2>1. infiles \in Seq(Nat \cup {Missing}) /\ infile \in Nat /\ infile # 0
    BY DEF PipeTypeOK
  <2>2. infile \in 1..Len(infiles)
    BY <1>1, <2>1, LenProperties
  <2> QED BY <1>1, <2>1, <2>2, ElementOfSeq DEF FileLen
<1>3. FileLen' = FileLen
  BY <1>1 DEF FileLen
<1>4. ~Busy'
  BY <1>1 DEF Busy
<1>5. FileThere'
  BY <1>1, <1>2, <1>3 DEF FileThere, FileLen
<1>6. Len(unread') = FileLen /\ \A i \in 1..FileLen : unread'[i] = i
  BY <1>1, <1>2
<1>7. Unread'
  <2>1. \A i \in 1..FileLen : FileLen - FileLen + i = i
    BY <1>2
  <2> QED BY <1>1, <1>3, <1>6, <2>1 DEF Unread
<1> QED BY <1>1, <1>4, <1>5, <1>7 DEF Data, Buffered, Piped, Passed, NoneMissing

LEMMA MakePipesData ==
  ASSUME PipeTypeOK, Data, MakePipes PROVE Data'
<1>1. /\ cat = "opened" /\ cat' = "fork_grep" /\ ~Busy
      /\ pipe1' = <<>> /\ pipe2' = <<>> /\ line' = <<>> /\ page' = <<>>
      /\ UNCHANGED <<infiles, infile, unread>>
  BY DEF MakePipes, Busy
<1>2. FileLen \in Nat /\ FileLen' = FileLen /\ FileThere' /\ Len(unread) = FileLen
  BY <1>1 DEF Data, FileThere, FileLen, Unread
<1>3. Past' = 0
  <2>1. Rest' = 0 /\ Len(pipe1') = 0
    BY <1>1 DEF Rest
  <2>2. Past' = FileLen - FileLen - 0 - 0
    BY ONLY <1>1, <1>2, <2>1, Zenon DEF Past
  <2> QED BY <1>2, <2>2
<1>4. Unread'
  BY <1>1, <1>2 DEF Data, Unread
<1>5. /\ Len(pipe1') = 0 /\ Len(pipe2') = 0 /\ Len(line') = 0 /\ Len(page') = 0
  BY <1>1
<1>6. Piped' /\ Passed' /\ NoneMissing'
  BY <1>3, <1>5 DEF Piped, Passed, NoneMissing
<1> QED BY <1>1, <1>2, <1>4, <1>6 DEF Data, Buffered

LEMMA ReadData ==
  ASSUME PipeTypeOK, Data, Read PROVE Data'
<1> DEFINE m == Len(unread)
           n == IF m < BufSize THEN m ELSE BufSize
<1>1. /\ cat = "read" /\ Busy /\ cat' = IF n > 0 THEN "write" ELSE "close_last"
      /\ buf' = SubSeq(unread, 1, n) /\ unread' = SubSeq(unread, n + 1, m)
      /\ UNCHANGED <<infiles, infile, pipe1, pipe2, line, page>>
  <2>1. cat = "read" /\ Busy
    BY DEF Read, Busy
  <2>2. /\ cat' = IF n > 0 THEN "write" ELSE "close_last"
        /\ buf' = SubSeq(unread, 1, n) /\ unread' = SubSeq(unread, n + 1, m)
    BY Zenon DEF Read
  <2>3. UNCHANGED <<infiles, infile, pipe1, pipe2, line, page>>
    BY DEF Read, dataVars
  <2> QED BY ONLY <2>1, <2>2, <2>3, Zenon
<1>2. FileLen \in Nat /\ FileLen' = FileLen /\ FileThere'
  BY <1>1 DEF Data, FileThere, FileLen, Busy
<1>3. m \in Nat /\ n \in Nat /\ n <= m /\ (n = 0 => m = 0)
  BY Lengths, PipelineAssumption
<1>4. unread \in Seq(Nat) /\ \A i \in 1..m : unread[i] = FileLen - m + i
  BY <1>1 DEF Data, Unread, PipeTypeOK
<1> HIDE DEF n
<1>5. Len(buf') = n /\ \A i \in 1..n : buf'[i] = unread[i]
  BY <1>1, <1>3, <1>4
<1>6. Len(unread') = m - n /\ \A i \in 1..m - n : unread'[i] = unread[n + i]
  BY <1>1, <1>3, <1>4
<1>7. cat' \in {"write", "close_last"} /\ cat' # "count" /\ Busy'
  BY <1>1 DEF Busy
<1>8. Past' = Past
  <2>1. Rest = 0 /\ Rest' = n
    BY <1>1, <1>3, <1>5 DEF Rest
  <2>2. Past = FileLen - m - 0 - Len(pipe1) /\ Past' = FileLen - (m - n) - n - Len(pipe1)
    BY <1>1, <1>2, <1>6, <2>1 DEF Past
  <2> QED BY <1>2, <1>3, <2>2, Lengths
<1>9. Unread'
  <2>1. \A i \in 1..m - n : n + i \in 1..m /\ FileLen - m + (n + i) = FileLen - (m - n) + i
    BY <1>2, <1>3
  <2>2. \A i \in 1..m - n : unread'[i] = FileLen - (m - n) + i
    BY <1>4, <1>6, <2>1
  <2>3. cat' = "close_last" => m - n = 0
    BY <1>1, <1>3
  <2> QED BY <1>2, <1>6, <1>7, <2>2, <2>3 DEF Unread
<1>10. Buffered'
  <2>1. \A i \in 1..n : i \in 1..m /\ FileLen - m + i = FileLen - (m - n) - n + i
    BY <1>2, <1>3
  <2> QED BY <1>2, <1>4, <1>5, <1>6, <1>7, <2>1 DEF Buffered
<1>11. Piped' /\ Passed' /\ NoneMissing'
  BY <1>1, <1>8 DEF Data, Piped, Passed, NoneMissing
<1> QED BY <1>2, <1>9, <1>10, <1>11 DEF Data

LEMMA WriteData ==
  ASSUME PipeTypeOK, Data, Write PROVE Data'
<1> DEFINE m == Len(buf)
           l == Len(pipe1)
<1>1. /\ cat = "write" /\ Busy /\ cat' = "count" /\ Busy'
      /\ UNCHANGED <<infiles, infile, unread, buf, pipe2, line, page>>
  BY DEF Write, Busy
<1>2. PICK k \in 1..m : pipe1' = pipe1 \o SubSeq(buf, 1, k) /\ werr' = k
  BY DEF Write
<1>3. FileLen \in Nat /\ FileLen' = FileLen /\ FileThere'
  BY <1>1 DEF Data, FileThere, FileLen, Busy
<1>4. m \in Nat /\ l \in Nat /\ Len(unread) \in Nat /\ k \in Nat /\ k <= m
  BY Lengths
<1>5. /\ \A i \in 1..m : buf[i] = FileLen - Len(unread) - m + i
      /\ \A i \in 1..l : pipe1[i] = Past + i
      /\ Past >= 0
  BY <1>1 DEF Data, Buffered, Piped
<1>6. /\ Len(pipe1') = l + k
      /\ \A i \in 1..l : pipe1'[i] = pipe1[i]
      /\ \A i \in 1..k : pipe1'[l + i] = buf[i]
  BY <1>2, <1>4 DEF PipeTypeOK
<1>7. Past = FileLen - Len(unread) - m - l /\ Past' = Past
  <2>1. Rest = m /\ Rest' = m - k
    BY <1>1, <1>2 DEF Rest
  <2>2. Past = FileLen - Len(unread) - m - l /\ Past' = FileLen - Len(unread) - (m - k) - (l + k)
    BY ONLY <1>1, <1>3, <1>6, <2>1, Zenon DEF Past
  <2> QED BY <1>3, <1>4, <2>2
<1>8. Unread'
  BY <1>1, <1>3 DEF Data, Unread
<1>9. Buffered'
  BY <1>1, <1>2, <1>3, <1>4, <1>5 DEF Buffered
<1>10. Piped'
  <2>1. ASSUME NEW i \in 1..l + k PROVE pipe1'[i] = Past + i
    <3>1. CASE i \in 1..l
      BY <1>5, <1>6, <3>1
    <3>2. CASE i \notin 1..l
      <4>1. i - l \in 1..k /\ i - l \in 1..m /\ l + (i - l) = i
        BY <1>4, <3>2
      <4>2. pipe1'[i] = FileLen - Len(unread) - m + (i - l)
        BY <1>5, <1>6, <4>1
      <4>3. FileLen - Len(unread) - m + (i - l) = FileLen - Len(unread) - m - l + i
        BY <1>3, <1>4
      <4> QED BY <1>7, <4>2, <4>3
    <3> QED BY <3>1, <3>2
  <2> QED BY <1>5, <1>6, <1>7, <2>1 DEF Piped
<1>11. Passed' /\ NoneMissing'
  BY <1>1, <1>7 DEF Data, Passed, NoneMissing
<1> QED BY <1>3, <1>8, <1>9, <1>10, <1>11 DEF Data

LEMMA CountData ==
  ASSUME PipeTypeOK, Data, CountBytes PROVE Data'
<1> DEFINE m == Len(buf)
<1>1. /\ cat = "count" /\ Busy /\ Busy'
      /\ cat' = IF werr < m THEN "write" ELSE "read"
      /\ buf' = SubSeq(buf, werr + 1, m)
      /\ UNCHANGED <<infiles, infile, unread, pipe1, pipe2, line, page>>
  BY DEF CountBytes, Busy, dataVars
<1>2. FileLen \in Nat /\ FileLen' = FileLen /\ FileThere'
  BY <1>1 DEF Data, FileThere, FileLen, Busy
<1>3. m \in Nat /\ Len(unread) \in Nat /\ werr \in Nat
  BY Lengths
<1>4. werr <= m /\ \A i \in 1..m : buf[i] = FileLen - Len(unread) - m + i
  BY <1>1 DEF Data, Buffered
<1>5. Len(buf') = m - werr /\ \A i \in 1..m - werr : buf'[i] = buf[werr + i]
  BY <1>1, <1>3, <1>4 DEF PipeTypeOK
<1>6. Past' = Past
  <2>1. Rest = m - werr /\ Rest' = m - werr
    BY <1>1, <1>3, <1>4, <1>5 DEF Rest
  <2> QED BY <1>1, <1>2, <2>1, Zenon DEF Past
<1>7. cat' \in {"write", "read"}
  BY <1>1
<1>8. Unread'
  BY <1>1, <1>2, <1>7 DEF Data, Unread
<1>9. Buffered'
  <2>1. \A i \in 1..m - werr : werr + i \in 1..m
                               /\ FileLen - Len(unread) - m + (werr + i) = FileLen - Len(unread) - (m - werr) + i
    BY <1>2, <1>3, <1>4
  <2> QED BY <1>1, <1>2, <1>4, <1>5, <1>7, <2>1 DEF Buffered
<1>10. Piped' /\ Passed' /\ NoneMissing'
  BY <1>1, <1>6 DEF Data, Piped, Passed, NoneMissing
<1> QED BY <1>2, <1>8, <1>9, <1>10 DEF Data

\* What of Data a step of a child leaves alone.
LEMMA ProgramSame ==
  ASSUME Data, UNCHANGED <<infiles, infile, cat, unread, buf, werr, cut>>
  PROVE  FileThere' /\ Unread' /\ Buffered'
BY DEF Data, FileThere, Unread, Buffered, Busy, FileLen

LEMMA GrepReadsData ==
  ASSUME PipeTypeOK, Data, GrepReads PROVE Data'
<1> DEFINE l == Len(pipe1)
<1>1. /\ line = <<>> /\ pipe1 # <<>> /\ pipe1' = Tail(pipe1)
      /\ line' = IF Head(pipe1) \in Hits THEN <<Head(pipe1)>> ELSE <<>>
      /\ UNCHANGED <<infiles, infile, cat, unread, buf, werr, pipe2, page, cut>>
  BY DEF GrepReads, catVars, histVars
<1>2. FileThere' /\ Unread' /\ Buffered'
  BY <1>1, ProgramSame
<1>3. CASE ~Busy
  <2>1. ~Busy'
    BY <1>1, <1>3 DEF Busy
  <2> QED BY <1>2, <2>1 DEF Data, Piped, Passed, NoneMissing
<1>4. CASE Busy
  <2>1. FileLen \in Nat /\ Past \in Int /\ Past >= 0
    BY <1>4, Lengths DEF Data, FileThere, FileLen, Piped
  <2>2. /\ l \in Nat /\ l >= 1 /\ Len(pipe1') = l - 1
        /\ \A i \in 1..l - 1 : pipe1'[i] = pipe1[i + 1]
        /\ Head(pipe1) = pipe1[1]
    BY <1>1 DEF PipeTypeOK
  <2>3. \A i \in 1..l : pipe1[i] = Past + i
    BY <1>4 DEF Data, Piped
  <2>4. Past' = Past + 1
    <3>1. Rest' = Rest
      BY <1>1 DEF Rest
    <3>2. Past = FileLen - Len(unread) - Rest - l /\ Past' = FileLen - Len(unread) - Rest - (l - 1)
      BY ONLY <1>1, <2>2, <3>1, Zenon DEF Past, FileLen
    <3> QED BY <2>1, <2>2, <3>2, Lengths, SMTT(30)
  <2>5. Head(pipe1) = Past + 1
    BY <2>2, <2>3
  <2>6. Piped'
    <3>1. \A i \in 1..l - 1 : i + 1 \in 1..l /\ Past + (i + 1) = Past + 1 + i
      BY <2>1, <2>2
    <3> QED BY <2>1, <2>2, <2>3, <2>4, <3>1 DEF Piped
  <2>7. /\ \A i \in 1..Len(page)  : page[i] \in Hits /\ 1 <= page[i] /\ page[i] <= Past
        /\ \A i \in 1..Len(pipe2) : pipe2[i] \in Hits /\ 1 <= pipe2[i] /\ pipe2[i] <= Past
        /\ \A i, k \in 1..Len(page)  : i < k => page[i] < page[k]
        /\ \A i, k \in 1..Len(pipe2) : i < k => pipe2[i] < pipe2[k]
        /\ \A i \in 1..Len(page), k \in 1..Len(pipe2) : page[i] < pipe2[k]
    BY <1>4 DEF Data, Passed
  <2>8. \A h \in Hits : h \in 1..Past =>
            \/ \E i \in 1..Len(page)  : page[i] = h
            \/ \E i \in 1..Len(pipe2) : pipe2[i] = h
    BY <1>1, <1>4 DEF Data, NoneMissing
  <2>9. /\ \A i \in 1..Len(page)  : page[i] \in Nat
        /\ \A i \in 1..Len(pipe2) : pipe2[i] \in Nat
    BY ElementOfSeq DEF PipeTypeOK
  <2>10. CASE Past + 1 \in Hits
    <3>1. Len(line') = 1 /\ line'[1] = Past + 1
      BY <1>1, <2>5, <2>10
    <3>2. Passed'
      BY <1>1, <2>1, <2>4, <2>7, <2>9, <2>10, <3>1 DEF Passed
    <3>3. NoneMissing'
      BY <1>1, <2>1, <2>4, <2>8, <3>1 DEF NoneMissing
    <3> QED BY <1>2, <2>6, <3>2, <3>3 DEF Data
  <2>11. CASE Past + 1 \notin Hits
    <3>1. Len(line') = 0
      BY <1>1, <2>5, <2>11
    <3>2. Passed'
      BY <1>1, <2>1, <2>4, <2>7, <2>9, <3>1 DEF Passed
    <3>3. NoneMissing'
      <4>1. \A h \in Hits : h \in 1..Past + 1 => h \in 1..Past
        BY <2>1, <2>11
      <4> QED BY <1>1, <2>4, <2>8, <4>1 DEF NoneMissing
    <3> QED BY <1>2, <2>6, <3>2, <3>3 DEF Data
  <2> QED BY <2>10, <2>11
<1> QED BY <1>3, <1>4

LEMMA GrepWritesData ==
  ASSUME PipeTypeOK, Data, GrepWrites PROVE Data'
<1> DEFINE l == Len(pipe2)
<1>1. /\ line # <<>> /\ pipe2' = pipe2 \o line /\ line' = <<>>
      /\ UNCHANGED <<infiles, infile, cat, unread, buf, werr, pipe1, page, cut>>
  BY DEF GrepWrites, catVars, histVars
<1>2. FileThere' /\ Unread' /\ Buffered'
  BY <1>1, ProgramSame
<1>3. Past' = Past /\ Busy' = Busy
  BY <1>1 DEF Past, Rest, FileLen, Busy
<1>4. Piped'
  BY <1>1, <1>3 DEF Data, Piped
<1>5. CASE ~Busy
  BY <1>2, <1>3, <1>4, <1>5 DEF Data, Passed, NoneMissing
<1>6. CASE Busy
  <2>1. Len(line) = 1 /\ line \in Seq(Nat) /\ pipe2 \in Seq(Nat)
    <3>1. Len(line) <= 1 /\ line \in Seq(Nat) /\ pipe2 \in Seq(Nat)
      BY <1>6 DEF Data, Passed, PipeTypeOK
    <3>2. Len(line) \in Nat /\ Len(line) # 0
      <4>1. \A s \in Seq(Nat) : s = <<>> <=> Len(s) = 0
        BY EmptySeq, Zenon
      <4>2. Len(line) # 0
        BY <1>1, <3>1, <4>1, Zenon
      <4>3. Len(line) \in Nat
        BY <3>1, LenProperties
      <4> QED BY <4>2, <4>3
    <3>3. \A k \in Nat : k <= 1 /\ k # 0 => k = 1
      OBVIOUS
    <3>4. Len(line) = 1
      BY <3>1, <3>2, <3>3, Zenon
    <3> QED BY <3>1, <3>4, Zenon
  <2>2. /\ l \in Nat /\ Len(pipe2') = l + 1 /\ pipe2'[l + 1] = line[1]
        /\ \A i \in 1..l : pipe2'[i] = pipe2[i]
    <3>1. pipe2' = pipe2 \o line /\ l \in Nat
      BY <1>1, <2>1, LenProperties
    <3>2. /\ Len(pipe2') = l + Len(line)
          /\ \A i \in 1..l + Len(line) : pipe2'[i] = IF i <= l THEN pipe2[i] ELSE line[i - l]
      BY <2>1, <3>1, ConcatProperties
    <3>3. l + 1 \in 1..l + 1 /\ ~(l + 1 <= l) /\ l + 1 - l = 1
      BY <3>1
    <3> QED BY <2>1, <3>1, <3>2, <3>3
  <2>3. Len(line') = 0
    BY <1>1
  <2>4. /\ \A i \in 1..Len(page)  : page[i] \in Hits /\ 1 <= page[i] /\ page[i] <= Past
        /\ \A i \in 1..l : pipe2[i] \in Hits /\ 1 <= pipe2[i] /\ pipe2[i] <= Past
        /\ line[1] \in Hits /\ 1 <= line[1] /\ line[1] <= Past
        /\ \A i, k \in 1..Len(page)  : i < k => page[i] < page[k]
        /\ \A i, k \in 1..l : i < k => pipe2[i] < pipe2[k]
        /\ \A i \in 1..Len(page), k \in 1..l : page[i] < pipe2[k]
        /\ \A i \in 1..Len(page) : page[i] < line[1]
        /\ \A i \in 1..l : pipe2[i] < line[1]
    BY <1>6, <2>1 DEF Data, Passed
  <2>5. \A h \in Hits : h \in 1..Past =>
            \/ \E i \in 1..Len(page) : page[i] = h
            \/ \E i \in 1..l : pipe2[i] = h
            \/ line[1] = h
    <3>1. \A i \in 1..Len(line) : i = 1
      BY <2>1
    <3> QED BY <1>6, <3>1 DEF Data, NoneMissing
  <2>6. \A i \in 1..l + 1 : i \in 1..l \/ i = l + 1
    BY <2>2
  <2>7. Passed'
    BY <1>1, <1>3, <2>2, <2>3, <2>4, <2>6 DEF Passed
  <2>8. NoneMissing'
    <3>1. l + 1 \in 1..l + 1 /\ \A i \in 1..l : i \in 1..l + 1
      BY <2>2
    <3> QED BY <1>1, <1>3, <2>2, <2>5, <3>1 DEF NoneMissing
  <2> QED BY <1>2, <1>4, <2>7, <2>8 DEF Data
<1> QED BY <1>5, <1>6

LEMMA MoreShowsData ==
  ASSUME PipeTypeOK, Data, MoreShows PROVE Data'
<1> DEFINE l == Len(pipe2)
           n == Len(page)
<1>1. /\ pipe2 # <<>> /\ pipe2' = Tail(pipe2) /\ page' = Append(page, Head(pipe2))
      /\ UNCHANGED <<infiles, infile, cat, unread, buf, werr, pipe1, line, cut>>
  BY DEF MoreShows, catVars, histVars
<1>2. FileThere' /\ Unread' /\ Buffered'
  BY <1>1, ProgramSame
<1>3. Past' = Past /\ Busy' = Busy
  BY <1>1 DEF Past, Rest, FileLen, Busy
<1>4. Piped'
  BY <1>1, <1>3 DEF Data, Piped
<1>5. CASE ~Busy
  BY <1>2, <1>3, <1>4, <1>5 DEF Data, Passed, NoneMissing
<1>6. CASE Busy
  <2>1. /\ l \in Nat /\ l >= 1 /\ Len(pipe2') = l - 1
        /\ \A i \in 1..l - 1 : pipe2'[i] = pipe2[i + 1]
        /\ Head(pipe2) = pipe2[1]
    BY <1>1 DEF PipeTypeOK
  <2>2. /\ n \in Nat /\ Len(page') = n + 1 /\ page'[n + 1] = pipe2[1]
        /\ \A i \in 1..n : page'[i] = page[i]
    <3>1. pipe2[1] \in Nat
      BY <2>1, ElementOfSeq DEF PipeTypeOK
    <3>2. page' = Append(page, pipe2[1]) /\ page \in Seq(Nat)
      BY <1>1, <2>1 DEF PipeTypeOK
    <3> QED BY ONLY <3>1, <3>2
  <2>3. /\ \A i \in 1..n : page[i] \in Hits /\ 1 <= page[i] /\ page[i] <= Past
        /\ \A i \in 1..l : pipe2[i] \in Hits /\ 1 <= pipe2[i] /\ pipe2[i] <= Past
        /\ Len(line) <= 1
        /\ \A i \in 1..Len(line) : line[i] \in Hits /\ 1 <= line[i] /\ line[i] <= Past
        /\ \A i, k \in 1..n : i < k => page[i] < page[k]
        /\ \A i, k \in 1..l : i < k => pipe2[i] < pipe2[k]
        /\ \A i \in 1..n, k \in 1..l : page[i] < pipe2[k]
        /\ \A i \in 1..n, k \in 1..Len(line) : page[i] < line[k]
        /\ \A i \in 1..l, k \in 1..Len(line) : pipe2[i] < line[k]
    BY <1>6 DEF Data, Passed
  <2>4. \A h \in Hits : h \in 1..Past =>
            \/ \E i \in 1..n : page[i] = h
            \/ \E i \in 1..l : pipe2[i] = h
            \/ \E i \in 1..Len(line) : line[i] = h
    BY <1>6 DEF Data, NoneMissing
  <2>5. /\ 1 \in 1..l /\ \A i \in 1..l - 1 : i + 1 \in 1..l /\ 1 < i + 1
        /\ \A i, k \in 1..l - 1 : i < k => i + 1 < k + 1
        /\ \A i \in 1..n + 1 : i \in 1..n \/ i = n + 1
        /\ \A i, k \in 1..n + 1 : i < k => i \in 1..n
    BY <2>1, <2>2
  <2>6. Passed'
    BY <1>1, <1>3, <2>1, <2>2, <2>3, <2>5 DEF Passed
  <2>7. NoneMissing'
    <3>1. n + 1 \in 1..n + 1 /\ \A i \in 1..n : i \in 1..n + 1
      BY <2>2
    <3>2. \A i \in 1..l : i = 1 \/ (i - 1 \in 1..l - 1 /\ (i - 1) + 1 = i)
      BY <2>1
    <3>3. \A i \in 1..l : i # 1 => pipe2'[i - 1] = pipe2[i]
      BY <2>1, <3>2
    <3> SUFFICES ASSUME NEW h \in Hits, h \in 1..Past
                 PROVE  \/ \E i \in 1..Len(page')  : page'[i] = h
                        \/ \E i \in 1..Len(pipe2') : pipe2'[i] = h
                        \/ \E i \in 1..Len(line')  : line'[i] = h
      BY <1>3, Zenon DEF NoneMissing
    <3>4. CASE \E i \in 1..n : page[i] = h
      BY <2>2, <3>1, <3>4, Zenon
    <3>5. CASE \E i \in 1..l : pipe2[i] = h
      <4>1. PICK i \in 1..l : pipe2[i] = h
        BY <3>5
      <4>2. CASE i = 1
        BY <2>2, <3>1, <4>1, <4>2, Zenon
      <4>3. CASE i # 1
        BY <2>1, <3>2, <3>3, <4>1, <4>3, Zenon
      <4> QED BY <4>2, <4>3
    <3>6. CASE \E i \in 1..Len(line) : line[i] = h
      BY <1>1, <3>6
    <3> QED BY <2>4, <3>4, <3>5, <3>6
  <2> QED BY <1>2, <1>4, <2>6, <2>7 DEF Data
<1> QED BY <1>5, <1>6

LEMMA NextData ==
  ASSUME IInv, Data, [PipeNext]_pipeVars PROVE Data'
<1> USE DEF IInv, catVars, dataVars, histVars
<1>1. CASE EndOfArgs \/ SkipFile \/ PipeFails \/ BrokenPipe \/ Wait2 \/ Interrupt
  <2>1. ~Busy' /\ cat' # "opened"
    BY <1>1 DEF EndOfArgs, SkipFile, PipeFails, BrokenPipe, Wait2, Interrupt, CatExits, Busy
  <2> QED BY <2>1, DataIdle
<1>2. CASE OpenFile
  BY <1>2, OpenFileData
<1>3. CASE MakePipes
  BY <1>3, MakePipesData
<1>4. CASE Read
  BY <1>4, ReadData
<1>4a. CASE ReadFails
  BY <1>4a, DataSame DEF ReadFails, Busy
<1>5. CASE Write
  BY <1>5, WriteData
<1>6. CASE CountBytes
  BY <1>6, CountData
<1>7. CASE ForkGrep \/ ForkMore
  <2>1. CASE cat' = "exited"
    BY <2>1, DataIdle DEF Busy
  <2>2. CASE cat' # "exited"
    BY <1>7, <2>2, DataSame DEF ForkGrep, ForkMore, ForkKid, CatExits, Busy
  <2> QED BY <2>1, <2>2
<1>8. CASE CloseEnds \/ CloseLast \/ Wait1
  BY <1>8, DataSame DEF CloseEnds, CloseLast, Wait1, Busy
<1>9. ASSUME NEW p \in Kids, KidStep(p) PROVE Data'
  <2>1. CASE Setup(p)
    BY <2>1, DataSame DEF Setup
  <2>2. CASE ExecKid(p)
    BY <2>2, DataSame DEF ExecKid
  <2>3. CASE GrepReads
    BY <2>3, GrepReadsData
  <2>4. CASE GrepWrites
    BY <2>4, GrepWritesData
  <2>5. CASE GrepEnds
    BY <2>5, DataSame DEF GrepEnds
  <2>6. CASE MoreShows
    BY <2>6, MoreShowsData
  <2>7. CASE MoreEnds
    BY <2>7, DataSame DEF MoreEnds
  <2> QED BY <1>9, <2>1, <2>2, <2>3, <2>4, <2>5, <2>6, <2>7 DEF KidStep
<1>10. CASE MoreQuits
  BY <1>10, DataSame DEF MoreQuits
<1>11. CASE UNCHANGED pipeVars
  BY <1>11, DataSame DEF pipeVars
<1> QED
  BY <1>1, <1>2, <1>3, <1>4, <1>4a, <1>5, <1>6, <1>7, <1>8, <1>9, <1>10, <1>11 DEF PipeNext, CatStep

\* Until the pager has reached the end of its input nothing is lost.
LEMMA NextEnding ==
  ASSUME IInv, Data, Ending, [PipeNext]_pipeVars PROVE Ending'
<1> USE DEF catVars, dataVars, histVars
<1> DEFINE waiting == {"wait_1", "wait_2"}
<1>0. /\ kids \in [Kids -> {"none", "forked", "ready", "running", "zombie"}]
      /\ fds \in [{"cat"} \cup Kids -> SUBSET PipeEnds]
  BY DEF IInv, PipeTypeOK
<1>1. CASE cut' \/ cat' \notin waiting
  BY <1>1 DEF Ending
<1>2. ASSUME ~cut', cat' \in waiting, CloseLast PROVE Ending'
  <2>1. /\ cat = "close_last" /\ ~cut
        /\ kids' = kids /\ fds' = [fds EXCEPT !["cat"] = @ \ {"w1"}]
    BY <1>2 DEF CloseLast
  <2>2. Alive("grep") /\ Alive("more") /\ "w2" \in fds["grep"] /\ "r2" \in fds["more"]
    BY <2>1 DEF IInv, Flowing
  <2> QED BY <1>0, <2>1, <2>2 DEF Ending, Alive, Kids
<1>3. ASSUME ~cut', cat' \in waiting, Wait1 \/ Wait2 PROVE Ending'
  <2>1. cat \in waiting /\ ~cut /\ UNCHANGED <<fds, line, pipe1, pipe2>>
    BY <1>3 DEF Wait1, Wait2
  <2>2. \E p \in Kids : Reap(p)
    BY <1>3 DEF Wait1, Wait2
  <2>3. \A q \in Kids : Alive(q)' <=> Alive(q)
    BY <1>0, <2>2 DEF Reap, Alive
  <2> QED BY <2>1, <2>3 DEF Ending, Kids
<1>4. ASSUME ~cut', cat' \in waiting, NEW p \in Kids, KidStep(p) PROVE Ending'
  <2>1. cat \in waiting /\ cat' = cat
    BY <1>4 DEF KidStep, Setup, ExecKid, GrepReads, GrepWrites, GrepEnds, MoreShows, MoreEnds
  <2>2. ~cut /\ Len(unread) = 0
    BY <1>4, <2>1 DEF KidStep, Setup, ExecKid, GrepReads, GrepWrites, GrepEnds, MoreShows, MoreEnds,
                      Data, Unread, Busy
  <2>3. /\ Alive("grep") => /\ "w2" \in fds["grep"]
                            /\ Alive("more") /\ "r2" \in fds["more"]
        /\ ~Alive("grep") => line = <<>> /\ pipe1 = <<>>
        /\ ~Alive("more") => ~Alive("grep") /\ pipe2 = <<>>
    BY <2>1, <2>2 DEF Ending
  <2>4. CASE Setup(p)
    <3>1. /\ Alive(p) /\ kids' = [kids EXCEPT ![p] = "ready"]
          /\ fds' = [fds EXCEPT ![p] = Own(p)]
          /\ UNCHANGED <<line, pipe1, pipe2>>
      BY <2>4 DEF Setup, Alive
    <3>2. \A q \in Kids : Alive(q)' <=> Alive(q)
      BY <1>0, <1>4, <3>1 DEF Alive
    <3>3. /\ "w2" \in fds["grep"] => "w2" \in fds'["grep"]
          /\ "r2" \in fds["more"] => "r2" \in fds'["more"]
      BY <1>0, <1>4, <3>1 DEF Own, Kids
    <3> QED BY <2>3, <3>1, <3>2, <3>3 DEF Ending, Kids
  <2>5. CASE ExecKid(p)
    <3>1. /\ Alive(p) /\ kids' = [kids EXCEPT ![p] = "running"]
          /\ UNCHANGED <<fds, line, pipe1, pipe2>>
      BY <1>4, <2>5 DEF ExecKid, Alive
    <3>2. \A q \in Kids : Alive(q)' <=> Alive(q)
      BY <1>0, <1>4, <3>1 DEF Alive
    <3> QED BY <2>3, <3>1, <3>2 DEF Ending, Kids
  <2>6. CASE GrepReads \/ GrepWrites \/ MoreShows
    <3>1. UNCHANGED <<kids, fds>>
      BY <2>6 DEF GrepReads, GrepWrites, MoreShows
    <3>2. CASE GrepReads \/ GrepWrites
      <4>1. Alive("grep")
        BY <3>2 DEF GrepReads, GrepWrites, Alive
      <4> QED BY <2>3, <3>1, <4>1 DEF Ending, Alive
    <3>3. CASE MoreShows
      <4>1. Alive("more") /\ UNCHANGED <<line, pipe1>>
        BY <3>3 DEF MoreShows, Alive
      <4> QED BY <2>3, <3>1, <4>1 DEF Ending, Alive
    <3> QED BY <2>6, <3>2, <3>3
  <2>7. CASE GrepEnds
    <3>1. Alive("grep") /\ Held("r2")
      <4>1. Alive("grep")
        BY <2>7 DEF GrepEnds, Alive
      <4> QED BY <2>3, <4>1 DEF Held, Kids
    <3>2. /\ line = <<>> /\ pipe1 = <<>>
          /\ kids' = [kids EXCEPT !["grep"] = "zombie"] /\ fds' = [fds EXCEPT !["grep"] = {}]
          /\ UNCHANGED <<line, pipe1, pipe2>>
      BY <2>1, <2>7, <3>1 DEF GrepEnds, KidExits
    <3>3. ~Alive("grep")' /\ (Alive("more")' <=> Alive("more"))
      BY <1>0, <3>2 DEF Alive, Kids
    <3> QED BY <2>3, <3>1, <3>2, <3>3 DEF Ending
  <2>8. CASE MoreEnds
    <3>1. /\ pipe2 = <<>> /\ ~Held("w2")
          /\ kids' = [kids EXCEPT !["more"] = "zombie"] /\ fds' = [fds EXCEPT !["more"] = {}]
          /\ UNCHANGED <<line, pipe1, pipe2>>
      BY <2>1, <2>8 DEF MoreEnds, KidExits
    <3>2. ~Alive("grep")
      BY <2>3, <3>1 DEF Held, Kids
    <3>3. ~Alive("more")' /\ (Alive("grep")' <=> Alive("grep"))
      BY <1>0, <3>1 DEF Alive, Kids
    <3> QED BY <2>3, <3>1, <3>2, <3>3 DEF Ending
  <2> QED BY <1>4, <2>4, <2>5, <2>6, <2>7, <2>8 DEF KidStep
<1>5. CASE UNCHANGED pipeVars
  BY <1>5 DEF Ending, pipeVars, Alive
<1>6. CASE EndOfArgs \/ SkipFile \/ OpenFile \/ MakePipes \/ PipeFails \/ ForkGrep \/ ForkMore
           \/ CloseEnds \/ Read \/ ReadFails \/ Write \/ CountBytes \/ BrokenPipe \/ MoreQuits \/ Interrupt
  <2>1. cut' \/ cat' \notin waiting
    BY <1>6 DEF EndOfArgs, SkipFile, OpenFile, MakePipes, PipeFails, ForkGrep, ForkMore, ForkKid,
                CloseEnds, Read, ReadFails, Write, CountBytes, BrokenPipe, MoreQuits, Interrupt, CatExits
  <2> QED BY <1>1, <2>1
<1> QED
  BY <1>1, <1>2, <1>3, <1>4, <1>5, <1>6 DEF PipeNext, CatStep


LEMMA NextNoZombies ==
  ASSUME IInv, NoZombies, [PipeNext]_pipeVars PROVE NoZombies'
<1> USE DEF catVars, dataVars, histVars
<1>0. kids \in [Kids -> {"none", "forked", "ready", "running", "zombie"}]
  BY DEF IInv, PipeTypeOK
<1>1. CASE CatStep
  BY <1>0, <1>1 DEF NoZombies, CatStep, EndOfArgs, SkipFile, OpenFile, MakePipes, PipeFails, ForkGrep, ForkMore,
     ForkKid, CloseEnds, Read, ReadFails, Write, CountBytes, BrokenPipe, CloseLast, Wait1, Wait2, CatExits
<1>2. ASSUME NEW p \in Kids, KidStep(p) PROVE NoZombies'
  BY <1>0, <1>2 DEF NoZombies, KidStep, Setup, ExecKid, GrepReads, GrepWrites, GrepEnds, MoreShows, MoreEnds,
     KidExits, Kids
<1>3. CASE MoreQuits
  BY <1>0, <1>3 DEF NoZombies, MoreQuits, KidExits, Kids
<1>4. CASE Interrupt
  BY <1>0, <1>4 DEF NoZombies, Interrupt, Kids
<1>5. CASE UNCHANGED pipeVars
  BY <1>5 DEF NoZombies, pipeVars
<1> QED BY <1>1, <1>2, <1>3, <1>4, <1>5 DEF PipeNext

\* When the pager has come to the end of its input, all of the file has gone
\* through grep, and nothing is left between grep and the page.
LEMMA ShowingMeans ==
  ASSUME IInv, Showing PROVE PageComplete
<1> SUFFICES ASSUME kids["more"] = "zombie", ~cut PROVE PageComplete
  BY DEF PageComplete
<1>1. cat \in {"wait_1", "wait_2"}
  <2>1. cat \in {"loop", "opened", "fork_grep", "fork_more", "close", "read", "write", "count",
                 "close_last", "wait_1", "wait_2", "exited"}
    BY DEF IInv, PipeTypeOK
  <2>2. cat \notin {"close", "read", "write", "count", "close_last"}
    BY DEF IInv, Flowing, Alive
  <2>3. cat \notin {"loop", "opened", "fork_grep", "fork_more"}
    BY DEF IInv, Children, Kids
  <2>4. cat # "exited"
    BY DEF Showing, NoZombies, Kids
  <2> QED BY <2>1, <2>2, <2>3, <2>4
<1>2. pipe1 = <<>> /\ pipe2 = <<>> /\ line = <<>> /\ Len(unread) = 0 /\ Rest = 0 /\ Busy
  BY <1>1 DEF Showing, Ending, Unread, Alive, Rest, Busy
<1>3. FileLen \in Nat /\ Past = FileLen
  <2>1. FileLen \in Nat
    BY <1>2 DEF Showing, FileThere, FileLen
  <2>2. Past = FileLen - 0 - 0 - 0
    BY ONLY <1>2, Zenon DEF Past
  <2> QED BY <2>1, <2>2
<1>4. /\ \A i \in 1..Len(page) : page[i] \in Hits /\ 1 <= page[i] /\ page[i] <= FileLen
      /\ \A i, k \in 1..Len(page) : i < k => page[i] < page[k]
      /\ \A h \in Hits : h \in 1..FileLen => \E i \in 1..Len(page) : page[i] = h
  <2>1. Len(pipe2) = 0 /\ Len(line) = 0
    BY <1>2
  <2> QED BY <1>2, <1>3, <2>1 DEF Showing, Passed, NoneMissing
<1>5. \A i \in 1..Len(page) : page[i] \in Nat
  BY ElementOfSeq DEF IInv, PipeTypeOK
<1>6. {page[i] : i \in 1..Len(page)} = {k \in 1..FileLen : k \in Hits}
  BY <1>3, <1>4, <1>5
<1> QED BY <1>4, <1>6, Zenon DEF PageComplete, FileLen

\* Showing is as good as inductive: it needs what IInv says of the processes.
LEMMA NextShowing ==
  ASSUME IInv, Showing, [PipeNext]_pipeVars PROVE Showing'
<1>1. Data'
  BY NextData DEF Showing, Data
<1>2. Ending'
  BY NextEnding DEF Showing, Data
<1>3. NoZombies'
  BY NextNoZombies DEF Showing
<1> QED BY <1>1, <1>2, <1>3 DEF Showing, Data

LEMMA InitShowing ==
  ASSUME PipeInit PROVE Showing
BY DEF PipeInit, Showing, FileThere, Unread, Buffered, Piped, Passed, NoneMissing, Ending, NoZombies, Busy

\* Unless the pager was quit, interrupted or not started, it has shown every
\* byte of the file that grep passes, in order and once, when it has come to
\* its end: no byte is lost or shown twice in the buffer, the pipes and the
\* partial writes between the file and the page (catgrepmore.c:95-114,
\* 132-152).
THEOREM PageIsComplete == PipeSpec => []PageComplete
<1>1. PipeInit => Showing
  BY InitShowing
<1>2. IInv /\ Showing /\ [PipeNext]_pipeVars => Showing'
  BY NextShowing
<1>3. IInv /\ Showing => PageComplete
  BY ShowingMeans
<1> QED BY <1>1, <1>2, <1>3, Invariance, PTL DEF PipeSpec

------------------------------------------------------------------------------

(***************************************************************************)
(* The shell (Shell.tla).                                                  *)
(***************************************************************************)

LEMMA WordCount ==
  ASSUME script \in Scripts, NEW l \in DOMAIN script
  PROVE  Len(Words(l)) \in 0..MaxArgs /\ Len(Redirs(l)) \in Nat
<1>1. script[l] \in Seq(ToSet(script[l]))
  BY ShellAssumption
<1>2. DOMAIN script[l] = 1..Len(script[l]) /\ Len(script[l]) \in Nat
  BY <1>1, LenProperties
<1>3. IsFiniteSet(DOMAIN script[l])
  <2> DEFINE n == Len(script[l])
  <2>1. IsFiniteSet(1..n)
    BY <1>2, FS_Interval
  <2> QED BY <1>2, <2>1
<1>4. ASSUME NEW P \in SUBSET DOMAIN script[l]
      PROVE  Len(Selected(script[l], P)) = Cardinality(P) /\ Cardinality(P) \in Nat
  <2>1. Cardinality(P) \in Nat
    BY <1>3, FS_Subset, FS_CardinalityType
  <2> DEFINE n == Cardinality(P)
  <2> HIDE DEF n
  <2> DEFINE f == [i \in 1..n |-> script[l][CHOOSE p \in P : Cardinality({q \in P : q <= p}) = i]]
             S == {f[i] : i \in 1..n}
  <2>2. f \in [1..n -> S]
    OBVIOUS
  <2> HIDE DEF f, S
  <2>3. Len(f) = n
    BY <2>1, <2>2, SeqDef, LenProperties DEF n
  <2> QED BY <2>1, <2>3 DEF Selected, n, f
<1> DEFINE W == {k \in DOMAIN script[l] : ~IsRedir(script[l][k])}
           R == {k \in DOMAIN script[l] : IsRedir(script[l][k])}
<1>5. W = {k \in DOMAIN script[l] : script[l][k].op = ""}
  BY DEF IsRedir
<1>6. Cardinality(W) <= MaxArgs
  BY <1>5, ShellAssumption
<1>7. Len(Words(l)) = Cardinality(W) /\ Len(Redirs(l)) = Cardinality(R)
      /\ Cardinality(W) \in Nat /\ Cardinality(R) \in Nat
  BY <1>4 DEF Words, Redirs
<1> HIDE DEF W, R
<1>8. MaxArgs \in Nat
  BY ShellAssumption
<1> QED BY <1>6, <1>7, <1>8

(***************************************************************************)
(* The inductive invariant.                                                *)
(***************************************************************************)
ShellTyped ==
    /\ script \in Scripts /\ tty \in BOOLEAN /\ lineno \in Nat \ {0} /\ redir \in Nat \ {0}
    /\ out \in Seq(Nat) /\ pending \in Seq(Nat) /\ DOMAIN progargv = 1..MaxArgs
    /\ shell \in {"read", "fork", "wait", "ended"}
    /\ child \in {"none", "redirect", "exec", "running", "zombie"}

\* The pointers are those that were there before, or of a line that was read.
PointersFrom(p, n) ==
    \A i \in 1..MaxArgs :
       \/ p[i] \in {NullPtr, Junk}
       \/ \E l \in 1..n : /\ l \in DOMAIN script /\ script[l] # Comment
                          /\ \/ i <= Len(Words(l)) /\ p[i] = <<l, i>>
                             \/ i + 2 <= Len(Redirs(l)) /\ p[i] = <<l, 0>>

\* While a line is run, what was read of it.
LineRead ==
    /\ lineno \in DOMAIN script /\ script[lineno] # Comment
    /\ redirs = Redirs(lineno)
    /\ \A i \in 1..Len(Words(lineno)) :
          progargv[i] = <<lineno, i>> \/ (Len(redirs) > 2 /\ progargv[i] = <<lineno, 0>>)
    /\ lineno \in ToSet(out) \cup ToSet(pending)

\* The lines that have been announced, and on a terminal their order.
Told(o, p, n) == \A l \in 1..n : script[l] # Comment => l \in ToSet(o) \cup ToSet(p)
Ascending(o, n) == /\ \A i, k \in DOMAIN o : i < k => o[i] < o[k]
                   /\ \A i \in DOMAIN o : o[i] <= n

Telling == /\ Told(out, pending, lineno - 1)
           /\ shell = "ended" => pending = <<>>
           /\ tty => pending = <<>> /\ Ascending(out, IF shell = "read" THEN lineno - 1 ELSE lineno)

\* The descriptors after the first n redirections.
FdsAfter(held, n) ==
    /\ n <= Len(redirs) /\ \A i \in 1..n : CutName[redirs[i].name] \in Openable
    /\ \A d \in 0..2 :
          \/ held[d] = <<"inherited", d>> /\ \A i \in 1..n : Target(redirs[i]) # d
          \/ \E i \in 1..n : /\ Target(redirs[i]) = d
                             /\ \A k \in i + 1..n : Target(redirs[k]) # d
                             /\ held[d] = <<CutName[redirs[i].name], Flags(redirs[i])>>

Redirecting ==
    /\ child \in {"redirect", "exec", "running"} => FdsAfter(cfds, redir - 1)
    /\ child \in {"redirect", "exec"} => DOMAIN cfds \in {0..2, 0..3}
    /\ child = "running" => DOMAIN cfds = 0..2 /\ cargs = Argv
    /\ child \in {"exec", "running"} => Len(redirs) <= 2
    /\ child \in {"exec", "running"} =>
          redir = Len(redirs) + 1 \/ CutName[redirs[redir].name] \notin Openable

ShellInv == /\ ShellTyped /\ OneCommand /\ Telling /\ Redirecting
            /\ PointersFrom(progargv, lineno)
            /\ shell \in {"fork", "wait"} => LineRead

LEMMA InitShell ==
  ASSUME ShellInit
  PROVE  ShellInv
<1>1. <<>> \in Seq(Nat) /\ DOMAIN <<>> = {}
  <2>1. <<>> \in Seq(Nat) /\ Len(<<>>) = 0
    BY EmptySeq
  <2> QED BY <2>1, LenProperties
<1>2. ShellTyped
  <2>1. PICK g \in Garbage, n \in 1..MaxArgs :
          progargv = [i \in 1..MaxArgs |-> IF i > n THEN g ELSE NullPtr]
    BY DEF ShellInit
  <2>2. DOMAIN progargv = 1..MaxArgs
    BY <2>1
  <2>3. tty \in BOOLEAN
    BY Zenon DEF ShellInit
  <2>4. lineno \in Nat \ {0} /\ redir \in Nat \ {0}
    BY DEF ShellInit, ShellRest
  <2> QED BY <1>1, <2>2, <2>3, <2>4 DEF ShellInit, ShellRest, ShellTyped
<1>3. PointersFrom(progargv, lineno)
  <2>1. PICK g \in Garbage, n \in 1..MaxArgs :
          progargv = [i \in 1..MaxArgs |-> IF i > n THEN g ELSE NullPtr]
    BY DEF ShellInit
  <2> QED BY <2>1, ShellAssumption DEF PointersFrom
<1>4. OneCommand /\ Redirecting /\ ~(shell \in {"fork", "wait"})
  BY DEF ShellInit, ShellRest, OneCommand, Redirecting
<1>5. Telling
  <2>1. lineno - 1 = 0 /\ out = <<>> /\ pending = <<>> /\ shell = "read"
    BY DEF ShellInit, ShellRest
  <2>2. Told(out, pending, 0) /\ Ascending(out, 0)
    BY <1>1, <2>1 DEF Told, Ascending
  <2> QED BY <2>1, <2>2 DEF Telling
<1> QED BY <1>2, <1>3, <1>4, <1>5 DEF ShellInv

\* What all steps leave alone.
LEMMA ShellFrame ==
  ASSUME ShellNext
  PROVE  /\ script' = script /\ tty' = tty
         /\ ~ReadComment /\ ~ReadCommand /\ ~Wait3 => lineno' = lineno
         /\ ~ReadCommand => progargv' = progargv /\ redirs' = redirs
         /\ Argv' = Argv \/ ReadCommand
         /\ \A l : Words(l)' = Words(l) /\ Redirs(l)' = Redirs(l)
<1>1. script' = script /\ tty' = tty
  BY DEF ShellNext, ReadComment, ReadCommand, EndOfScript, ForkChild, ForkFails, Wait3,
         TooMany, MakeRedir, RedirsMade, Exec, ExecFails, CommandEnds, lineVars
<1>2. ~ReadComment /\ ~ReadCommand /\ ~Wait3 => lineno' = lineno
  BY DEF ShellNext, EndOfScript, ForkChild, ForkFails,
         TooMany, MakeRedir, RedirsMade, Exec, ExecFails, CommandEnds, lineVars
<1>3. ~ReadCommand => progargv' = progargv /\ redirs' = redirs
  BY DEF ShellNext, ReadComment, EndOfScript, ForkChild, ForkFails, Wait3,
         TooMany, MakeRedir, RedirsMade, Exec, ExecFails, CommandEnds, lineVars
<1>4. Argv' = Argv \/ ReadCommand
  BY <1>3 DEF Argv, ArgCount
<1>5. \A l : Words(l)' = Words(l) /\ Redirs(l)' = Redirs(l)
  BY <1>1 DEF Words, Redirs
<1> QED BY <1>1, <1>2, <1>3, <1>4, <1>5

\* The announcements that ChildExits may write again are none on a terminal.
LEMMA Writes ==
  ASSUME ShellTyped, out' = out \o pending \/ out' = out
  PROVE  /\ out' \in Seq(Nat)
         /\ pending = <<>> => out' = out
         /\ ToSet(out) \subseteq ToSet(out')
         /\ out' = out \o pending => ToSet(out') = ToSet(out) \cup ToSet(pending)
<1> DEFINE s == out
           t == pending
           u == s \o t
<1>1. s \in Seq(Nat) /\ t \in Seq(Nat)
  BY DEF ShellTyped
<1>2. /\ u \in Seq(Nat) /\ Len(u) = Len(s) + Len(t) /\ Len(s) \in Nat /\ Len(t) \in Nat
      /\ \A i \in 1..Len(s) + Len(t) : u[i] = IF i <= Len(s) THEN s[i] ELSE t[i - Len(s)]
  BY <1>1, ConcatProperties, LenProperties
<1>3. t = <<>> => u = s
  BY <1>1, ConcatEmptySeq
<1>4. DOMAIN s = 1..Len(s) /\ DOMAIN t = 1..Len(t) /\ DOMAIN u = 1..Len(s) + Len(t)
  BY <1>1, <1>2, LenProperties
<1> DEFINE a == Len(s)
           b == Len(t)
<1> HIDE DEF s, t, u, a, b
<1>9. /\ a \in Nat /\ b \in Nat
      /\ DOMAIN s = 1..a /\ DOMAIN t = 1..b /\ DOMAIN u = 1..a + b
      /\ \A i \in 1..a + b : u[i] = IF i <= a THEN s[i] ELSE t[i - a]
  BY <1>2, <1>4 DEF a, b
<1>5. ToSet(s) \subseteq ToSet(u)
  BY <1>9 DEF ToSet
<1>6. ToSet(t) \subseteq ToSet(u)
  <2>1. ASSUME NEW i \in 1..b PROVE a + i \in 1..a + b /\ u[a + i] = t[i]
    <3>1. a + i \in 1..a + b /\ ~(a + i <= a) /\ (a + i) - a = i
      BY <1>9
    <3> QED BY <1>9, <3>1
  <2> QED BY <1>9, <2>1 DEF ToSet
<1>7. ToSet(u) \subseteq ToSet(s) \cup ToSet(t)
  <2>1. ASSUME NEW i \in 1..a + b
        PROVE  (u[i] = s[i] /\ i \in 1..a) \/ (u[i] = t[i - a] /\ i - a \in 1..b)
    <3>1. CASE i <= a
      <4>1. i \in 1..a /\ u[i] = s[i]
        BY <1>9, <3>1
      <4> QED BY <4>1
    <3>2. CASE ~(i <= a)
      <4>1. i - a \in 1..b /\ u[i] = t[i - a]
        BY <1>9, <3>2
      <4> QED BY <4>1
    <3> QED BY <3>1, <3>2
  <2> QED BY <1>9, <2>1 DEF ToSet
<1> QED BY <1>1, <1>2, <1>3, <1>5, <1>6, <1>7 DEF s, t, u

\* What is added at the end.
LEMMA Adds ==
  ASSUME NEW s \in Seq(Nat), NEW n \in Nat
  PROVE  /\ Append(s, n) \in Seq(Nat)
         /\ ToSet(Append(s, n)) = ToSet(s) \cup {n}
         /\ \A m \in Nat : Ascending(s, m) /\ m < n => Ascending(Append(s, n), n)
<1> DEFINE u == Append(s, n)
<1>1. /\ u \in Seq(Nat) /\ Len(u) = Len(s) + 1 /\ Len(s) \in Nat
      /\ (\A i \in 1..Len(s) : u[i] = s[i]) /\ u[Len(s) + 1] = n
      /\ \A i \in 1..Len(s) : s[i] \in Nat
  BY AppendProperties, LenProperties
<1>2. DOMAIN s = 1..Len(s) /\ DOMAIN u = 1..Len(s) + 1
  BY <1>1, LenProperties
<1> HIDE DEF u
<1>3. \A i \in DOMAIN u : (i \in DOMAIN s /\ u[i] = s[i]) \/ (i = Len(s) + 1 /\ u[i] = n)
  <2> DEFINE a == Len(s)
  <2>1. a \in Nat /\ DOMAIN s = 1..a /\ DOMAIN u = 1..a + 1 /\ (\A i \in 1..a : u[i] = s[i]) /\ u[a + 1] = n
    BY <1>1, <1>2
  <2> HIDE DEF a
  <2>2. ASSUME NEW i \in DOMAIN u
        PROVE  (i \in DOMAIN s /\ u[i] = s[i]) \/ (i = a + 1 /\ u[i] = n)
    <3>1. i \in 1..a \/ i = a + 1
      BY <2>1
    <3> QED BY <2>1, <3>1
  <2> QED BY <2>2, Zenon DEF a
<1>4. ToSet(u) = ToSet(s) \cup {n}
  <2>1. DOMAIN s \subseteq DOMAIN u /\ Len(s) + 1 \in DOMAIN u
    BY <1>1, <1>2
  <2>2. ToSet(u) \subseteq ToSet(s) \cup {n}
    BY <1>3 DEF ToSet
  <2>3. ToSet(s) \cup {n} \subseteq ToSet(u)
    BY <1>1, <1>2, <2>1 DEF ToSet
  <2> QED BY <2>2, <2>3
<1>5. ASSUME NEW m \in Nat, Ascending(s, m), m < n
      PROVE  Ascending(u, n)
  <2>1. ASSUME NEW i \in DOMAIN u, NEW k \in DOMAIN u, i < k PROVE u[i] < u[k]
    <3>1. i \in DOMAIN s
      BY <1>1, <1>2, <2>1
    <3>2. CASE k \in DOMAIN s
      BY <1>1, <1>2, <1>5, <2>1, <3>1, <3>2 DEF Ascending
    <3>3. CASE k \notin DOMAIN s
      <4>1. u[k] = n /\ u[i] = s[i] /\ s[i] <= m /\ s[i] \in Nat
        BY <1>1, <1>2, <1>3, <1>5, <3>1, <3>3 DEF Ascending
      <4> QED BY <1>5, <4>1
    <3> QED BY <3>2, <3>3
  <2>2. \A i \in DOMAIN u : u[i] <= n
    <3> TAKE i \in DOMAIN u
    <3>1. CASE i \in DOMAIN s
      <4>1. u[i] = s[i] /\ s[i] <= m /\ s[i] \in Nat
        BY <1>1, <1>2, <1>5, <3>1 DEF Ascending
      <4> QED BY <1>5, <4>1
    <3>2. CASE i \notin DOMAIN s
      BY <1>3, <3>2
    <3> QED BY <3>1, <3>2
  <2> QED BY <2>1, <2>2 DEF Ascending
<1> QED BY <1>1, <1>4, <1>5 DEF u

LEMMA ShellTypedStep ==
  ASSUME ShellTyped, ShellNext
  PROVE  ShellTyped'
<1>1. script' \in Scripts /\ tty' \in BOOLEAN
  BY ShellFrame DEF ShellTyped
<1>2. lineno' \in Nat \ {0}
  <2>1. lineno' = lineno \/ lineno' = lineno + 1
    BY ShellFrame DEF ReadComment, ReadCommand, Wait3
  <2> QED BY <2>1 DEF ShellTyped
<1>3. redir' \in Nat \ {0}
  <2>1. redir' \in {1, redir, redir + 1}
    BY DEF ShellNext, ReadComment, ReadCommand, EndOfScript, ForkChild, ForkFails, Wait3,
           TooMany, MakeRedir, RedirsMade, Exec, ExecFails, CommandEnds
  <2> QED BY <2>1 DEF ShellTyped
<1>4. out' \in Seq(Nat)
  <2>1. out' = out \o pending \/ out' = out \/ out' = Append(out, lineno)
    BY DEF ShellNext, ReadComment, ReadCommand, EndOfScript, ForkChild, ForkFails, Wait3,
           TooMany, MakeRedir, RedirsMade, Exec, ExecFails, CommandEnds, ChildExits, Flush
  <2>2. out \in Seq(Nat) /\ lineno \in Nat
    BY DEF ShellTyped
  <2>3. Append(out, lineno) \in Seq(Nat)
    BY <2>2, AppendProperties
  <2> QED BY <2>1, <2>2, <2>3, Writes
<1>5. pending' \in Seq(Nat)
  <2>1. pending' = <<>> \/ pending' = pending \/ pending' = Append(pending, lineno)
    BY DEF ShellNext, ReadComment, ReadCommand, EndOfScript, ForkChild, ForkFails, Wait3,
           TooMany, MakeRedir, RedirsMade, Exec, ExecFails, CommandEnds
  <2>2. pending \in Seq(Nat) /\ lineno \in Nat
    BY DEF ShellTyped
  <2>3. Append(pending, lineno) \in Seq(Nat)
    BY <2>2, AppendProperties
  <2> QED BY <2>1, <2>2, <2>3, EmptySeq
<1>6. DOMAIN progargv' = 1..MaxArgs
  BY ShellFrame DEF ReadCommand, ShellTyped
<1>7. shell' \in {"read", "fork", "wait", "ended"}
  BY DEF ShellNext, ReadComment, ReadCommand, EndOfScript, ForkChild, ForkFails, Wait3,
         TooMany, MakeRedir, RedirsMade, Exec, ExecFails, CommandEnds, ShellTyped
<1>8. child' \in {"none", "redirect", "exec", "running", "zombie"}
  BY DEF ShellNext, ReadComment, ReadCommand, EndOfScript, ForkChild, ForkFails, Wait3,
         TooMany, MakeRedir, RedirsMade, Exec, ExecFails, CommandEnds, ChildExits, ShellTyped
<1> QED BY <1>1, <1>2, <1>3, <1>4, <1>5, <1>6, <1>7, <1>8 DEF ShellTyped

LEMMA OneCommandStep ==
  ASSUME ShellInv, ShellNext
  PROVE  OneCommand'
BY DEF ShellInv, OneCommand, ShellNext, ReadComment, ReadCommand, EndOfScript, ForkChild, ForkFails, Wait3,
       TooMany, MakeRedir, RedirsMade, Exec, ExecFails, CommandEnds, ChildExits, lineVars

\* The steps of the child, which come while the shell waits for it.
ChildSteps == TooMany \/ MakeRedir \/ RedirsMade \/ Exec \/ ExecFails \/ CommandEnds

LEMMA ChildWrites ==
  ASSUME ShellInv, ChildSteps
  PROVE  /\ shell = "wait" /\ UNCHANGED <<script, tty, lineno, progargv, redirs, shell, pending>>
         /\ out' = out \o pending \/ out' = out
<1>1. shell = "wait"
  BY DEF ShellInv, ShellTyped, OneCommand, ChildSteps, TooMany, MakeRedir, RedirsMade, Exec, ExecFails, CommandEnds
<1>2. /\ UNCHANGED <<script, tty, lineno, progargv, redirs, shell, pending>>
      /\ out' = out \o pending \/ out' = out
  BY DEF ChildSteps, TooMany, MakeRedir, RedirsMade, Exec, ExecFails, CommandEnds, ChildExits, Flush, lineVars
<1> QED BY <1>1, <1>2

LEMMA TellingStep ==
  ASSUME ShellInv, ShellNext
  PROVE  /\ Telling'
         /\ shell' \in {"fork", "wait"} => lineno' \in ToSet(out') \cup ToSet(pending')
<1>1. /\ out \in Seq(Nat) /\ pending \in Seq(Nat) /\ lineno \in Nat \ {0} /\ tty \in BOOLEAN /\ ShellTyped
      /\ script' = script /\ tty' = tty
  BY ShellFrame DEF ShellInv, ShellTyped
<1>2. /\ Told(out, pending, lineno - 1)
      /\ shell = "ended" => pending = <<>>
      /\ tty => pending = <<>> /\ Ascending(out, IF shell = "read" THEN lineno - 1 ELSE lineno)
      /\ shell \in {"fork", "wait"} => lineno \in ToSet(out) \cup ToSet(pending)
  BY DEF ShellInv, Telling, LineRead
<1>3. ToSet(<<>>) = {}
  <2>1. DOMAIN <<>> = {}
    BY LenProperties, EmptySeq
  <2> QED BY <2>1 DEF ToSet
\* It is enough to show these.
<1>4. ASSUME \A l \in 1..lineno' - 1 : script[l] # Comment => l \in ToSet(out') \cup ToSet(pending'),
             shell' = "ended" => pending' = <<>>,
             tty => pending' = <<>> /\ Ascending(out', IF shell' = "read" THEN lineno' - 1 ELSE lineno')
      PROVE  Telling'
  BY <1>1, <1>4 DEF Telling, Told, Ascending
<1>5. CASE ReadComment
  <2>1. /\ shell = "read" /\ shell' = "read" /\ script[lineno] = Comment /\ lineno' = lineno + 1
        /\ UNCHANGED <<out, pending>>
    BY <1>5 DEF ReadComment
  <2>2. \A l \in 1..lineno' - 1 : l \in 1..lineno - 1 \/ l = lineno
    BY <1>1, <2>1
  <2>3. \A l \in 1..lineno' - 1 : script[l] # Comment => l \in ToSet(out') \cup ToSet(pending')
    BY <1>2, <2>1, <2>2 DEF Told
  <2>4. tty => Ascending(out, lineno' - 1)
    <3> SUFFICES ASSUME tty PROVE Ascending(out, lineno' - 1)
      OBVIOUS
    <3>1. Ascending(out, lineno - 1) /\ lineno' - 1 = lineno
      BY <1>1, <1>2, <2>1
    <3>2. \A i \in DOMAIN out : out[i] \in Nat
      BY <1>1, LenProperties
    <3> QED BY <1>1, <3>1, <3>2 DEF Ascending
  <2> QED BY <1>2, <1>4, <2>1, <2>3, <2>4
<1>6. CASE ReadCommand
  <2>1. /\ shell = "read" /\ shell' = "fork" /\ lineno' = lineno
        /\ IF tty THEN out' = Append(out, lineno) /\ pending' = pending
                  ELSE pending' = Append(pending, lineno) /\ out' = out
    BY <1>6 DEF ReadCommand
  <2>2. /\ ToSet(Append(out, lineno)) = ToSet(out) \cup {lineno}
        /\ ToSet(Append(pending, lineno)) = ToSet(pending) \cup {lineno}
        /\ tty => Ascending(Append(out, lineno), lineno)
    <3>1. lineno \in Nat /\ lineno - 1 \in Nat /\ lineno - 1 < lineno
      BY <1>1
    <3> QED BY <1>1, <1>2, <2>1, <3>1, Adds
  <2>3. \A l \in 1..lineno' - 1 : script[l] # Comment => l \in ToSet(out') \cup ToSet(pending')
    BY <1>1, <1>2, <2>1, <2>2 DEF Told
  <2>4. tty => pending' = <<>> /\ Ascending(out', lineno')
    BY <1>2, <2>1, <2>2
  <2> QED BY <1>1, <1>4, <2>1, <2>2, <2>3, <2>4
<1>7. CASE EndOfScript \/ ForkFails
  <2>1. shell # "ended" /\ shell' = "ended" /\ pending' = <<>> /\ out' = out \o pending /\ lineno' = lineno
    BY <1>7 DEF EndOfScript, ForkFails, Flush, lineVars
  <2>2. ToSet(out') = ToSet(out) \cup ToSet(pending)
    BY <1>1, <2>1, Writes
  <2>3. \A l \in 1..lineno' - 1 : script[l] # Comment => l \in ToSet(out') \cup ToSet(pending')
    BY <1>2, <2>1, <2>2 DEF Told
  <2>4. tty => Ascending(out', lineno')
    <3> SUFFICES ASSUME tty PROVE Ascending(out, lineno)
      BY <1>1, <1>2, <2>1, Writes
    <3>1. \A i \in DOMAIN out : out[i] \in Nat
      BY <1>1, LenProperties
    <3> QED BY <1>1, <1>2, <3>1 DEF Ascending
  <2> QED BY <1>4, <2>1, <2>3, <2>4
<1>8. CASE ForkChild
  <2>1. shell = "fork" /\ shell' = "wait" /\ UNCHANGED <<lineno, out, pending>>
    BY <1>8 DEF ForkChild, lineVars
  <2> QED BY <1>2, <1>4, <2>1 DEF Told
<1>9. CASE Wait3
  <2>1. shell = "wait" /\ shell' = "read" /\ lineno' = lineno + 1 /\ UNCHANGED <<out, pending>>
    BY <1>9 DEF Wait3
  <2>2. \A l \in 1..lineno' - 1 : l \in 1..lineno - 1 \/ l = lineno
    BY <1>1, <2>1
  <2>3. \A l \in 1..lineno' - 1 : script[l] # Comment => l \in ToSet(out') \cup ToSet(pending')
    BY <1>2, <2>1, <2>2 DEF Told
  <2>4. lineno' - 1 = lineno
    BY <1>1, <2>1
  <2> QED BY <1>2, <1>4, <2>1, <2>3, <2>4
<1>10. CASE ChildSteps
  <2>1. /\ shell = "wait" /\ UNCHANGED <<lineno, shell, pending>>
        /\ out' = out \o pending \/ out' = out
    BY <1>10, ChildWrites
  <2>2. ToSet(out) \subseteq ToSet(out') /\ (pending = <<>> => out' = out)
    BY <1>1, <2>1, Writes
  <2>3. \A l \in 1..lineno' - 1 : script[l] # Comment => l \in ToSet(out') \cup ToSet(pending')
    BY <1>2, <2>1, <2>2 DEF Told
  <2> QED BY <1>2, <1>4, <2>1, <2>2, <2>3
<1> QED BY <1>5, <1>6, <1>7, <1>8, <1>9, <1>10 DEF ShellNext, ChildSteps

LEMMA PointersStep ==
  ASSUME ShellInv, ShellNext
  PROVE  PointersFrom(progargv, lineno)'
<1>1. /\ lineno \in Nat \ {0} /\ script \in Scripts /\ PointersFrom(progargv, lineno)
      /\ script' = script /\ (lineno' = lineno \/ lineno' = lineno + 1)
      /\ \A l : Words(l)' = Words(l) /\ Redirs(l)' = Redirs(l)
  BY ShellFrame DEF ShellInv, ShellTyped, ReadComment, ReadCommand, Wait3
<1>2. ASSUME NEW i \in 1..MaxArgs
      PROVE  \/ progargv'[i] \in {NullPtr, Junk}
             \/ \E l \in 1..lineno' :
                   /\ l \in DOMAIN script /\ script[l] # Comment
                   /\ \/ i <= Len(Words(l)) /\ progargv'[i] = <<l, i>>
                      \/ i + 2 <= Len(Redirs(l)) /\ progargv'[i] = <<l, 0>>
  <2>1. CASE progargv'[i] = progargv[i]
    <3>1. 1..lineno \subseteq 1..lineno'
      BY <1>1
    <3>2. \/ progargv[i] \in {NullPtr, Junk}
          \/ \E l \in 1..lineno :
                /\ l \in DOMAIN script /\ script[l] # Comment
                /\ \/ i <= Len(Words(l)) /\ progargv[i] = <<l, i>>
                   \/ i + 2 <= Len(Redirs(l)) /\ progargv[i] = <<l, 0>>
      BY <1>1 DEF PointersFrom
    <3> QED BY <2>1, <3>1, <3>2
  <2>2. CASE progargv'[i] # progargv[i]
    <3>1. ReadCommand
      BY <2>2, ShellFrame
    <3>2. script[lineno] # Comment /\ lineno \in DOMAIN script /\ lineno \in 1..lineno'
      <4>1. DOMAIN script = 1..Len(script) /\ Len(script) \in Nat
        BY <1>1, LenProperties, ShellAssumption
      <4> QED BY <1>1, <3>1, <4>1 DEF ReadCommand
    <3>3. \/ i <= Len(Words(lineno)) /\ progargv'[i] = <<lineno, i>>
          \/ i + 2 <= Len(Redirs(lineno)) /\ progargv'[i] = <<lineno, 0>>
      BY <2>2, <3>1 DEF ReadCommand
    <3> QED BY <3>2, <3>3
  <2> QED BY <2>1, <2>2
<1> QED BY <1>1, <1>2 DEF PointersFrom

LEMMA LineReadStep ==
  ASSUME ShellInv, ShellNext, shell' \in {"fork", "wait"}
  PROVE  LineRead'
<1>1. /\ lineno \in Nat \ {0} /\ script \in Scripts /\ script' = script
      /\ \A l : Words(l)' = Words(l) /\ Redirs(l)' = Redirs(l)
      /\ lineno' \in ToSet(out') \cup ToSet(pending')
      /\ shell \in {"fork", "wait"} => LineRead
  BY ShellFrame, TellingStep DEF ShellInv, ShellTyped
<1>2. CASE ReadCommand
  <2>1. DOMAIN script = 1..Len(script) /\ Len(script) \in Nat
    BY <1>1, LenProperties, ShellAssumption
  <2>2. /\ lineno' = lineno /\ lineno \in DOMAIN script /\ script[lineno] # Comment /\ redirs' = Redirs(lineno)
    BY <1>1, <1>2, <2>1 DEF ReadCommand
  <2>3. Len(Words(lineno)) \in 0..MaxArgs /\ MaxArgs \in Nat
    BY <1>1, <2>2, WordCount, ShellAssumption
  <2>4. ASSUME NEW i \in 1..Len(Words(lineno))
        PROVE  \/ progargv'[i] = <<lineno, i>>
               \/ Len(redirs') > 2 /\ progargv'[i] = <<lineno, 0>>
    <3>1. i \in 1..MaxArgs /\ i <= Len(Words(lineno)) /\ i >= 1
      BY <2>3
    <3>2. i + 2 <= Len(Redirs(lineno)) => Len(redirs') > 2
      BY <1>1, <2>2, <3>1, WordCount
    <3>3. PICK over \in SUBSET {k \in 1..MaxArgs : k + 2 <= Len(Redirs(lineno))} :
             progargv' = [k \in 1..MaxArgs |->
                             CASE k \in over -> <<lineno, 0>>
                               [] k \notin over /\ k <= Len(Words(lineno)) -> <<lineno, k>>
                               [] OTHER -> progargv[k]]
      BY <1>2, Zenon DEF ReadCommand
    <3>4. i \in over => i + 2 <= Len(Redirs(lineno)) /\ progargv'[i] = <<lineno, 0>>
      BY <3>1, <3>3
    <3>5. i \notin over => progargv'[i] = <<lineno, i>>
      BY <3>1, <3>3
    <3> QED BY <3>2, <3>4, <3>5
  <2> QED BY <1>1, <2>2, <2>4 DEF LineRead
<1>3. CASE ~ReadCommand
  <2>1. shell \in {"fork", "wait"} /\ lineno' = lineno /\ progargv' = progargv /\ redirs' = redirs
    <3>1. ~ReadComment /\ ~Wait3 /\ shell \in {"fork", "wait"}
      BY <1>3, ChildWrites DEF ShellNext, ChildSteps, ReadComment, Wait3, EndOfScript, ForkFails, ForkChild
    <3> QED BY <1>3, <3>1, ShellFrame
  <2> QED BY <1>1, <2>1 DEF LineRead
<1> QED BY <1>2, <1>3

LEMMA FdsThen ==
  ASSUME redirs' = redirs, FdsAfter(cfds', redir' - 1)
  PROVE  FdsAfter(cfds, redir - 1)'
BY DEF FdsAfter, Target, Flags

LEMMA RedirectingStep ==
  ASSUME ShellInv, ShellNext
  PROVE  Redirecting'
<1>1. /\ redir \in Nat \ {0} /\ Redirecting
      /\ shell \in {"fork", "wait"} => Len(redirs) \in Nat
      /\ shell # "wait" => child = "none"
  <2>1. shell \in {"fork", "wait"} => Len(redirs) \in Nat
    BY WordCount DEF ShellInv, LineRead, ShellTyped
  <2> QED BY <2>1 DEF ShellInv, ShellTyped, OneCommand
<1>2. CASE child' \in {"none", "zombie"}
  BY <1>2 DEF Redirecting
<1>3. CASE ForkChild
  <2>1. /\ child' = "redirect" /\ redir' = 1 /\ redirs' = redirs /\ Len(redirs) \in Nat
        /\ cfds' = [d \in 0..(IF isfile THEN 3 ELSE 2) |-> <<"inherited", d>>]
    BY <1>1, <1>3 DEF ForkChild, lineVars
  <2>2. DOMAIN cfds' \in {0..2, 0..3} /\ \A d \in 0..2 : cfds'[d] = <<"inherited", d>>
    BY <2>1
  <2>3. FdsAfter(cfds', 0)
    BY <2>1, <2>2 DEF FdsAfter
  <2>4. FdsAfter(cfds, redir - 1)'
    BY <2>1, <2>3 DEF FdsAfter, Target, Flags
  <2> QED BY <2>1, <2>2, <2>4 DEF Redirecting
<1>4. CASE MakeRedir
  <2> DEFINE t == redirs[redir]
             f == CutName[t.name]
  <2>1. /\ child = "redirect" /\ redir <= Len(redirs) /\ redirs' = redirs /\ Len(redirs) \in Nat
        /\ Len(redirs) <= 2
        /\ IF f \in Openable
           THEN /\ cfds' = [cfds EXCEPT ![Target(t)] = <<f, Flags(t)>>]
                /\ redir' = redir + 1 /\ child' = child
           ELSE child' = "exec" /\ redir' = redir /\ cfds' = cfds
    BY <1>1, <1>4 DEF MakeRedir, lineVars
  <2>2. FdsAfter(cfds, redir - 1) /\ DOMAIN cfds \in {0..2, 0..3}
    BY <1>1, <2>1 DEF Redirecting
  <2>3. CASE f \in Openable
    <3>1. Target(t) \in 0..2
      BY DEF Target
    <3>2. /\ cfds'[Target(t)] = <<f, Flags(t)>> /\ DOMAIN cfds' = DOMAIN cfds
          /\ \A d \in 0..2 \ {Target(t)} : cfds'[d] = cfds[d]
      <4>1. 0..2 \subseteq DOMAIN cfds
        BY <2>2
      <4> QED BY <2>1, <2>3, <3>1, <4>1
    <3> DEFINE n == redir - 1
    <3>3. n + 1 = redir /\ n \in Nat /\ redir' - 1 = redir /\ redir \in 1..redir
      BY <1>1, <2>1, <2>3
    <3>4. \A i \in 1..redir : i = redir \/ i \in 1..n
      BY <1>1
    <3>5. 1..n \subseteq 1..redir
      BY <1>1
    <3> HIDE DEF n, f
    <3>6. /\ \A i \in 1..n : CutName[redirs[i].name] \in Openable
          /\ \A d \in 0..2 :
                \/ cfds[d] = <<"inherited", d>> /\ \A i \in 1..n : Target(redirs[i]) # d
                \/ \E i \in 1..n : /\ Target(redirs[i]) = d
                                   /\ \A k \in i + 1..n : Target(redirs[k]) # d
                                   /\ cfds[d] = <<CutName[redirs[i].name], Flags(redirs[i])>>
      BY <2>2 DEF FdsAfter, n
    <3>7. \A i \in 1..redir : CutName[redirs[i].name] \in Openable
      BY <2>3, <3>4, <3>6 DEF f
    <3>8. ASSUME NEW d \in 0..2
          PROVE  \/ cfds'[d] = <<"inherited", d>> /\ \A i \in 1..redir : Target(redirs[i]) # d
                 \/ \E i \in 1..redir : /\ Target(redirs[i]) = d
                                        /\ \A k \in i + 1..redir : Target(redirs[k]) # d
                                        /\ cfds'[d] = <<CutName[redirs[i].name], Flags(redirs[i])>>
      <4>1. CASE d = Target(t)
        <5>1. \A k \in redir + 1..redir : Target(redirs[k]) # d
          BY <1>1
        <5> QED BY <3>2, <3>3, <4>1, <5>1 DEF f
      <4>2. CASE d # Target(t)
        <5>1. cfds'[d] = cfds[d]
          BY <3>2, <4>2
        <5>2. CASE cfds[d] = <<"inherited", d>> /\ \A i \in 1..n : Target(redirs[i]) # d
          BY <3>4, <4>2, <5>1, <5>2
        <5>3. CASE \E i \in 1..n : /\ Target(redirs[i]) = d
                                   /\ \A k \in i + 1..n : Target(redirs[k]) # d
                                   /\ cfds[d] = <<CutName[redirs[i].name], Flags(redirs[i])>>
          <6>1. PICK i \in 1..n : /\ Target(redirs[i]) = d
                                  /\ \A k \in i + 1..n : Target(redirs[k]) # d
                                  /\ cfds[d] = <<CutName[redirs[i].name], Flags(redirs[i])>>
            BY <5>3
          <6>2. \A k \in i + 1..redir : k = redir \/ k \in i + 1..n
            BY <3>3
          <6>3. \A k \in i + 1..redir : Target(redirs[k]) # d
            BY <4>2, <6>1, <6>2
          <6> QED BY <3>5, <5>1, <6>1, <6>3
        <5> QED BY <3>6, <5>2, <5>3
      <4> QED BY <4>1, <4>2
    <3>9. FdsAfter(cfds', redir)
      BY <2>1, <3>7, <3>8 DEF FdsAfter
    <3>10. FdsAfter(cfds, redir - 1)'
      BY <2>1, <3>3, <3>9, FdsThen
    <3> QED BY <2>1, <2>2, <2>3, <3>2, <3>10 DEF Redirecting
  <2>4. CASE f \notin Openable
    <3>1. FdsAfter(cfds, redir - 1)'
      BY <2>1, <2>2, <2>4, FdsThen
    <3> QED BY <2>1, <2>2, <2>4, <3>1 DEF Redirecting
  <2> QED BY <2>3, <2>4
<1>5. CASE RedirsMade \/ CommandEnds \/ Exec
  <2>1. /\ redirs' = redirs /\ redir' = redir /\ progargv' = progargv
        /\ child \in {"redirect", "exec", "running"} /\ shell = "wait"
    <3>1. shell = "wait"
      BY <1>1, <1>5 DEF RedirsMade, CommandEnds, Exec
    <3> QED BY <1>5, <3>1 DEF RedirsMade, CommandEnds, Exec, lineVars
  <2>2. FdsAfter(cfds, redir - 1)
    BY <1>1, <2>1 DEF Redirecting
  <2>3. CASE RedirsMade
    <3>1. /\ cfds' = cfds /\ child' = "exec" /\ Len(redirs) <= 2
          /\ redir > Len(redirs) /\ child = "redirect" /\ redir = Len(redirs) + 1
      BY <1>1, <2>1, <2>2, <2>3 DEF RedirsMade, FdsAfter
    <3>2. FdsAfter(cfds, redir - 1)'
      BY <2>1, <2>2, <3>1 DEF FdsAfter, Target, Flags
    <3> QED BY <1>1, <2>1, <3>1, <3>2 DEF Redirecting
  <2>4. CASE CommandEnds
    BY <1>2, <2>4 DEF CommandEnds
  <2>5. CASE Exec
    <3>1. /\ child = "exec" /\ child' = "running" /\ cargs' = Argv
          /\ cfds' = [d \in DOMAIN cfds \ {3} |-> cfds[d]]
      BY <2>5 DEF Exec
    <3>2. /\ DOMAIN cfds \in {0..2, 0..3} /\ Len(redirs) <= 2
          /\ redir = Len(redirs) + 1 \/ CutName[redirs[redir].name] \notin Openable
      BY <1>1, <3>1 DEF Redirecting
    <3>3. DOMAIN cfds' = 0..2 /\ \A d \in 0..2 : cfds'[d] = cfds[d]
      <4>1. DOMAIN cfds \ {3} = 0..2
        BY <3>2
      <4> QED BY <3>1, <4>1
    <3>4. Argv' = Argv
      BY <2>1, SMTT(30) DEF Argv, ArgCount
    <3>5. FdsAfter(cfds, redir - 1)'
      BY <2>1, <2>2, <3>3, SMTT(30) DEF FdsAfter, Target, Flags
    <3> QED BY <2>1, <3>1, <3>2, <3>3, <3>4, <3>5 DEF Redirecting
  <2> QED BY <1>5, <2>3, <2>4, <2>5
<1>6. CASE ReadComment \/ ReadCommand \/ EndOfScript \/ ForkFails \/ Wait3 \/ TooMany \/ ExecFails
  <2>1. child' \in {"none", "zombie"}
    BY <1>1, <1>6 DEF ReadComment, ReadCommand, EndOfScript, ForkFails, Wait3, TooMany, ExecFails, ChildExits
  <2> QED BY <1>2, <2>1
<1> QED BY <1>3, <1>4, <1>5, <1>6 DEF ShellNext

LEMMA ShellInvStep ==
  ASSUME ShellInv, ShellNext
  PROVE  ShellInv'
<1>1. ShellTyped'
  BY ShellTypedStep DEF ShellInv
<1>2. (shell \in {"fork", "wait"} => LineRead)'
  BY LineReadStep
<1> QED BY <1>1, <1>2, OneCommandStep, TellingStep, PointersStep, RedirectingStep DEF ShellInv

LEMMA InvArgs ==
  ASSUME ShellInv
  PROVE  ArgsOfLine
<1> DEFINE w == Len(Words(lineno))
<1> SUFFICES ASSUME child = "running", \A i \in 1..MaxArgs : progargv[i] # Junk,
                    \A l \in 1..lineno : \/ script[l] = Comment
                                         \/ Len(Words(l)) <= w /\ Len(Redirs(l)) <= w + 2
             PROVE  cargs = [i \in 1..w |-> <<lineno, i>>]
  BY DEF ArgsOfLine
<1>1. /\ cargs = Argv /\ LineRead /\ PointersFrom(progargv, lineno) /\ script \in Scripts
      /\ lineno \in Nat \ {0}
  BY DEF ShellInv, ShellTyped, OneCommand, Redirecting
<1>2. w \in 0..MaxArgs /\ MaxArgs \in Nat
  BY <1>1, WordCount, ShellAssumption DEF LineRead
<1>3. \A i \in 1..w : progargv[i] = <<lineno, i>> /\ progargv[i] # NullPtr
  <2> TAKE i \in 1..w
  <2>1. i \in 1..MaxArgs /\ progargv[i] = <<lineno, i>>
    <3>1. ~(Len(redirs) > 2)
      BY WordCount DEF ShellInv, Redirecting, OneCommand, LineRead, ShellTyped
    <3> QED BY <1>1, <1>2, <3>1 DEF LineRead
  <2>2. <<lineno, i>> \in Nat \X Nat
    BY <1>1, <1>2
  <2> QED BY <2>1, <2>2, ShellAssumption
<1>4. \A i \in 1..MaxArgs : i > w => progargv[i] = NullPtr
  <2> SUFFICES ASSUME NEW i \in 1..MaxArgs, i > w, progargv[i] # NullPtr PROVE FALSE
    OBVIOUS
  <2>1. PICK l \in 1..lineno : /\ l \in DOMAIN script /\ script[l] # Comment
                               /\ i <= Len(Words(l)) \/ i + 2 <= Len(Redirs(l))
    BY <1>1 DEF PointersFrom
  <2>2. Len(Words(l)) \in Nat /\ Len(Redirs(l)) \in Nat
    BY <1>1, <1>2, <2>1, WordCount
  <2>3. Len(Words(l)) <= w /\ Len(Redirs(l)) <= w + 2
    BY <2>1
  <2> HIDE DEF w
  <2> QED BY <1>2, <2>1, <2>2, <2>3
<1> HIDE DEF w
<1> DEFINE Ends(n) == /\ \A i \in 1..n : progargv[i] # NullPtr
                      /\ n < MaxArgs => progargv[n + 1] = NullPtr
<1>5. Ends(w)
  <2>1. w < MaxArgs => w + 1 \in 1..MaxArgs /\ w + 1 > w
    BY <1>2
  <2> QED BY <1>3, <1>4, <2>1
<1>6. ASSUME NEW n \in 0..MaxArgs, Ends(n) PROVE n = w
  <2>1. ~(n < w)
    <3> SUFFICES ASSUME n < w PROVE FALSE
      OBVIOUS
    <3>1. n < MaxArgs /\ n + 1 \in 1..w
      BY <1>2
    <3> QED BY <1>3, <1>6, <3>1
  <2>2. ~(n > w)
    <3> SUFFICES ASSUME n > w PROVE FALSE
      OBVIOUS
    <3>1. w + 1 \in 1..n /\ w + 1 \in 1..MaxArgs /\ w + 1 > w
      BY <1>2
    <3> QED BY <1>4, <1>6, <3>1
  <2> QED BY <1>2, <2>1, <2>2
<1>7. ArgCount = w
  <2>1. ArgCount = CHOOSE n \in 0..MaxArgs : Ends(n)
    BY DEF ArgCount
  <2> HIDE DEF Ends
  <2> QED BY <1>2, <1>5, <1>6, <2>1
<1>8. Argv = [i \in 1..w |-> progargv[i]]
  BY <1>7 DEF Argv
<1> QED BY <1>1, <1>3, <1>8

LEMMA InvDescriptors ==
  ASSUME ShellInv
  PROVE  ChildDescriptors
<1> DEFINE n == redir - 1
           m == Len(redirs)
<1> SUFFICES ASSUME child = "running"
             PROVE  LET made == {i \in 1..m : \A k \in 1..i : redirs[k].name \in Openable}
                        last(d) == {i \in made : /\ Asked(redirs[i])[1] = d
                                                 /\ \A k \in made : k > i => Asked(redirs[k])[1] # d} IN
                    /\ DOMAIN cfds = 0..2
                    /\ (\A i \in 1..m : AsIntended(redirs[i])) =>
                          \A d \in 0..2 : /\ last(d) = {} => cfds[d] = <<"inherited", d>>
                                          /\ \A i \in last(d) : cfds[d] = Tail(Asked(redirs[i]))
  BY Zenon DEF ChildDescriptors
<1> DEFINE made == {i \in 1..m : \A k \in 1..i : redirs[k].name \in Openable}
           last(d) == {i \in made : /\ Asked(redirs[i])[1] = d
                                    /\ \A k \in made : k > i => Asked(redirs[k])[1] # d}
<1>1. /\ FdsAfter(cfds, n) /\ DOMAIN cfds = 0..2 /\ redir \in Nat \ {0}
      /\ redir = m + 1 \/ CutName[redirs[redir].name] \notin Openable
      /\ m \in Nat /\ n \in Nat /\ n <= m
  <2>1. LineRead /\ script \in Scripts
    BY DEF ShellInv, ShellTyped, OneCommand
  <2>2. m \in Nat
    BY <2>1, WordCount DEF LineRead
  <2>3. /\ FdsAfter(cfds, n) /\ DOMAIN cfds = 0..2 /\ redir \in Nat \ {0}
        /\ redir = m + 1 \/ CutName[redirs[redir].name] \notin Openable
    BY DEF ShellInv, ShellTyped, Redirecting
  <2>4. n <= m
    BY <2>3 DEF FdsAfter
  <2> QED BY <2>2, <2>3, <2>4
<1>2. ASSUME \A i \in 1..m : AsIntended(redirs[i]), NEW d \in 0..2
      PROVE  /\ last(d) = {} => cfds[d] = <<"inherited", d>>
             /\ \A i \in last(d) : cfds[d] = Tail(Asked(redirs[i]))
  <2>1. \A i \in 1..m : /\ Asked(redirs[i])[1] = Target(redirs[i])
                        /\ Tail(Asked(redirs[i])) = <<CutName[redirs[i].name], Flags(redirs[i])>>
                        /\ CutName[redirs[i].name] = redirs[i].name
    BY <1>2 DEF AsIntended, Asked, Target, Flags
  <2> HIDE DEF m
  <2>2. made = 1..n
    <3>1. \A i \in 1..n : redirs[i].name \in Openable
      BY <1>1, <2>1 DEF FdsAfter
    <3>2. 1..n \subseteq made
      BY <1>1, <3>1
    <3>3. ASSUME NEW i \in made PROVE i \in 1..n
      <4>1. CASE i >= redir
        <5>1. redir \in 1..i /\ redir \in 1..m /\ redir # m + 1
          BY <1>1, <3>3, <4>1
        <5> QED BY <1>1, <2>1, <3>3, <5>1
      <4>2. CASE ~(i >= redir)
        BY <1>1, <4>2
      <4> QED BY <4>1, <4>2
    <3> QED BY <3>2, <3>3
  <2>3. n \in Nat /\ 1..n \subseteq 1..m
    BY <1>1
  <2> HIDE DEF made, n
  <2>4. \/ cfds[d] = <<"inherited", d>> /\ \A i \in 1..n : Target(redirs[i]) # d
        \/ \E i \in 1..n : /\ Target(redirs[i]) = d
                           /\ \A k \in i + 1..n : Target(redirs[k]) # d
                           /\ cfds[d] = <<CutName[redirs[i].name], Flags(redirs[i])>>
    BY <1>1 DEF FdsAfter
  <2>5. CASE cfds[d] = <<"inherited", d>> /\ \A i \in 1..n : Target(redirs[i]) # d
    <3>1. last(d) = {}
      BY <2>1, <2>2, <2>3, <2>5
    <3> QED BY <2>5, <3>1
  <2>6. ASSUME NEW i \in 1..n, Target(redirs[i]) = d, \A k \in i + 1..n : Target(redirs[k]) # d,
               cfds[d] = <<CutName[redirs[i].name], Flags(redirs[i])>>
        PROVE  /\ last(d) = {} => cfds[d] = <<"inherited", d>>
               /\ \A j \in last(d) : cfds[d] = Tail(Asked(redirs[j]))
    <3>1. i \in last(d)
      <4>1. \A k \in 1..n : k > i => k \in i + 1..n
        BY <2>3
      <4>2. \A k \in 1..n : k > i => Asked(redirs[k])[1] # d
        BY <2>1, <2>3, <2>6, <4>1
      <4> QED BY <2>1, <2>2, <2>3, <2>6, <4>2
    <3>2. ASSUME NEW j \in last(d) PROVE j = i
      <4>1. j \in 1..n /\ Asked(redirs[j])[1] = d /\ ~(i > j) /\ Asked(redirs[i])[1] = d
        BY <2>1, <2>2, <2>3, <2>6, <3>2
      <4>2. ~(j > i)
        BY <3>1, <4>1, <2>2
      <4> QED BY <2>3, <4>1, <4>2
    <3> HIDE DEF last
    <3> QED BY <2>1, <2>3, <2>6, <3>1, <3>2
  <2> QED BY <2>4, <2>5, <2>6
<1> QED BY <1>1, <1>2

LEMMA ShellInvNext == ShellInv /\ [ShellNext]_shellVars => ShellInv'
<1> SUFFICES ASSUME ShellInv, [ShellNext]_shellVars PROVE ShellInv'
  OBVIOUS
<1>1. CASE UNCHANGED shellVars
  <2>1. UNCHANGED <<script, isfile, tty, lineno, progargv, redirs, shell, pending, out, child, redir, cfds, cargs>>
    BY <1>1 DEF shellVars, lineVars
  <2>2. ShellTyped' /\ OneCommand' /\ Telling' /\ PointersFrom(progargv, lineno)' /\ (LineRead => LineRead')
    BY <2>1 DEF ShellInv, ShellTyped, OneCommand, Telling, Told, Ascending, PointersFrom, LineRead, Words, Redirs
  <2>3. Redirecting'
    <3>1. FdsAfter(cfds, redir - 1)' <=> FdsAfter(cfds, redir - 1)
      BY <2>1 DEF FdsAfter, Target, Flags
    <3>2. Argv' = Argv
      BY <2>1 DEF Argv, ArgCount
    <3> QED BY <2>1, <3>1, <3>2 DEF ShellInv, Redirecting
  <2> QED BY <2>1, <2>2, <2>3 DEF ShellInv
<1> QED BY <1>1, ShellInvStep

\* Commands run one at a time, each with the words of its line and with the
\* descriptors its redirections ask for (mysh.c:41-157).
THEOREM ShellRunsRight == ShellSpec => []CommandRight
<1>1. ShellInv => CommandRight
  BY InvArgs, InvDescriptors DEF ShellInv, CommandRight
<1> QED BY <1>1, ShellInvNext, InitShell, PTL DEF ShellSpec

\* Each command is announced, on a terminal once and before it runs, elsewhere
\* at the latest when the script has ended (mysh.c:67-87, 126-129, 158-162).
THEOREM ShellAnnounces == ShellSpec => []Announced
<1>1. ShellInv => Announced
  <2>0. ToSet(<<>>) = {}
    <3>1. DOMAIN <<>> = {}
      BY LenProperties, EmptySeq
    <3> QED BY <3>1 DEF ToSet
  <2> SUFFICES ASSUME ShellInv PROVE Announced
    OBVIOUS
  <2>1. /\ tty => pending = <<>> /\ \A i, k \in DOMAIN out : i < k => out[i] < out[k]
        /\ shell = "ended" => pending = <<>>
        /\ \A l \in 1..lineno - 1 : script[l] # Comment => l \in ToSet(out) \cup ToSet(pending)
        /\ child # "none" => lineno \in ToSet(out) \cup ToSet(pending)
    BY DEF ShellInv, Telling, Told, Ascending, OneCommand, LineRead
  <2> QED BY <2>0, <2>1 DEF Announced
<1> QED BY <1>1, ShellInvNext, InitShell, PTL DEF ShellSpec

------------------------------------------------------------------------------

(***************************************************************************)
(* The walk of find (Find.tla).                                            *)
(***************************************************************************)
Listed == {listing[i] : i \in 1..Len(listing)}

\* The nodes that pass the two tests of the program, and so everybody's for -u 0.
Passes(n) == /\ uvalue = 0 \/ Uid[n] = uvalue
             /\ mvalue > 0 => Age[n] >= mvalue
             /\ mvalue < 0 => Age[n] <= -mvalue
Sought == {n \in Nodes : Passes(n)}

Calls == [dir : Nodes, isroot : BOOLEAN, left : SUBSET (Below \cup {".", ".."})]

\* What is listed: only what is sought, nothing twice, and no node before its
\* directory.
DirsFirst(l, W) ==
    \A i \in 1..Len(l) :
        /\ l[i] \in W
        /\ \A k \in 1..(i - 1) : l[k] # l[i]
        /\ l[i] \in Below /\ Parent[l[i]] # Top => \E k \in 1..(i - 1) : l[k] = Parent[l[i]]

\* The calls of find lead from the starting path down, each into a directory
\* that has been listed, and no directory is entered twice.
Descent(s, L) ==
    /\ s \in Seq(Calls) /\ Len(s) \in Nat \ {0}
    /\ s[1].dir = Top
    /\ \A k \in 1..Len(s) : /\ s[k].isroot <=> k = 1
                            /\ s[k].left \subseteq Entries(s[k].dir)
                            /\ k # 1 => s[k].dir \in Below \cap L
    /\ \A j, k \in 1..Len(s) : s[j].dir = s[k].dir => j = k

\* What readdir has still to return has not been listed.
Unlisted(s, L) ==
    /\ "." \in s[1].left => Top \notin L
    /\ \A k \in 1..Len(s) : \A e \in s[k].left \cap Below : e \notin L

\* What is sought and not listed is still to come, or its directory has not
\* been listed either.
ComesAfter(s, L, M, W) ==
    /\ "." \notin s[1].left /\ Top \in W => Top \in M
    /\ \A n \in (Below \cap W) \ M : \/ Parent[n] # Top /\ Parent[n] \notin L
                                     \/ \E k \in 1..Len(s) : n \in s[k].left
ToCome(s, L, W) == ComesAfter(s, L, L, W)

AllListed(L, W) ==
    /\ Top \in W => Top \in L
    /\ \A n \in (Below \cap W) \ L : Parent[n] # Top /\ Parent[n] \notin L

\* The directory of whatever is listed has been listed.
Rooted(L) == \A n \in Below \cap L : Parent[n] # Top => Parent[n] \in L

FindInv ==
    /\ walk \in {"options", "walking", "ended"}
    /\ mtime \in Times /\ listing \in Seq(Nodes)
    /\ DirsFirst(listing, Sought)
    /\ walk = "options" => listing = <<>>
    /\ walk = "walking" => /\ BadArg \notin {user, mtime}
                           /\ Descent(stack, Listed) /\ Unlisted(stack, Listed)
                           /\ ToCome(stack, Listed, Sought)
    /\ walk = "ended" /\ ~failed /\ ~fell => AllListed(Listed, Sought)

(***************************************************************************)
(* The tree.                                                               *)
(***************************************************************************)
LEMMA NoLoop ==
  ASSUME NEW n \in Below
  PROVE  Parent[n] # n /\ n \notin {".", "..", Top} /\ Parent[n] \in Nodes /\ n \in Nodes
<1>1. \E m \in {n} : Parent[m] \notin {n}
  BY TreeAssumption
<1> QED BY <1>1, TreeAssumption DEF Nodes

LEMMA BetweenUp ==
  ASSUME NEW n \in Below, Parent[n] # Top
  PROVE  Parent[n] \in Below /\ Parent[n] \in Between(n)
<1>1. Parent[n] \in Below \ {n}
  BY NoLoop DEF Nodes
<1>2. ASSUME NEW S \in SUBSET Below, Upward(S), n \in S \cup {Top} PROVE Parent[n] \in S
  BY <1>2, NoLoop DEF Upward
<1> QED BY <1>1, <1>2 DEF Between

\* Were n above the directory it is in, the nodes n is above would not lead to
\* the starting path.
LEMMA BetweenFurther ==
  ASSUME NEW n \in Below, Parent[n] # Top
  PROVE  Between(Parent[n]) \subseteq Between(n)
<1>1. Parent[n] \in Below /\ Parent[n] # n /\ n # Top
  BY BetweenUp, NoLoop
<1>2. n \notin Between(Parent[n])
  <2> SUFFICES ASSUME n \in Between(Parent[n]) PROVE FALSE
    OBVIOUS
  <2> DEFINE Under == {m \in Below : \A S \in SUBSET Below : Upward(S) /\ m \in S => n \in S}
  <2>1. Parent[n] \in Under
    BY <1>1 DEF Between
  <2>2. ASSUME NEW m \in Under PROVE Parent[m] \in Under
    <3>1. CASE m = n
      BY <2>1, <3>1
    <3>2. CASE m # n
      <4>1. Parent[m] # Top
        <5>1. SUFFICES ASSUME Parent[m] = Top PROVE FALSE
          OBVIOUS
        <5>2. Upward({m}) /\ {m} \in SUBSET Below
          BY <5>1 DEF Upward
        <5> QED BY <3>2, <5>2
      <4>2. Parent[m] \in Below
        BY <4>1, NoLoop DEF Nodes
      <4>3. ASSUME NEW S \in SUBSET Below, Upward(S), Parent[m] \in S PROVE n \in S
        <5>1. Upward(S \cup {m}) /\ S \cup {m} \in SUBSET Below
          BY <4>3 DEF Upward
        <5> QED BY <3>2, <5>1
      <4> QED BY <4>2, <4>3
    <3> QED BY <3>1, <3>2
  <2>3. Under \in SUBSET Below /\ Under # {}
    BY <2>1
  <2> HIDE DEF Under
  <2> QED BY <2>2, <2>3, TreeAssumption
<1>3. ASSUME NEW d \in Between(Parent[n]) PROVE d \in Between(n)
  <2>1. d \in Below \ {n}
    BY <1>2 DEF Between
  <2>2. ASSUME NEW S \in SUBSET Below, Upward(S), n \in S \cup {Top} PROVE d \in S
    <3>1. Parent[n] \in S
      BY <1>1, <2>2 DEF Upward
    <3> QED BY <2>2, <3>1 DEF Between
  <2> QED BY <2>1, <2>2 DEF Between
<1> QED BY <1>3

\* The directories that lead to what is listed come before it.
LEMMA BetweenFirst ==
  ASSUME NEW l \in Seq(Nodes), NEW W, DirsFirst(l, W), NEW i \in 1..Len(l), NEW d \in Between(l[i])
  PROVE  \E k \in 1..(i - 1) : l[k] = d
<1> DEFINE S == {l[k] : k \in 1..i} \cap Below
<1>0. Len(l) \in Nat /\ \A k \in 1..Len(l) : l[k] \in Nodes
  BY LenProperties
<1>1. \A k \in 1..i : k \in 1..Len(l) /\ \A h \in 1..(k - 1) : h \in 1..i
  BY <1>0
<1>2. Upward(S)
  <2> SUFFICES ASSUME NEW n \in S, Parent[n] # Top PROVE Parent[n] \in S
    BY DEF Upward
  <2>1. PICK k \in 1..i : n = l[k]
    OBVIOUS
  <2>2. PICK h \in 1..(k - 1) : l[h] = Parent[n]
    BY <1>1, <2>1 DEF DirsFirst
  <2>3. Parent[n] \in Below
    BY BetweenUp
  <2> QED BY <1>1, <2>2, <2>3
<1>3. l[i] \in S \cup {Top}
  <2>1. i \in 1..i /\ l[i] \in Nodes
    BY <1>0
  <2> QED BY <2>1 DEF Nodes
<1>4. d \in S /\ d # l[i]
  <2>1. S \in SUBSET Below
    OBVIOUS
  <2> HIDE DEF S
  <2> QED BY <1>2, <1>3, <2>1 DEF Between
<1>5. PICK k \in 1..i : l[k] = d
  BY <1>4
<1>6. k \in 1..(i - 1)
  BY <1>4, <1>5
<1> QED BY <1>5, <1>6

(***************************************************************************)
(* One turn of the loop.                                                   *)
(***************************************************************************)
Without(s, e) == [s EXCEPT ![Len(s)].left = @ \ {e}]

LEMMA WithoutIs ==
  ASSUME NEW s \in Seq(Calls), Len(s) \in Nat \ {0}, NEW e
  PROVE  /\ Without(s, e) \in Seq(Calls) /\ Len(Without(s, e)) = Len(s)
         /\ \A k \in 1..Len(s) :
               /\ Without(s, e)[k].dir = s[k].dir
               /\ Without(s, e)[k].isroot = s[k].isroot
               /\ k = Len(s) => Without(s, e)[k].left = s[k].left \ {e}
               /\ k # Len(s) => Without(s, e)[k].left = s[k].left
<1> DEFINE r == Without(s, e)
<1>1. /\ DOMAIN s = 1..Len(s) /\ Len(s) \in 1..Len(s)
      /\ \A k \in 1..Len(s) : s[k] \in Calls
  BY LenProperties
<1>2. /\ DOMAIN r = 1..Len(s)
      /\ \A k \in 1..Len(s) : r[k] = IF k = Len(s) THEN [s[k] EXCEPT !.left = @ \ {e}] ELSE s[k]
  BY <1>1 DEF Without
<1>3. r = [k \in 1..Len(s) |-> r[k]]
  BY <1>1 DEF Without
<1> HIDE DEF r
<1>4. ASSUME NEW k \in 1..Len(s)
      PROVE  /\ r[k] \in Calls /\ r[k].dir = s[k].dir /\ r[k].isroot = s[k].isroot
             /\ k = Len(s) => r[k].left = s[k].left \ {e}
             /\ k # Len(s) => r[k].left = s[k].left
  <2>1. s[k] \in Calls
    BY <1>1
  <2>2. CASE k = Len(s)
    <3>1. r[k] = [s[k] EXCEPT !.left = @ \ {e}]
      BY <1>2, <2>2
    <3> QED BY <2>1, <2>2, <3>1 DEF Calls
  <2>3. CASE k # Len(s)
    <3>1. r[k] = s[k]
      BY <1>2, <2>3
    <3> QED BY <2>1, <2>3, <3>1
  <2> QED BY <2>2, <2>3
<1>5. r \in Seq(Calls) /\ Len(r) = Len(s)
  <2> DEFINE f(k) == r[k]
             n == Len(s)
  <2>1. n \in Nat /\ \A k \in 1..n : f(k) \in Calls
    BY <1>4
  <2> HIDE DEF f, n
  <2>2. [k \in 1..n |-> f(k)] \in Seq(Calls) /\ Len([k \in 1..n |-> f(k)]) = n
    BY <2>1, IsASeq
  <2> QED BY <1>3, <2>2 DEF f, n
<1> QED BY <1>4, <1>5 DEF r

\* An entry that is skipped, or left out by the options.
LEMMA PassOver ==
  ASSUME NEW s, NEW L, NEW W, Descent(s, L), Unlisted(s, L), ToCome(s, L, W),
         NEW e \in s[Len(s)].left, e \notin Below \cap W, e = "." /\ Len(s) = 1 => Top \notin W
  PROVE  Descent(Without(s, e), L) /\ Unlisted(Without(s, e), L) /\ ToCome(Without(s, e), L, W)
<1> DEFINE r == Without(s, e)
<1>1. s \in Seq(Calls) /\ Len(s) \in Nat \ {0} /\ 1 \in 1..Len(s)
  BY DEF Descent
<1>2. /\ r \in Seq(Calls) /\ Len(r) = Len(s)
      /\ \A k \in 1..Len(s) : /\ r[k].dir = s[k].dir /\ r[k].isroot = s[k].isroot
                              /\ k = Len(s) => r[k].left = s[k].left \ {e}
                              /\ k # Len(s) => r[k].left = s[k].left
  <2>1. r = Without(s, e)
    OBVIOUS
  <2> HIDE DEF r
  <2> QED BY ONLY <1>1, <2>1, WithoutIs
<1> HIDE DEF r
<1>3. Descent(r, L)
  BY <1>1, <1>2 DEF Descent
<1>4. Unlisted(r, L)
  BY <1>1, <1>2 DEF Unlisted
<1>5. ToCome(r, L, W)
  <2>1. ASSUME "." \notin r[1].left, Top \in W PROVE Top \in L
    BY <1>1, <1>2, <2>1 DEF ToCome, ComesAfter
  <2>2. ASSUME NEW n \in (Below \cap W) \ L, NEW k \in 1..Len(s), n \in s[k].left
        PROVE  n \in r[k].left
    BY <1>2, <2>2
  <2> QED BY <1>2, <2>1, <2>2 DEF ToCome, ComesAfter
<1> QED BY <1>3, <1>4, <1>5 DEF r

\* "." of the starting path.
LEMMA ListTop ==
  ASSUME NEW s, NEW L, NEW W, Descent(s, L), Unlisted(s, L), ToCome(s, L, W),
         "." \in s[Len(s)].left, Len(s) = 1
  PROVE  /\ Descent(Without(s, "."), L \cup {Top}) /\ Unlisted(Without(s, "."), L \cup {Top})
         /\ ToCome(Without(s, "."), L \cup {Top}, W) /\ Top \notin L
<1> DEFINE r == Without(s, ".")
<1>1. s \in Seq(Calls) /\ Len(s) \in Nat \ {0} /\ 1 \in 1..Len(s)
  BY DEF Descent
<1>2. /\ r \in Seq(Calls) /\ Len(r) = 1
      /\ r[1].dir = s[1].dir /\ r[1].isroot = s[1].isroot /\ r[1].left = s[1].left \ {"."}
  <2>1. Len(s) = 1
    OBVIOUS
  <2>2. r = Without(s, ".")
    OBVIOUS
  <2> HIDE DEF r
  <2> QED BY ONLY <1>1, <2>1, <2>2, WithoutIs
<1> HIDE DEF r
<1>3. \A n \in Below : n \notin {".", Top}
  BY NoLoop
<1>4. Descent(r, L \cup {Top})
  BY <1>1, <1>2 DEF Descent
<1>5. Unlisted(r, L \cup {Top})
  BY <1>1, <1>2, <1>3 DEF Unlisted
<1>6. ToCome(r, L \cup {Top}, W)
  <2> SUFFICES ASSUME NEW n \in (Below \cap W) \ L
               PROVE  (Parent[n] # Top /\ Parent[n] \notin L) \/ n \in r[1].left
    BY <1>2 DEF ToCome, ComesAfter
  <2>1. (Parent[n] # Top /\ Parent[n] \notin L) \/ n \in s[1].left
    BY DEF ToCome, ComesAfter
  <2> QED BY <1>2, <1>3, <2>1
<1>7. Top \notin L
  BY DEF Unlisted
<1> QED BY <1>4, <1>5, <1>6, <1>7 DEF r

\* A node below, which is listed, and entered if it is a directory.
LEMMA EntryIs ==
  ASSUME NEW s, NEW L, Descent(s, L), Unlisted(s, L), NEW e \in s[Len(s)].left \cap Below
  PROVE  /\ e \notin L /\ Parent[e] = s[Len(s)].dir
         /\ Parent[e] # Top => Parent[e] \in L
<1>1. Len(s) \in 1..Len(s) /\ e \in Entries(s[Len(s)].dir) /\ e \notin {".", ".."}
  BY NoLoop DEF Descent
<1> QED BY <1>1 DEF Descent, Unlisted, Entries

LEMMA ListNode ==
  ASSUME NEW s, NEW L, NEW W, Descent(s, L), Unlisted(s, L), ToCome(s, L, W), Rooted(L),
         NEW e \in s[Len(s)].left \cap Below
  PROVE  /\ Descent(Without(s, e), L \cup {e}) /\ Unlisted(Without(s, e), L \cup {e})
         /\ ComesAfter(Without(s, e), L, L \cup {e}, W)
<1> DEFINE r == Without(s, e)
           M == L \cup {e}
<1>1. s \in Seq(Calls) /\ Len(s) \in Nat \ {0} /\ 1 \in 1..Len(s)
  BY DEF Descent
<1>2. /\ r \in Seq(Calls) /\ Len(r) = Len(s)
      /\ \A k \in 1..Len(s) : /\ r[k].dir = s[k].dir /\ r[k].isroot = s[k].isroot
                              /\ k = Len(s) => r[k].left = s[k].left \ {e}
                              /\ k # Len(s) => r[k].left = s[k].left
  BY <1>1, WithoutIs
<1>3. e \notin {".", "..", Top} /\ e \notin L /\ Parent[e] = s[Len(s)].dir
  BY NoLoop, EntryIs
<1> HIDE DEF r
<1>4. Descent(r, M)
  BY <1>1, <1>2 DEF Descent
<1>5. Unlisted(r, M)
  <2>1. ASSUME "." \in r[1].left PROVE Top \notin M
    BY <1>1, <1>2, <1>3, <2>1 DEF Unlisted
  <2>2. ASSUME NEW k \in 1..Len(s), NEW n \in r[k].left \cap Below PROVE n \notin M
    <3>1. n \in s[k].left /\ n \notin L
      BY <1>2 DEF Unlisted
    <3>2. n # e
      <4>1. CASE k = Len(s)
        BY <1>2, <4>1
      <4>2. CASE k # Len(s)
        <5>1. Len(s) \in 1..Len(s) /\ s[k].dir # s[Len(s)].dir
          BY <1>1, <4>2 DEF Descent
        <5>2. n \in Entries(s[k].dir) /\ n \notin {".", ".."}
          BY <3>1, NoLoop DEF Descent
        <5> QED BY <1>3, <5>1, <5>2 DEF Entries
      <4> QED BY <4>1, <4>2
    <3> QED BY <3>1, <3>2
  <2> QED BY <1>2, <2>1, <2>2 DEF Unlisted
<1>6. ASSUME "." \notin r[1].left, Top \in W PROVE Top \in M
  BY <1>1, <1>2, <1>3, <1>6 DEF ToCome, ComesAfter
<1>7. ASSUME NEW n \in (Below \cap W) \ M, NEW k \in 1..Len(s), n \in s[k].left
      PROVE  n \in r[k].left
  BY <1>2, <1>7
<1>8. \A n \in (Below \cap W) \ M : \/ Parent[n] # Top /\ Parent[n] \notin L
                                    \/ \E k \in 1..Len(s) : n \in r[k].left
  BY <1>7 DEF ToCome, ComesAfter
<1>9. ComesAfter(r, L, M, W)
  BY <1>2, <1>6, <1>8 DEF ComesAfter
<1> QED BY <1>4, <1>5, <1>9 DEF r

LEMMA ListFile ==
  ASSUME NEW s, NEW L, NEW W, Descent(s, L), Unlisted(s, L), ToCome(s, L, W), Rooted(L),
         NEW e \in s[Len(s)].left \cap Below, Kind[e] # "dir"
  PROVE  /\ Descent(Without(s, e), L \cup {e}) /\ Unlisted(Without(s, e), L \cup {e})
         /\ ToCome(Without(s, e), L \cup {e}, W)
<1> DEFINE r == Without(s, e)
           M == L \cup {e}
           n == Len(s)
<1>1. Len(r) = n
  BY WithoutIs DEF Descent
<1>2. \A m \in Below : Parent[m] # e
  BY TreeAssumption
<1>3. Descent(r, M) /\ Unlisted(r, M) /\ ComesAfter(r, L, M, W)
  BY ListNode
<1>4. ToCome(r, M, W)
  <2> HIDE DEF r, n
  <2> QED BY <1>1, <1>2, <1>3 DEF ToCome, ComesAfter
<1> QED BY <1>3, <1>4

LEMMA ListDirectory ==
  ASSUME NEW s, NEW L, NEW W, Descent(s, L), Unlisted(s, L), ToCome(s, L, W), Rooted(L),
         NEW e \in s[Len(s)].left \cap Below, NEW t, t = Append(Without(s, e), Frame(e, FALSE))
  PROVE  Descent(t, L \cup {e}) /\ Unlisted(t, L \cup {e}) /\ ToCome(t, L \cup {e}, W)
<1> DEFINE r == Without(s, e)
           M == L \cup {e}
           n == Len(s)
<1>1. n \in Nat \ {0} /\ Len(r) = n /\ r \in Seq(Calls)
  BY WithoutIs DEF Descent
<1>2. /\ Descent(r, M) /\ Unlisted(r, M)
      /\ "." \notin r[1].left /\ Top \in W => Top \in M
      /\ \A m \in (Below \cap W) \ M : \/ Parent[m] # Top /\ Parent[m] \notin L
                                       \/ \E k \in 1..n : m \in r[k].left
  <2>1. Descent(r, M) /\ Unlisted(r, M) /\ ComesAfter(r, L, M, W)
    BY ListNode
  <2> HIDE DEF r
  <2> QED BY <1>1, <2>1 DEF ComesAfter
<1>3. e \in Nodes /\ e \notin {".", "..", Top} /\ Parent[e] # e /\ e \notin L
  BY NoLoop, EntryIs
<1>4. /\ Frame(e, FALSE) \in Calls
      /\ Frame(e, FALSE).dir = e /\ Frame(e, FALSE).isroot = FALSE /\ Frame(e, FALSE).left = Entries(e)
  BY <1>3 DEF Frame, Calls, Entries
<1>5. /\ t \in Seq(Calls) /\ Len(t) = n + 1
      /\ \A k \in 1..n : t[k] = r[k]
      /\ t[n + 1] = Frame(e, FALSE)
  <2> HIDE DEF r
  <2>1. t = Append(r, Frame(e, FALSE))
    BY DEF r
  <2> DEFINE f == Frame(e, FALSE)
  <2>2. f \in Calls /\ t = Append(r, f)
    BY <1>4, <2>1
  <2> HIDE DEF n, f
  <2>3. t \in Seq(Calls) /\ Len(t) = Len(r) + 1 /\ t[Len(r) + 1] = f /\ \A k \in 1..Len(r) : t[k] = r[k]
    BY ONLY <1>1, <2>2, AppendProperties
  <2> QED BY <1>1, <2>3 DEF f
<1>6. \A k \in 1..n : r[k].dir # e
  <2>1. \A k \in 1..n : r[k].dir = s[k].dir
    BY WithoutIs DEF Descent
  <2>2. \A k \in 1..n : s[k].dir = Top \/ s[k].dir \in L
    BY DEF Descent
  <2> HIDE DEF r, n
  <2> QED BY <1>3, <2>1, <2>2
<1>7. 1 \in 1..n /\ 1..n + 1 = (1..n) \cup {n + 1} /\ n + 1 # 1
  BY <1>1
<1> HIDE DEF r, n
<1>8. Descent(t, M)
  <2>1. ASSUME NEW k \in 1..n + 1
        PROVE  /\ t[k].isroot <=> k = 1
               /\ t[k].left \subseteq Entries(t[k].dir)
               /\ k # 1 => t[k].dir \in Below \cap M
    <3>1. CASE k \in 1..n
      BY <1>1, <1>2, <1>5, <3>1 DEF Descent
    <3>2. CASE k = n + 1
      BY <1>4, <1>5, <1>7, <3>2
    <3> QED BY <1>7, <3>1, <3>2
  <2>2. ASSUME NEW j \in 1..n + 1, NEW k \in 1..n + 1, t[j].dir = t[k].dir PROVE j = k
    <3>1. CASE j \in 1..n /\ k \in 1..n
      <4>1. r[j].dir = r[k].dir
        BY <1>5, <2>2, <3>1
      <4> QED BY <1>1, <1>2, <3>1, <4>1 DEF Descent
    <3>2. CASE j \in 1..n /\ k = n + 1
      BY <1>4, <1>5, <1>6, <2>2, <3>2
    <3>3. CASE j = n + 1 /\ k \in 1..n
      BY <1>4, <1>5, <1>6, <2>2, <3>3
    <3> QED BY <1>7, <3>1, <3>2, <3>3
  <2>3. t[1].dir = Top
    BY <1>2, <1>5, <1>7 DEF Descent
  <2>4. Len(t) \in Nat \ {0}
    BY <1>1, <1>5
  <2> QED BY <1>5, <2>1, <2>2, <2>3, <2>4 DEF Descent
<1>9. Unlisted(t, M)
  <2>1. ASSUME NEW m \in Entries(e) \cap Below PROVE m \notin M
    <3>1. Parent[m] = e
      BY NoLoop DEF Entries
    <3> QED BY <1>3, <3>1 DEF Rooted
  <2>2. ASSUME NEW k \in 1..n + 1, NEW m \in t[k].left \cap Below PROVE m \notin M
    <3>1. CASE k \in 1..n
      BY <1>1, <1>2, <1>5, <3>1 DEF Unlisted
    <3>2. CASE k = n + 1
      BY <1>4, <1>5, <2>1, <3>2
    <3> QED BY <1>7, <3>1, <3>2
  <2>3. "." \in t[1].left => Top \notin M
    BY <1>2, <1>5, <1>7 DEF Unlisted
  <2> QED BY <1>5, <2>2, <2>3 DEF Unlisted
<1>10. ToCome(t, M, W)
  <2>1. "." \notin t[1].left /\ Top \in W => Top \in M
    BY <1>2, <1>5, <1>7
  <2>2. ASSUME NEW m \in (Below \cap W) \ M
        PROVE  (Parent[m] # Top /\ Parent[m] \notin M) \/ \E k \in 1..n + 1 : m \in t[k].left
    <3>1. CASE \E k \in 1..n : m \in r[k].left
      BY <1>5, <1>7, <3>1
    <3>2. CASE Parent[m] # Top /\ Parent[m] \notin L /\ Parent[m] # e
      BY <3>2
    <3>3. CASE Parent[m] = e
      <4>1. m \in t[n + 1].left
        BY <1>4, <1>5, <3>3 DEF Entries
      <4> QED BY <1>7, <4>1
    <3> QED BY <1>2, <3>1, <3>2, <3>3
  <2> QED BY <1>5, <2>1, <2>2 DEF ToCome, ComesAfter
<1> QED BY <1>8, <1>9, <1>10

(***************************************************************************)
(* The steps.                                                              *)
(***************************************************************************)
LEMMA ListOne ==
  ASSUME NEW l \in Seq(Nodes), NEW n \in Nodes, NEW W, DirsFirst(l, W), n \in W,
         \A i \in 1..Len(l) : l[i] # n,
         n \in Below /\ Parent[n] # Top => \E i \in 1..Len(l) : l[i] = Parent[n]
  PROVE  /\ Append(l, n) \in Seq(Nodes) /\ DirsFirst(Append(l, n), W)
         /\ {Append(l, n)[i] : i \in 1..Len(Append(l, n))} = {l[i] : i \in 1..Len(l)} \cup {n}
<1> DEFINE m == Append(l, n)
           z == Len(l)
<1>1. /\ z \in Nat /\ m \in Seq(Nodes) /\ Len(m) = z + 1 /\ m[z + 1] = n
      /\ \A i \in 1..z : m[i] = l[i]
  BY LenProperties, AppendProperties
<1>2. 1..z + 1 = (1..z) \cup {z + 1} /\ \A i \in 1..z : \A k \in 1..(i - 1) : k \in 1..z
  BY <1>1
<1>3. (z + 1) - 1 = z
  BY <1>1
<1> HIDE DEF m
<1>4. ASSUME NEW i \in 1..z + 1
      PROVE  /\ m[i] \in W
             /\ \A k \in 1..(i - 1) : m[k] # m[i]
             /\ m[i] \in Below /\ Parent[m[i]] # Top => \E k \in 1..(i - 1) : m[k] = Parent[m[i]]
  <2>1. CASE i \in 1..z
    <3>1. m[i] = l[i]
      BY <1>1, <2>1
    <3>2. \A k \in 1..(i - 1) : m[k] = l[k]
      BY <1>1, <1>2, <2>1
    <3>3. l[i] \in W /\ \A k \in 1..(i - 1) : l[k] # l[i]
      BY <2>1 DEF DirsFirst
    <3>4. l[i] \in Below /\ Parent[l[i]] # Top => \E k \in 1..(i - 1) : l[k] = Parent[l[i]]
      BY <2>1 DEF DirsFirst
    <3> QED BY <3>1, <3>2, <3>3, <3>4
  <2>2. CASE i = z + 1
    <3>1. \A k \in 1..(i - 1) : k \in 1..z
      BY <1>3, <2>2
    <3>2. m[i] = n
      BY <1>1, <2>2
    <3>3. \A k \in 1..(i - 1) : m[k] # m[i]
      BY <1>1, <3>1, <3>2
    <3>4. n \in Below /\ Parent[n] # Top => \E k \in 1..(i - 1) : m[k] = Parent[n]
      BY <1>1, <1>3, <2>2
    <3> QED BY <3>2, <3>3, <3>4
  <2> QED BY <1>2, <2>1, <2>2
<1>5. DirsFirst(m, W)
  BY <1>1, <1>4 DEF DirsFirst
<1>6. {m[i] : i \in 1..Len(m)} = {l[i] : i \in 1..z} \cup {n}
  BY <1>1, <1>2
<1> QED BY <1>1, <1>5, <1>6 DEF m

LEMMA ListedRooted ==
  ASSUME FindInv
  PROVE  Rooted(Listed)
<1>0. Len(listing) \in Nat
  BY LenProperties DEF FindInv
<1> SUFFICES ASSUME NEW n \in Below \cap Listed, Parent[n] # Top PROVE Parent[n] \in Listed
  BY DEF Rooted
<1>1. PICK i \in 1..Len(listing) : n = listing[i]
  BY DEF Listed
<1>2. PICK k \in 1..(i - 1) : listing[k] = Parent[n]
  BY <1>1 DEF FindInv, DirsFirst
<1>3. k \in 1..Len(listing)
  BY <1>0
<1> QED BY <1>2, <1>3 DEF Listed

LEMMA FilterIs ==
  ASSUME mtime \in Times, BadArg \notin {user, mtime}, NEW n \in Nodes
  PROVE  FilteredOut(n) <=> n \notin Sought
<1>1. mvalue \in Int /\ Age[n] \in Int
  BY ArgAssumption, TreeAssumption DEF mvalue
<1> DEFINE m == mvalue
           a == Age[n]
           u == uvalue
<1> HIDE DEF m, a, u
<1>2. (mvalue > 0 /\ Age[n] < mvalue) <=> ~(mvalue > 0 => Age[n] >= mvalue)
  BY <1>1
<1>3. (mvalue < 0 /\ -mvalue < Age[n]) <=> ~(mvalue < 0 => Age[n] <= -mvalue)
  BY <1>1
<1> QED BY <1>2, <1>3 DEF FilteredOut, Sought, Passes

LEMMA SoughtSame ==
  ASSUME UNCHANGED <<user, mtime>>
  PROVE  Sought' = Sought
BY DEF Sought, Passes, uvalue, mvalue

\* For any user but 0 they are those the options ask for.
LEMMA PassesIs ==
  ASSUME UserHeeded
  PROVE  \A n : Passes(n) <=> Wanted(n)
BY DEF UserHeeded, Passes, Wanted, uvalue

LEMMA InitFind ==
  ASSUME FindInit
  PROVE  FindInv
<1>1. listing = <<>> /\ Len(listing) = 0 /\ listing \in Seq(Nodes)
  BY DEF FindInit
<1> QED BY <1>1 DEF FindInit, FindInv, DirsFirst

\* The walk ends where something failed, or where a call has returned 0.
LEMMA GiveUp ==
  ASSUME FindInv, UNCHANGED <<user, mtime, listing>>, walk' = "ended", failed' \/ fell'
  PROVE  FindInv'
<1>1. Sought' = Sought
  BY SoughtSame
<1> QED BY <1>1 DEF FindInv

LEMMA StartStep ==
  ASSUME FindInv, StartWalk
  PROVE  FindInv'
<1> DEFINE f == Frame(Top, TRUE)
<1>1. Sought' = Sought
  BY SoughtSame DEF StartWalk
<1>2. Listed = {} /\ Listed' = {} /\ listing' = listing
  BY DEF FindInv, StartWalk, Listed
<1>3. f \in Calls /\ f.dir = Top /\ f.isroot = TRUE /\ f.left = Entries(Top)
  BY DEF Frame, Calls, Entries, Nodes
<1>4. stack' = <<f>> /\ walk' = "walking" /\ BadArg \notin {user', mtime'}
  BY DEF StartWalk
<1> HIDE DEF f
<1>5. stack' \in Seq(Calls) /\ Len(stack') = 1 /\ stack'[1] = f
  BY <1>3, <1>4
<1>6. Descent(stack', {})
  BY <1>3, <1>5 DEF Descent
<1>7. Unlisted(stack', {})
  BY DEF Unlisted
<1>8. ToCome(stack', {}, Sought)
  <2>1. "." \in f.left /\ \A n \in Below : Parent[n] = Top => n \in f.left
    BY <1>3 DEF Entries
  <2> QED BY <1>5, <2>1 DEF ToCome, ComesAfter
<1> QED BY <1>1, <1>2, <1>4, <1>6, <1>7, <1>8 DEF FindInv, StartWalk

LEMMA EntryStep ==
  ASSUME FindInv, Entry
  PROVE  FindInv'
<1>1. /\ Sought' = Sought /\ UNCHANGED <<user, mtime, walk, failed, fell>> /\ walk = "walking"
  BY SoughtSame DEF Entry
<1>2. /\ Descent(stack, Listed) /\ Unlisted(stack, Listed) /\ ToCome(stack, Listed, Sought)
      /\ BadArg \notin {user, mtime} /\ mtime \in Times /\ listing \in Seq(Nodes)
      /\ DirsFirst(listing, Sought) /\ Rooted(Listed)
  BY <1>1, ListedRooted DEF FindInv
<1>3. PICK e \in here.left :
          IF Skipped(e) \/ FilteredOut(Named(e))
          THEN stack' = Without(stack, e) /\ UNCHANGED listing
          ELSE /\ listing' = Append(listing, Named(e))
               /\ stack' = IF isdir(e) THEN Append(Without(stack, e), Frame(Named(e), Named(e) = here.dir))
                                       ELSE Without(stack, e)
  BY DEF Entry, Without
<1> DEFINE n == Len(stack)
<1>4. n \in Nat \ {0} /\ n \in 1..n /\ here = stack[n]
  BY <1>2 DEF Descent, here, Last
<1>5. /\ e \in Entries(stack[n].dir) /\ stack[n].dir \in Nodes
      /\ stack[n].isroot <=> n = 1
  <2>1. stack[n] \in Calls /\ e \in stack[n].left
    BY <1>2, <1>3, <1>4, LenProperties DEF Descent
  <2>2. stack[n].dir \in Nodes
    BY <2>1 DEF Calls
  <2>3. stack[n].left \subseteq Entries(stack[n].dir) /\ (stack[n].isroot <=> n = 1)
    BY <1>2, <1>4 DEF Descent
  <2> QED BY <2>1, <2>2, <2>3
<1>6. SUFFICES /\ listing' \in Seq(Nodes) /\ DirsFirst(listing', Sought)
               /\ Descent(stack', Listed') /\ Unlisted(stack', Listed') /\ ToCome(stack', Listed', Sought)
  BY <1>1, <1>2 DEF FindInv
<1>7. CASE Skipped(e) \/ FilteredOut(Named(e))
  <2>1. stack' = Without(stack, e) /\ listing' = listing /\ Listed' = Listed
    BY <1>3, <1>7 DEF Listed
  <2>2. e \notin Below \cap Sought
    <3> SUFFICES ASSUME e \in Below PROVE e \notin Sought
      OBVIOUS
    <3>1. e \notin {".", ".."} /\ e \in Nodes
      BY NoLoop
    <3>2. FilteredOut(e)
      BY <1>7, <3>1 DEF Skipped, Named
    <3> QED BY <1>2, <3>1, <3>2, FilterIs
  <2>3. ASSUME e = ".", n = 1 PROVE Top \notin Sought
    <3>1. FilteredOut(Top)
      BY <1>2, <1>4, <1>5, <1>7, <2>3 DEF Skipped, Named, Descent
    <3> QED BY <1>2, <3>1, FilterIs DEF Nodes
  <2> QED BY <1>2, <1>3, <1>4, <2>1, <2>2, <2>3, PassOver
<1>8. CASE ~(Skipped(e) \/ FilteredOut(Named(e))) /\ e = "."
  <2>1. n = 1 /\ Named(e) = Top /\ ~isdir(e)
    BY <1>2, <1>4, <1>5, <1>8 DEF Skipped, Named, isdir, Descent
  <2>2. listing' = Append(listing, Top) /\ stack' = Without(stack, ".")
    BY <1>3, <1>8, <2>1
  <2>3. Top \in Sought
    BY <1>2, <1>8, <2>1, FilterIs DEF Nodes
  <2>4. /\ Descent(stack', Listed \cup {Top}) /\ Unlisted(stack', Listed \cup {Top})
        /\ ToCome(stack', Listed \cup {Top}, Sought) /\ Top \notin Listed
    BY <1>2, <1>3, <1>4, <1>8, <2>1, <2>2, ListTop
  <2>5. /\ listing' \in Seq(Nodes) /\ DirsFirst(listing', Sought)
        /\ Listed' = Listed \cup {Top}
    <3>1. Top \in Nodes /\ Top \notin Below /\ \A i \in 1..Len(listing) : listing[i] # Top
      BY <2>4, TreeAssumption DEF Nodes, Listed
    <3> QED BY <1>2, <2>2, <2>3, <3>1, ListOne DEF Listed
  <2> QED BY <2>4, <2>5
<1>9. CASE ~(Skipped(e) \/ FilteredOut(Named(e))) /\ e # "."
  <2>1. e \in Below /\ e \in Nodes /\ Named(e) = e
    BY <1>5, <1>9 DEF Entries, Skipped, Named, Nodes
  <2>2. e \in Sought
    BY <1>2, <1>9, <2>1, FilterIs
  <2>3. e \in stack[n].left \cap Below
    BY <1>3, <1>4, <2>1
  <2>4. e \notin Listed /\ Parent[e] = stack[n].dir /\ (Parent[e] # Top => Parent[e] \in Listed)
    BY <1>2, <2>3, EntryIs
  <2>5. Frame(Named(e), Named(e) = here.dir) = Frame(e, FALSE)
    <3>1. e # stack[n].dir
      BY <2>1, <2>4, NoLoop
    <3> QED BY <1>4, <2>1, <3>1 DEF Frame
  <2>6. /\ listing' = Append(listing, e)
        /\ stack' = IF Kind[e] = "dir" THEN Append(Without(stack, e), Frame(e, FALSE)) ELSE Without(stack, e)
    BY <1>3, <1>9, <2>1, <2>5 DEF isdir
  <2>7. /\ Descent(stack', Listed \cup {e}) /\ Unlisted(stack', Listed \cup {e})
        /\ ToCome(stack', Listed \cup {e}, Sought)
    <3>1. CASE Kind[e] = "dir"
      BY <1>2, <2>3, <2>6, <3>1, ListDirectory
    <3>2. CASE Kind[e] # "dir"
      BY <1>2, <2>3, <2>6, <3>2, ListFile
    <3> QED BY <3>1, <3>2
  <2>8. /\ listing' \in Seq(Nodes) /\ DirsFirst(listing', Sought)
        /\ Listed' = Listed \cup {e}
    <3>1. /\ \A i \in 1..Len(listing) : listing[i] # e
          /\ Parent[e] # Top => \E i \in 1..Len(listing) : listing[i] = Parent[e]
      BY <2>4 DEF Listed
    <3> QED BY <1>2, <2>1, <2>2, <2>6, <3>1, ListOne DEF Listed
  <2> QED BY <2>7, <2>8
<1> QED BY <1>7, <1>8, <1>9

LEMMA FallStep ==
  ASSUME FindInv, FallsOff
  PROVE  FindInv'
<1>1. /\ Sought' = Sought /\ UNCHANGED <<user, mtime, listing, failed>> /\ walk = "walking" /\ Listed' = Listed
  BY SoughtSame DEF FallsOff, Listed
<1>2. /\ Descent(stack, Listed) /\ Unlisted(stack, Listed) /\ ToCome(stack, Listed, Sought)
      /\ BadArg \notin {user, mtime} /\ mtime \in Times /\ listing \in Seq(Nodes)
      /\ DirsFirst(listing, Sought)
  BY <1>1 DEF FindInv
<1> DEFINE n == Len(stack)
<1>3. n \in Nat \ {0} /\ here = stack[n] /\ stack[n].left = {}
  BY <1>2 DEF Descent, here, Last, FallsOff
<1>4. CASE n = 1 /\ ReturnZero /\ UNCHANGED fell
  <2>1. AllListed(Listed, Sought)
    BY <1>2, <1>3, <1>4 DEF ToCome, ComesAfter, AllListed
  <2> QED BY <1>1, <1>2, <1>4, <2>1 DEF FindInv, ReturnZero
<1>5. CASE n > 1 /\ stack' = Front(stack) /\ UNCHANGED <<walk, fell>>
  <2> DEFINE t == Front(stack)
  <2>1. stack \in Seq(Calls)
    BY <1>2 DEF Descent
  <2>2. /\ t \in Seq(Calls) /\ Len(t) = n - 1
        /\ \A k \in 1..(n - 1) : t[k] = stack[k]
    <3>1. n - 1 \in 1..n /\ 1 \in 1..n /\ \A k \in 1..n : stack[k] \in Calls
      BY <1>3, <1>5, <2>1, LenProperties
    <3> QED BY <1>3, <1>5, <2>1, <3>1, SubSeqProperties DEF Front
  <2> HIDE DEF t
  <2>3. n - 1 \in Nat \ {0} /\ 1 \in 1..(n - 1) /\ 1..n = (1..(n - 1)) \cup {n}
    BY <1>3, <1>5
  <2> HIDE DEF n
  <2>4. Descent(t, Listed)
    <3>1. \A k \in 1..(n - 1) : k \in 1..n
      BY <2>3
    <3> QED BY <1>2, <2>2, <2>3, <3>1 DEF Descent, n
  <2>5. Unlisted(t, Listed)
    BY <1>2, <2>2, <2>3 DEF Unlisted, n
  <2>6. ToCome(t, Listed, Sought)
    BY <1>2, <1>3, <2>2, <2>3 DEF ToCome, ComesAfter, n
  <2> QED BY <1>1, <1>2, <1>5, <2>4, <2>5, <2>6 DEF FindInv, t
<1>6. CASE ReturnZero /\ fell' = TRUE
  BY <1>1, <1>6, GiveUp DEF ReturnZero
<1> QED BY <1>4, <1>5, <1>6 DEF FallsOff

LEMMA FindInvStep == FindInv /\ [FindNext]_findVars => FindInv'
<1> SUFFICES ASSUME FindInv, [FindNext]_findVars PROVE FindInv'
  OBVIOUS
<1>1. CASE BadOption
  BY <1>1, GiveUp DEF BadOption, ReturnZero
<1>2. CASE StartWalk
  BY <1>2, StartStep
<1>3. CASE CallFails
  BY <1>3, GiveUp DEF CallFails, ReturnZero
<1>4. CASE Entry
  BY <1>4, EntryStep
<1>5. CASE NoName
  BY <1>5, GiveUp DEF NoName, ReturnZero
<1>6. CASE FallsOff
  BY <1>6, FallStep
<1>7. CASE UNCHANGED findVars
  <2>1. Sought' = Sought
    BY <1>7, SoughtSame DEF findVars
  <2> QED BY <1>7, <2>1 DEF findVars, FindInv, Listed
<1> QED BY <1>1, <1>2, <1>3, <1>4, <1>5, <1>6, <1>7 DEF FindNext

LEMMA FindInvRight == FindInv => ListingRight
<1> SUFFICES ASSUME FindInv PROVE ListingRight
  OBVIOUS
<1>1. /\ listing \in Seq(Nodes) /\ DirsFirst(listing, Sought) /\ Len(listing) \in Nat
      /\ DOMAIN listing = 1..Len(listing) /\ \A i \in 1..Len(listing) : listing[i] \in Nodes
  BY LenProperties DEF FindInv
<1>2. ListedRight
  <2> SUFFICES ASSUME NEW i \in 1..Len(listing)
               PROVE  /\ UserHeeded => Wanted(listing[i])
                      /\ \A k \in 1..(i - 1) : listing[k] # listing[i]
                      /\ \A d \in Between(listing[i]) : \E k \in 1..(i - 1) : listing[k] = d
    BY DEF ListedRight
  <2>1. UserHeeded => Wanted(listing[i])
    BY <1>1, PassesIs DEF DirsFirst, Sought
  <2>2. \A k \in 1..(i - 1) : listing[k] # listing[i]
    BY <1>1 DEF DirsFirst
  <2>3. \A d \in Between(listing[i]) : \E k \in 1..(i - 1) : listing[k] = d
    BY <1>1, BetweenFirst
  <2> QED BY <2>1, <2>2, <2>3
<1>3. WalkComplete
  <2> DEFINE All == {n \in Nodes : Wanted(n) /\ \A d \in Between(n) : Wanted(d)}
  <2> SUFFICES ASSUME walk = "ended", ~failed, ~fell, UserHeeded PROVE ToSet(listing) = All
    BY DEF WalkComplete
  <2>0. Sought = {n \in Nodes : Wanted(n)}
    BY PassesIs DEF Sought
  <2>1. AllListed(Listed, Sought)
    BY DEF FindInv
  <2>2. ToSet(listing) = Listed
    BY <1>1 DEF ToSet, Listed
  <2>3. ASSUME NEW n \in Listed PROVE n \in All
    <3>1. PICK i \in 1..Len(listing) : n = listing[i]
      BY DEF Listed
    <3>2. Wanted(n) /\ n \in Nodes
      BY <1>1, <2>0, <3>1 DEF DirsFirst
    <3>3. ASSUME NEW d \in Between(n) PROVE Wanted(d)
      <4>1. PICK k \in 1..(i - 1) : listing[k] = d
        BY <1>1, <3>1, BetweenFirst
      <4>2. k \in 1..Len(listing)
        BY <1>1
      <4> QED BY <1>1, <2>0, <4>1, <4>2 DEF DirsFirst
    <3> QED BY <3>2, <3>3
  <2>4. ASSUME NEW n \in All PROVE n \in Listed
    <3>1. CASE n = Top
      BY <2>0, <2>1, <3>1 DEF AllListed
    <3>2. CASE n \in Below
      <4> DEFINE LeftOut == {m \in Below : m \in All /\ m \notin Listed}
      <4>1. SUFFICES LeftOut = {}
        BY <3>2
      <4>2. ASSUME NEW m \in LeftOut PROVE Parent[m] \in LeftOut
        <5>1. m \in (Below \cap Sought) \ Listed
          BY <2>0 DEF Nodes
        <5>2. Parent[m] # Top /\ Parent[m] \notin Listed
          BY <2>1, <5>1 DEF AllListed
        <5>3. Parent[m] \in Below /\ Parent[m] \in Between(m) /\ Between(Parent[m]) \subseteq Between(m)
          BY <5>2, BetweenUp, BetweenFurther
        <5>4. Parent[m] \in All
          BY <5>3 DEF Nodes
        <5> QED BY <5>2, <5>3, <5>4
      <4> HIDE DEF LeftOut
      <4>3. LeftOut \in SUBSET Below
        BY DEF LeftOut
      <4> QED BY <4>2, <4>3, TreeAssumption
    <3> QED BY <3>1, <3>2 DEF Nodes
  <2> QED BY <2>2, <2>3, <2>4
<1> QED BY <1>2, <1>3 DEF ListingRight

\* For any tree and any arguments the walk lists each node once and after the
\* directories that lead to it; for any user but 0, which the program takes for
\* none, it lists only what the options ask for, and all of it unless something
\* failed or a call came back with 0 (myfind.c:105-138, 251-262).
THEOREM FindLists == FindSpec => []ListingRight
<1>1. FindInit => FindInv
  BY InitFind
<1>2. FindInv /\ [FindNext]_findVars => FindInv'
  BY FindInvStep
<1>3. FindInv => ListingRight
  BY FindInvRight
<1> QED BY <1>1, <1>2, <1>3, PTL DEF FindSpec
==============================================================================
