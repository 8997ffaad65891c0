------------------------------- MODULE Copycat -------------------------------
(***************************************************************************)
(* Operating Systems/Project1-SimpleCat/copycat.c: the input files, or the *)
(* standard input, copied to the standard output or a file, through reads  *)
(* and writes that may be partial.  A file or "-" is an input; byte k of   *)
(* input f is <<f, k>>.                                                    *)
(***************************************************************************)
EXTENDS Integers, Sequences, FiniteSets, SequencesExt

CONSTANTS CopyArgs,    \* the values of argv[optind..]: names of inputs
          Length,      \* per input, its bytes; it is absent if it cannot be opened
          Dash,        \* "-" and every other argument that begins with -
          CopyBufs     \* the arguments of -b

ASSUME CopyAssumption == /\ \A a \in CopyArgs : a \in Seq(ToSet(a))
                         /\ Dash \in DOMAIN Length
                         /\ \A f \in DOMAIN Length : Length[f] \in Nat
                         /\ CopyBufs \subseteq Nat

VARIABLES argv,        \* argv[optind..]
          bvalue,      \* the size of the buffer
          oflag,       \* -o was given
          copy,        \* the statement the program is at
          argn,        \* the argument it is at
          opened,      \* fdi # 0: some file has been opened
          fdin, fdout, \* the arguments of readwrite
          tail,        \* what is left of the source
          stdin,       \* what is left of the standard input
          wbuf,        \* what writeit has to write
          files,       \* what "stdout" and "outfile" have got
          lost         \* history: a read or a write has failed

copyVars == <<argv, bvalue, oflag, copy, argn, opened, fdin, fdout, tail, stdin, wbuf, files, lost>>

Bytes(f) == [k \in 1..Length[f] |-> <<f, k>>]
fdo == IF oflag THEN "outfile" ELSE "stdout"

CopyRest == /\ argn = 1 /\ opened = FALSE /\ fdin = Dash /\ fdout = "stdout"
            /\ tail = <<>> /\ stdin = Bytes(Dash) /\ wbuf = <<>>
            /\ files = [o \in {"stdout", "outfile"} |-> <<>>] /\ lost = FALSE

CopyIdle == /\ argv = <<>> /\ bvalue = 0 /\ oflag = FALSE /\ copy = "idle" /\ CopyRest

CopyInit == /\ argv \in CopyArgs /\ bvalue \in CopyBufs /\ oflag \in BOOLEAN
            /\ copy = "options" /\ CopyRest

\* getopt; the output file of -o may not open, which ends the program.
Options == /\ copy = "options"
           /\ copy' \in {"loop"} \cup (IF oflag THEN {"error"} ELSE {})
           /\ UNCHANGED <<argv, bvalue, oflag, argn, opened, fdin, fdout, tail, stdin, wbuf, files, lost>>

\* An argument "-" copies what is left of the standard input to the standard
\* output, whatever -o says.
NextDash == /\ copy = "loop" /\ argn <= Len(argv) /\ argv[argn] = Dash
            /\ fdin' = Dash /\ fdout' = "stdout" /\ tail' = stdin
            /\ copy' = "read"
            /\ UNCHANGED <<argv, bvalue, oflag, argn, opened, stdin, wbuf, files, lost>>

NextFile == /\ copy = "loop" /\ argn <= Len(argv) /\ argv[argn] \in DOMAIN Length \ {Dash}
            /\ fdin' = argv[argn] /\ fdout' = fdo /\ tail' = Bytes(argv[argn])
            /\ opened' = TRUE
            /\ copy' = "read"
            /\ UNCHANGED <<argv, bvalue, oflag, argn, stdin, wbuf, files, lost>>

\* A file that cannot be opened ends the program.
NextMissing == /\ copy = "loop" /\ argn <= Len(argv) /\ argv[argn] \notin DOMAIN Length
               /\ copy' = "error"
               /\ UNCHANGED <<argv, bvalue, oflag, argn, opened, fdin, fdout, tail, stdin, wbuf, files, lost>>

\* After the arguments: the standard input, unless some file was opened.
LoopDone == /\ copy = "loop" /\ argn = Len(argv) + 1
            /\ IF opened
               THEN copy' = "ended" /\ UNCHANGED <<argn, fdin, fdout, tail>>
               ELSE /\ argn' = argn + 1
                    /\ fdin' = Dash /\ fdout' = fdo /\ tail' = stdin /\ copy' = "read"
            /\ UNCHANGED <<argv, bvalue, oflag, opened, stdin, wbuf, files, lost>>

\* readwrite returns: on to the next argument.
NextArg == IF argn > Len(argv) THEN copy' = "ended" /\ UNCHANGED argn
           ELSE copy' = "loop" /\ argn' = argn + 1

\* read of readwrite; with a buffer of 0 bytes it always returns 0.
CopyRead ==
    /\ copy = "read"
    /\ \E n \in 0..bvalue :
          /\ n <= Len(tail) /\ (n = 0 => tail = <<>> \/ bvalue = 0)
          /\ wbuf' = SubSeq(tail, 1, n)
          /\ tail' = SubSeq(tail, n + 1, Len(tail))
          /\ stdin' = IF fdin = Dash THEN tail' ELSE stdin
          /\ IF n > 0 THEN copy' = "write" /\ UNCHANGED argn ELSE NextArg
    /\ UNCHANGED <<argv, bvalue, oflag, opened, fdin, fdout, files, lost>>

\* read returns -1, as of a directory, and the copy goes on behind that input;
\* once a read of it has failed, so does every later one.
ReadError ==
    /\ copy = "read"
    /\ tail' = <<>> /\ lost' = TRUE
    /\ stdin' = IF fdin = Dash THEN <<>> ELSE stdin
    /\ NextArg
    /\ UNCHANGED <<argv, bvalue, oflag, opened, fdin, fdout, wbuf, files>>

\* Fault: what a write has left is forgotten.
CopyWriteOnce ==
    /\ copy = "write"
    /\ \E n \in 1..Len(wbuf) : files' = [files EXCEPT ![fdout] = @ \o SubSeq(wbuf, 1, n)]
    /\ wbuf' = <<>> /\ copy' = "read"
    /\ UNCHANGED <<argv, bvalue, oflag, argn, opened, fdin, fdout, tail, stdin, lost>>

\* Fault: the rest is taken from the beginning of the buffer.
CopyWriteSame ==
    /\ copy = "write"
    /\ \E n \in 1..Len(wbuf) :
          /\ files' = [files EXCEPT ![fdout] = @ \o SubSeq(wbuf, 1, n)]
          /\ wbuf' = SubSeq(wbuf, 1, Len(wbuf) - n)
          /\ copy' = IF n < Len(wbuf) THEN "write" ELSE "read"
    /\ UNCHANGED <<argv, bvalue, oflag, argn, opened, fdin, fdout, tail, stdin, lost>>

\* writeit calls itself for what a write has left.
CopyWrite ==
    /\ copy = "write"
    /\ \E n \in 1..Len(wbuf) :
          /\ files' = [files EXCEPT ![fdout] = @ \o SubSeq(wbuf, 1, n)]
          /\ wbuf' = SubSeq(wbuf, n + 1, Len(wbuf))
          /\ copy' = IF n < Len(wbuf) THEN "write" ELSE "read"
    /\ UNCHANGED <<argv, bvalue, oflag, argn, opened, fdin, fdout, tail, stdin, lost>>

\* A write that fails is reported, and the next read takes its place.
WriteFails == /\ copy = "write"
              /\ copy' = "read" /\ wbuf' = <<>> /\ lost' = TRUE
              /\ UNCHANGED <<argv, bvalue, oflag, argn, opened, fdin, fdout, tail, stdin, files>>

CopyNext == \/ Options \/ NextDash \/ NextFile \/ NextMissing \/ LoopDone
            \/ CopyRead \/ ReadError \/ CopyWrite \/ WriteFails

CopySpec == CopyInit /\ [][CopyNext]_copyVars

------------------------------------------------------------------------------
\* What should be on output o: the bytes of the arguments that go there, one
\* after the other, the standard input the first time it is asked for.
Goes(k) == IF argv[k] = Dash THEN "stdout" ELSE fdo
Part(k) == IF \/ argv[k] \notin DOMAIN Length
              \/ argv[k] = Dash /\ \E m \in 1..(k - 1) : argv[m] = Dash
           THEN <<>> ELSE Bytes(argv[k])
FromArgs(o) == FlattenSeq([k \in 1..Len(argv) |-> IF Goes(k) = o THEN Part(k) ELSE <<>>])
Expected(o) == IF ToSet(argv) \cap DOMAIN Length # {} THEN FromArgs(o)
               ELSE IF o = fdo THEN Bytes(Dash) ELSE <<>>

\* A run that comes to its end without a failing read or write has written
\* every byte of its inputs to the right place, once and in order, however
\* reads and writes cut them up (copycat.c:54-121).
CopyExact == (copy = "ended" /\ ~lost /\ bvalue > 0) =>
                 \A o \in {"stdout", "outfile"} : files[o] = Expected(o)

\* s is what is left of t at the places P.
Sparse(s, t) == \E P \in SUBSET (1..Len(t)) :
                   /\ Cardinality(P) = Len(s)
                   /\ \A p \in P : t[p] = s[Cardinality({q \in P : q <= p})]

\* Whatever fails, an output has the bytes it should have in their order, none
\* of them twice as often as it should be there: some are missing at most.
CopyOrdered == \A o \in {"stdout", "outfile"} : Sparse(files[o], Expected(o))

\* The outputs: complete if nothing fails, and in order whatever fails.
CopyRight == CopyExact /\ CopyOrdered
==============================================================================
