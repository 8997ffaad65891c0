-------------------------------- MODULE Shell --------------------------------
(***************************************************************************)
(* Operating Systems/Project3-Shell/mysh.c: every line of a script is a    *)
(* command that is run in a child of its own, with redirections.  A token  *)
(* is an operator and a name; the operator of a word is "", that of a word *)
(* whose first character is a 2 is "2".                                    *)
(***************************************************************************)
EXTENDS Integers, Sequences, FiniteSets, SequencesExt

CONSTANTS Scripts,      \* the inputs: sequences of lines, of tokens or Comment
          Comment,      \* a line that starts with #
          Garbage,      \* what progargv may hold before it is written
          NullPtr, Junk,   \* a null pointer, and one to nowhere
          CutName,      \* per file name: up to its first <, > or 2
          Commands,     \* the words that exec finds
          Openable,     \* the files that can be opened, for reading or writing
          MaxArgs       \* the size of progargv; more words than that are not modelled

ASSUME ShellAssumption ==
    /\ MaxArgs \in Nat \ {0}
    /\ Garbage \subseteq {NullPtr, Junk} /\ Garbage # {}
    /\ NullPtr # Junk /\ {NullPtr, Junk} \cap (Nat \X Nat) = {}
    /\ \A s \in Scripts :
          /\ s \in Seq(ToSet(s))
          /\ s # <<>> => s[1] # <<>>
          /\ \A l \in DOMAIN s : /\ s[l] \in Seq(ToSet(s[l]))
                                 /\ Cardinality({k \in DOMAIN s[l] : s[l][k].op = ""}) <= MaxArgs

VARIABLES script,     \* the lines
          isfile,     \* script of main: it comes from a file of its own
          tty,        \* stdout is a terminal, so stdio writes line by line
          shell,      \* the statement of the shell
          lineno,     \* the line it is at
          progargv,   \* per place a pointer: <<lineno, place>> of a word, or
                      \* <<lineno, 0>> of a redirection
          redirs,     \* the redirections of the line
          pending,    \* announcements stdio has not written yet
          out,        \* announcements on the standard output
          child,      \* the statement of the child
          redir,      \* the redirection it is at
          cfds,       \* its descriptors: what each stands for
          cargs       \* the arguments exec passed

lineVars  == <<script, isfile, tty, lineno, progargv, redirs>>
shellVars == <<lineVars, shell, pending, out, child, redir, cfds, cargs>>

ShellRest == /\ lineno = 1 /\ redirs = <<>> /\ pending = <<>> /\ out = <<>>
             /\ child = "none" /\ redir = 1 /\ cfds = <<>> /\ cargs = <<>>

ShellIdle == /\ script = <<>> /\ isfile = FALSE /\ tty = FALSE /\ shell = "ended"
             /\ progargv = [i \in 1..MaxArgs |-> NullPtr]
             /\ ShellRest

\* progargv is not initialized: it holds what the stack held.
ShellInit == /\ script \in Scripts /\ isfile \in BOOLEAN /\ tty \in BOOLEAN /\ shell = "read"
             /\ \E g \in Garbage, n \in 1..MaxArgs :
                   progargv = [i \in 1..MaxArgs |-> IF i > n THEN g ELSE NullPtr]
             /\ ShellRest

IsRedir(t) == t.op # ""

\* The elements of s at the places P, in their order.
Selected(s, P) == [i \in 1..Cardinality(P) |->
                      s[CHOOSE p \in P : Cardinality({q \in P : q <= p}) = i]]
Words(l)  == Selected(script[l], {k \in DOMAIN script[l] : ~IsRedir(script[l][k])})
Redirs(l) == Selected(script[l], {k \in DOMAIN script[l] : IsRedir(script[l][k])})

\* exit and the return of main write what stdio holds.
Flush == out' = out \o pending

------------------------------------------------------------------------------
\* The shell.

ReadComment == /\ shell = "read" /\ lineno <= Len(script) /\ script[lineno] = Comment
               /\ lineno' = lineno + 1
               /\ UNCHANGED <<script, isfile, tty, progargv, redirs, shell, pending, out,
                              child, redir, cfds, cargs>>

\* Fault: the last word of a line is not stored.
ReadCommandShort ==
    /\ shell = "read" /\ lineno <= Len(script) /\ script[lineno] # Comment
    /\ redirs' = Redirs(lineno)
    /\ progargv' = [i \in 1..MaxArgs |-> IF i < Len(Words(lineno)) THEN <<lineno, i>> ELSE progargv[i]]
    /\ IF tty THEN out' = Append(out, lineno) /\ UNCHANGED pending
              ELSE pending' = Append(pending, lineno) /\ UNCHANGED out
    /\ shell' = "fork"
    /\ UNCHANGED <<script, isfile, tty, lineno, child, redir, cfds, cargs>>

\* The tokens of a line go to progargv, without a null pointer after them, and
\* to redirs, whose third and later places are the first of progargv, where a
\* word may be written later.  Then the command is announced.
ReadCommand ==
    /\ shell = "read" /\ lineno <= Len(script) /\ script[lineno] # Comment
    /\ redirs' = Redirs(lineno)
    /\ \E over \in SUBSET {i \in 1..MaxArgs : i + 2 <= Len(Redirs(lineno))} :
          progargv' = [i \in 1..MaxArgs |->
                          CASE i \in over -> <<lineno, 0>>
                            [] i \notin over /\ i <= Len(Words(lineno)) -> <<lineno, i>>
                            [] OTHER -> progargv[i]]
    /\ IF tty THEN out' = Append(out, lineno) /\ UNCHANGED pending
              ELSE pending' = Append(pending, lineno) /\ UNCHANGED out
    /\ shell' = "fork"
    /\ UNCHANGED <<script, isfile, tty, lineno, child, redir, cfds, cargs>>

\* Fault: the shell ends without the buffers of stdio.
EndUnflushed == /\ shell = "read" /\ lineno > Len(script)
                /\ shell' = "ended" /\ pending' = <<>>
                /\ UNCHANGED <<lineVars, out, child, redir, cfds, cargs>>

EndOfScript == /\ shell = "read" /\ lineno > Len(script)
               /\ shell' = "ended" /\ Flush /\ pending' = <<>>
               /\ UNCHANGED <<lineVars, child, redir, cfds, cargs>>

\* The child inherits the three descriptors and the one of the script.
ForkChild == /\ shell = "fork"
             /\ shell' = "wait"
             /\ child' = "redirect" /\ redir' = 1 /\ cargs' = <<>>
             /\ cfds' = [d \in 0..(IF isfile THEN 3 ELSE 2) |-> <<"inherited", d>>]
             /\ UNCHANGED <<lineVars, pending, out>>

\* "fork failed" and exit(1)
ForkFails == /\ shell = "fork"
             /\ shell' = "ended" /\ Flush /\ pending' = <<>>
             /\ UNCHANGED <<lineVars, child, redir, cfds, cargs>>

\* Fault: the shell does not wait.
Wait3Not == /\ shell = "wait"
            /\ shell' = "read" /\ lineno' = lineno + 1
            /\ UNCHANGED <<script, isfile, tty, progargv, redirs, pending, out, child, redir, cfds, cargs>>

Wait3 == /\ shell = "wait" /\ child = "zombie"
         /\ child' = "none"
         /\ shell' = "read" /\ lineno' = lineno + 1
         /\ UNCHANGED <<script, isfile, tty, progargv, redirs, pending, out, redir, cfds, cargs>>

------------------------------------------------------------------------------
\* The child.

\* It ends in exit or main, and so writes its copy of what the shell's stdio
\* held at fork, unless its output went to a file.
ChildExits == /\ child' = "zombie"
              /\ IF cfds[1] = <<"inherited", 1>> THEN Flush ELSE UNCHANGED out

TooMany == /\ child = "redirect" /\ Len(redirs) > 2
           /\ ChildExits
           /\ UNCHANGED <<lineVars, shell, pending, redir, cfds, cargs>>

\* Fault: >> truncates.
FlagsTruncate(t) == CASE t.op = "<" -> "read"
                      [] t.op \in {"2>", "2>>"} -> "append"
                      [] OTHER -> "truncate"

\* makeredirs: the descriptor and the flags of open
Target(t) == CASE t.op = "<" -> 0 [] t.op \in {">", ">>"} -> 1 [] OTHER -> 2
Flags(t)  == CASE t.op = "<" -> "read"
               [] t.op \in {">>", "2>", "2>>"} -> "append"
               [] OTHER -> "truncate"

\* open, dup2 and close of the descriptor open returned; when open fails the
\* redirections that are left are not made, and the command is run anyway.
MakeRedir == /\ child = "redirect" /\ Len(redirs) <= 2 /\ redir <= Len(redirs)
             /\ LET t == redirs[redir]
                    f == CutName[t.name] IN
                IF f \in Openable
                THEN /\ cfds' = [cfds EXCEPT ![Target(t)] = <<f, Flags(t)>>]
                     /\ redir' = redir + 1
                     /\ UNCHANGED child
                ELSE child' = "exec" /\ UNCHANGED <<redir, cfds>>
             /\ UNCHANGED <<lineVars, shell, pending, out, cargs>>

RedirsMade == /\ child = "redirect" /\ Len(redirs) <= 2 /\ redir > Len(redirs)
              /\ child' = "exec"
              /\ UNCHANGED <<lineVars, shell, pending, out, redir, cfds, cargs>>

\* What exec takes for the arguments: up to the first null pointer, at worst
\* past the end of progargv.
ArgCount == CHOOSE n \in 0..MaxArgs : /\ \A i \in 1..n : progargv[i] # NullPtr
                                      /\ n < MaxArgs => progargv[n + 1] = NullPtr
Argv  == [i \in 1..ArgCount |-> progargv[i]]

\* A pointer of an earlier line points to whatever the buffer holds now.
Stale(p) == p # NullPtr /\ p # Junk /\ p[1] # lineno

ExecFinds == \/ Stale(progargv[1])
             \/ progargv[1] = <<lineno, 1>> /\ Words(lineno)[1].name \in Commands

\* fclose of the script and a successful execvp; what stdio held is lost.
Exec == /\ child = "exec" /\ ExecFinds /\ \A i \in DOMAIN Argv : Argv[i] # Junk
        /\ child' = "running"
        /\ cargs' = Argv
        /\ cfds' = [d \in DOMAIN cfds \ {3} |-> cfds[d]]
        /\ UNCHANGED <<lineVars, shell, pending, out, redir>>

\* "exec failed" and exit(1)
ExecFails == /\ child = "exec"
             /\ \/ ~ExecFinds \/ Stale(progargv[1])
                \/ \E i \in DOMAIN Argv : Argv[i] = Junk
             /\ ChildExits
             /\ UNCHANGED <<lineVars, shell, pending, redir, cfds, cargs>>

CommandEnds == /\ child = "running"
               /\ child' = "zombie"
               /\ UNCHANGED <<lineVars, shell, pending, out, redir, cfds, cargs>>

ShellNext == \/ ReadComment \/ ReadCommand \/ EndOfScript \/ ForkChild \/ ForkFails \/ Wait3
             \/ TooMany \/ MakeRedir \/ RedirsMade \/ Exec \/ ExecFails \/ CommandEnds

ShellSpec == ShellInit /\ [][ShellNext]_shellVars

------------------------------------------------------------------------------
\* Commands never overlap: while the shell reads, announces or forks there is
\* no child, running or not reaped (mysh.c:131-135).
OneCommand == shell # "wait" => child = "none"

\* The redirections as asked for: the descriptor and how the file is opened.
\* (The code opens 2>file to append, and takes a word that begins with 2 for a
\* redirection.)
Asked(t) == CASE t.op = "<"   -> <<0, t.name, "read">>
              [] t.op = ">"   -> <<1, t.name, "truncate">>
              [] t.op = ">>"  -> <<1, t.name, "append">>
              [] t.op = "2>>" -> <<2, t.name, "append">>

AsIntended(t) == t.op \in {"<", ">", ">>", "2>>"} /\ CutName[t.name] = t.name

\* A command runs with the descriptors 0, 1 and 2 and no other; each is that of
\* the last redirection of it in the line, of those before the first whose file
\* cannot be opened, or else the shell's own (mysh.c:165-248).
ChildDescriptors ==
    child = "running" =>
        LET made == {i \in 1..Len(redirs) : \A k \in 1..i : redirs[k].name \in Openable}
            last(d) == {i \in made : /\ Asked(redirs[i])[1] = d
                                    /\ \A k \in made : k > i => Asked(redirs[k])[1] # d} IN
        /\ DOMAIN cfds = 0..2
        /\ (\A i \in 1..Len(redirs) : AsIntended(redirs[i])) =>
              \A d \in 0..2 : /\ last(d) = {} => cfds[d] = <<"inherited", d>>
                              /\ \A i \in last(d) : cfds[d] = Tail(Asked(redirs[i]))

\* If the stack held null pointers and no earlier line wrote more of progargv,
\* a command gets exactly the words of its line (mysh.c:48-66, 126).
ArgsOfLine ==
    (/\ child = "running" /\ \A i \in 1..MaxArgs : progargv[i] # Junk
     /\ \A l \in 1..lineno : \/ script[l] = Comment
                             \/ /\ Len(Words(l)) <= Len(Words(lineno))
                                /\ Len(Redirs(l)) <= Len(Words(lineno)) + 2)
        => cargs = [i \in 1..Len(Words(lineno)) |-> <<lineno, i>>]

\* Each command is announced before it runs and once, on a terminal; elsewhere
\* all are when the script has ended, though a child that fails may write again
\* what the shell has not written yet (mysh.c:67-87, 126-129, 158-162).
Announced ==
    LET commands == {l \in 1..(lineno - 1) : script[l] # Comment} IN
    /\ tty => /\ \A i, k \in DOMAIN out : i < k => out[i] < out[k]
              /\ child # "none" => lineno \in ToSet(out)
    /\ (shell = "ended" \/ tty) => commands \subseteq ToSet(out)

\* A command runs alone, with the arguments and the descriptors that its line
\* asks for (mysh.c:41-157).
CommandRight == OneCommand /\ ArgsOfLine /\ ChildDescriptors
==============================================================================
