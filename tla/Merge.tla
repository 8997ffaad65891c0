-------------------------------- MODULE Merge --------------------------------
(***************************************************************************)
(* Data Structures and Algorithms/Merge/merge.cpp: whether merge can be    *)
(* had by interleaving a and b, by a table of which prefixes of a and b    *)
(* make a prefix of merge, and the interleaving found by tracing it back.  *)
(***************************************************************************)
EXTENDS Integers, Sequences, FiniteSets, SequencesExt

CONSTANTS MergeInputs,  \* triples a, b, merge of sequences of letters
          Nul           \* the character after the last of a string

ASSUME MergeAssumption == \A t \in MergeInputs : \A k \in 1..3 : t[k] \in Seq(ToSet(t[k]) \ {Nul})

VARIABLES wordA, wordB, merge,  \* the three lines
          ai, bj,         \* the indices of the loops
          Matrix,       \* the table, of (|a|+1) x (|b|+1) entries
          phase,        \* "fill", "trace", or what is printed
          oss,          \* what the trace has written: letter, and whether capital
          beyond        \* history: an entry outside the table has been written

mergeVars == <<wordA, wordB, merge, ai, bj, Matrix, phase, oss, beyond>>

Chr(s, k) == IF k < Len(s) THEN s[k + 1] ELSE Nul

MergeIdle == /\ wordA = <<>> /\ wordB = <<>> /\ merge = <<>> /\ ai = 0 /\ bj = 0
             /\ Matrix = <<>> /\ phase = "idle" /\ oss = <<>> /\ beyond = FALSE

MergeInit == /\ \E t \in MergeInputs : wordA = t[1] /\ wordB = t[2] /\ merge = t[3]
             /\ ai = 0 /\ bj = 0
             /\ Matrix = [p \in (0..Len(wordA)) \X (0..Len(wordB)) |-> p = <<0, 0>>]
             /\ phase = "fill" /\ oss = <<>> /\ beyond = FALSE

\* Fault: merge is compared at the place of a alone.
ByAMisplaced == IF ai < Len(wordA) /\ Chr(wordA, ai) = Chr(merge, ai) THEN {<<ai + 1, bj>>} ELSE {}

\* Fault: the last column is not taken care of.
ByAUnchecked == IF Chr(wordA, ai) = Chr(merge, ai + bj) THEN {<<ai + 1, bj>>} ELSE {}

\* The entries that the one at (i, j) makes true.
ByA == IF ai < Len(wordA) /\ Chr(wordA, ai) = Chr(merge, ai + bj) THEN {<<ai + 1, bj>>} ELSE {}
ByB == IF (bj < Len(wordB) \/ ai = Len(wordA)) /\ Chr(wordB, bj) = Chr(merge, ai + bj) THEN {<<ai, bj + 1>>} ELSE {}

\* One turn of the two loops.  In the last corner both strings are at their
\* end, and if merge is as well the entry after the last of the table is set.
FillEntry ==
    /\ phase = "fill"
    /\ LET set == IF Matrix[<<ai, bj>>] THEN ByA \cup ByB ELSE {} IN
          /\ Matrix' = [p \in DOMAIN Matrix |-> p \in set \/ Matrix[p]]
          /\ beyond' = (beyond \/ ~(set \subseteq DOMAIN Matrix))
    /\ \/ ai < Len(wordA) /\ ai' = ai + 1 /\ UNCHANGED <<bj, phase>>
       \/ ai = Len(wordA) /\ bj < Len(wordB) /\ ai' = 0 /\ bj' = bj + 1 /\ UNCHANGED phase
       \/ ai = Len(wordA) /\ bj = Len(wordB) /\ UNCHANGED <<ai, bj>> /\ phase' = "decide"
    /\ UNCHANGED <<wordA, wordB, merge, oss>>

\* Fault: the last entry is not looked at.
DecideAlways == /\ phase = "decide"
                /\ phase' = "trace"
                /\ UNCHANGED <<wordA, wordB, merge, ai, bj, Matrix, oss, beyond>>

\* *** NOT A MERGE ***, or the loop that follows the table back
Decide == /\ phase = "decide"
          /\ phase' = IF Matrix[<<Len(wordA), Len(wordB)>>] THEN "trace" ELSE "not a merge"
          /\ UNCHANGED <<wordA, wordB, merge, ai, bj, Matrix, oss, beyond>>

TraceB == /\ phase = "trace" /\ bj > 0 /\ Matrix[<<ai, bj - 1>>]
          /\ oss' = Append(oss, <<Chr(wordB, bj - 1), "small">>)
          /\ bj' = bj - 1
          /\ UNCHANGED <<wordA, wordB, merge, ai, Matrix, phase, beyond>>

TraceA == /\ phase = "trace" /\ ~(bj > 0 /\ Matrix[<<ai, bj - 1>>])
          /\ ai > 0 /\ Matrix[<<ai - 1, bj>>]
          /\ oss' = Append(oss, <<Chr(wordA, ai - 1), "capital">>)
          /\ ai' = ai - 1
          /\ UNCHANGED <<wordA, wordB, merge, bj, Matrix, phase, beyond>>

\* The reverse of what was written is printed.
EndTrace == /\ phase = "trace" /\ ai = 0 /\ bj = 0
            /\ phase' = "printed"
            /\ UNCHANGED <<wordA, wordB, merge, ai, bj, Matrix, oss, beyond>>

MergeNext == FillEntry \/ Decide \/ TraceB \/ TraceA \/ EndTrace

MergeSpec == MergeInit /\ [][MergeNext]_mergeVars /\ WF_mergeVars(MergeNext)

------------------------------------------------------------------------------
\* The letters of merge at the positions P are the first n of s, in order.
Stands(s, n, P) == /\ Cardinality(P) = n
                   /\ \A p \in P : merge[p] = s[Cardinality({q \in P : q <= p})]

\* The ways to take the first i letters of a and j of b from the beginning of
\* merge: the positions of those of a.
WaysTo(i, j) == {P \in SUBSET (1..i + j) : /\ i + j <= Len(merge)
                                           /\ Stands(wordA, i, P) /\ Stands(wordB, j, (1..i + j) \ P)}
Ways == WaysTo(Len(wordA), Len(wordB))

\* The printed letters of a stand at these positions.
Capitals == {k \in 1..Len(oss) : Reverse(oss)[k][2] = "capital"}

\* The answer is no exactly if no interleaving gives the beginning of merge
\* (the length of merge is never looked at); what is printed is one, and the
\* one in which the letters of a come as early as possible (Merge.pdf).
AnswerRight ==
    /\ phase = "not a merge" => Ways = {}
    /\ phase = "printed" =>
          /\ Capitals \in Ways
          /\ [k \in 1..Len(oss) |-> Reverse(oss)[k][1]] = SubSeq(merge, 1, Len(oss))
          /\ \A W \in Ways \ {Capitals} :
                \E p \in Capitals \ W : \A q \in W \ Capitals : p < q

\* The trace never gets stuck ("please help me!"): every line is answered
\* (merge.cpp:107-122).
TraceEnds == <>(phase \in {"idle", "printed", "not a merge"})

\* The program writes outside the table if and only if it is given a merge
\* that is complete: then a, b and merge all end in its last corner
\* (merge.cpp:69-73).
TableLeft == phase \notin {"idle", "fill"} =>
                 (beyond <=> Len(merge) = Len(wordA) + Len(wordB) /\ Ways # {})

\* The answers are right, and it is known when they are got by writing outside
\* the table.
MergeRight == AnswerRight /\ TableLeft
==============================================================================
