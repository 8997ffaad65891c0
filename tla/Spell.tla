--------------------------------- MODULE Spell ---------------------------------
(***************************************************************************)
(* Data Structures and Algorithms/Spellchecker_Hashtable/spellcheck.cpp:   *)
(* the dictionary, the splitting of the lines of a document into words and *)
(* what is reported.  The hash table, which HashMap checks, is the set of  *)
(* what was inserted.                                                      *)
(***************************************************************************)
EXTENDS Integers, Sequences, FiniteSets, SequencesExt

CONSTANTS Documents,      \* sequences of lines; none if the file cannot be opened
          Dictionaries,   \* the files of words: sets of lines
          ToLower,        \* per character: tolower
          ValidChars,     \* validchars
          DigitChars,     \* "0123456789"
          MaxWord         \* 20

ASSUME SpellAssumption == /\ DigitChars \subseteq ValidChars /\ "end" \notin ValidChars
                          /\ MaxWord \in Nat \ {0}
                          /\ \A d \in Documents : d \in Seq(Seq(DOMAIN ToLower))

VARIABLES document,
          dictionary,     \* what is in the hash table
          checking,       \* "getline", "words", "ended"
          linecount,
          text,           \* line: what is left of it
          complaints         \* outfile: linecount, kind, word

spellVars == <<document, dictionary, checking, linecount, text, complaints>>

Lowered(s) == [k \in DOMAIN s |-> ToLower[s[k]]]

SpellIdle == /\ document = <<>> /\ dictionary = {} /\ checking = "ended"
             /\ linecount = 1 /\ text = <<>> /\ complaints = <<>>

\* A dictionary that cannot be opened is an empty one.
SpellInit == /\ document \in Documents
             /\ dictionary \in {{Lowered(w) : w \in d} : d \in Dictionaries}
             /\ checking = "getline"
             /\ linecount = 1 /\ text = <<>> /\ complaints = <<>>

GetLine == /\ checking = "getline" /\ linecount <= Len(document)
           /\ text' = Lowered(document[linecount])
           /\ checking' = "words"
           /\ UNCHANGED <<document, dictionary, linecount, complaints>>

EndOfDocument == /\ checking = "getline" /\ linecount > Len(document)
                 /\ checking' = "ended"
                 /\ UNCHANGED <<document, dictionary, linecount, text, complaints>>

\* line.find_first_not_of(validchars), as a place from 1 on, past the end if
\* there is none
Found == SelectInSeq(Append(text, "end"), LAMBDA ch : ch \notin ValidChars)

Delimiter == /\ checking = "words" /\ text # <<>> /\ Found = 1
             /\ text' = Tail(text)
             /\ UNCHANGED <<document, dictionary, checking, linecount, complaints>>

\* What is written for a word.
Verdict(word) ==
    IF Len(word) > MaxWord THEN <<<<linecount, "long", SubSeq(word, 1, MaxWord)>>>>
    ELSE IF word \notin dictionary /\ ToSet(word) \cap DigitChars = {}
    THEN <<<<linecount, "unknown", word>>>>
    ELSE <<>>

\* Fault: of the last word of a line the last character is cut off.
NextWordShort == /\ checking = "words" /\ text # <<>> /\ Found > 1
                 /\ complaints' = complaints \o Verdict(SubSeq(text, 1, Found - (IF Found > Len(text) THEN 2 ELSE 1)))
                 /\ text' = SubSeq(text, Found + 1, Len(text))
                 /\ UNCHANGED <<document, dictionary, checking, linecount>>

\* The word and the delimiter after it, if there is one, are cut out.
NextWord == /\ checking = "words" /\ text # <<>> /\ Found > 1
            /\ complaints' = complaints \o Verdict(SubSeq(text, 1, Found - 1))
            /\ text' = SubSeq(text, Found + 1, Len(text))
            /\ UNCHANGED <<document, dictionary, checking, linecount>>

EndOfLine == /\ checking = "words" /\ text = <<>>
             /\ checking' = "getline" /\ linecount' = linecount + 1
             /\ UNCHANGED <<document, dictionary, text, complaints>>

SpellNext == GetLine \/ EndOfDocument \/ Delimiter \/ NextWord \/ EndOfLine

SpellSpec == SpellInit /\ [][SpellNext]_spellVars

------------------------------------------------------------------------------
\* The words of a line: the maximal runs of valid characters, as <<from, to>>.
Runs(s) == LET valid(k) == k \in DOMAIN s /\ s[k] \in ValidChars IN
           {r \in (DOMAIN s) \X (DOMAIN s) : /\ \A k \in r[1]..r[2] : valid(k)
                                         /\ r[1] <= r[2] /\ ~valid(r[1] - 1) /\ ~valid(r[2] + 1)}

\* The runs that the program is for: too long, or not in the dictionary and
\* without a digit.
Wrong(l) == LET s == Lowered(document[l]) IN
            {r \in Runs(s) : \/ r[2] - r[1] >= MaxWord
                             \/ /\ SubSeq(s, r[1], r[2]) \notin dictionary
                                /\ \A k \in r[1]..r[2] : s[k] \notin DigitChars}

\* When the document has been read the complaints are those of its wrong words,
\* one for each, in the order of the text, with their lines and, cut at the
\* longest length, what they are (spellcheck.cpp:46-83).
ReportsRight ==
    checking = "ended" =>
        LET places == {<<l, r>> : l \in 1..Len(document), r \in UNION {Wrong(m) : m \in 1..Len(document)}}
            wrong  == {p \in places : p[2] \in Wrong(p[1])}
            before(p) == {q \in wrong : q[1] < p[1] \/ (q[1] = p[1] /\ q[2][1] < p[2][1])}
        IN  /\ Len(complaints) = Cardinality(wrong)
            /\ \A p \in wrong :
                  LET r == p[2]
                      s == Lowered(document[p[1]])
                      long == r[2] - r[1] >= MaxWord IN
                  complaints[Cardinality(before(p)) + 1] =
                      <<p[1], IF long THEN "long" ELSE "unknown",
                        SubSeq(s, r[1], IF long THEN r[1] + MaxWord - 1 ELSE r[2])>>
==============================================================================
