------------------------------ MODULE MCPrograms ------------------------------
\* A small instance of each of the programs.
EXTENDS Programs, MCFind

CONSTANTS k1, k2, k3,   \* keys
          p1, p2,       \* pointers
          u, v,         \* items
          z1, z2, z3    \* addresses

\* Hash table: k1 and k2 collide in a table of 3, k1 and k3 in one of 7, and
\* k3 is negative.
HashValues == k1 :> 1 @@ k2 :> 4 @@ k3 :> -6
FewPrimes  == <<3, 7>>

\* Pipeline: files that fill the buffer and the pipes, an empty one and one
\* that is not there.
NotThere == -1
ArgLists == {<<3, NotThere, 2>>, <<0, 2>>, <<NotThere>>, <<4>>}

\* Shell: redirections of every kind, twice of the same descriptor, of files
\* that cannot be opened, and three of them; lines that get longer and shorter.
Word(x)   == [op |-> "", name |-> x]
To(op, f) == [op |-> op, name |-> f]
Hash      == <<[op |-> "#", name |-> "#"]>>
SomeScripts ==
    {<<<<Word("ls"), Word("a")>>, Hash, <<Word("ls"), To(">", "f"), To("<", "g")>>,
       <<To(">", "h")>>, <<Word("ls"), Word("a"), Word("b"), To("2>>", "f"), To("2>>", "g")>>>>,
     <<<<Word("nope"), Word("a")>>, <<Word("ls"), To(">", "f2x"), To("2>", "f")>>,
       <<Word("ls"), To(">>", "f"), To("<", "g"), To("2>", "f")>>, <<To(">", "g")>>>>,
     <<<<Word("ls"), To("<", "h"), To(">", "f")>>, <<Word("ls"), Word("a"), Word("b")>>,
       <<Word("ls"), To(">>", "g")>>, <<Word("ls"), To("2", "x")>>>>}
Cut == [f \in {"f", "g", "h", "x", "f2x"} |-> IF f = "f2x" THEN "f" ELSE f]

\* Stacks and queues: two lists of one type and a name that is refused.
Letters3 == "il" :> "i" @@ "iq" :> "i" @@ "xl" :> "other"

\* Merge: all short words with all that may be merges, too long or too short,
\* and two longer ones.
Strings(from, to) == UNION {[1..k -> {"x", "y"}] : k \in from..to}
Short  == {t \in Strings(0, 2) \X Strings(0, 2) \X Strings(0, 5) :
              Len(t[3]) - (Len(t[1]) + Len(t[2])) \in {-1, 0, 1}}
Longer == {<<"x", "x", "y">>} \X {<<"x", "y">>} \X Strings(5, 5)
MergeTriples == Short \cup Longer

\* Copycat: files, the standard input twice, a file twice, and one that is not
\* there.
CopyLists   == {<<>>, <<"f", "-", "g">>, <<"-", "-">>, <<"g", "g">>, <<"f", "z", "g">>}
CopyLengths == "-" :> 2 @@ "f" :> 3 @@ "g" :> 2

\* tcp_send: lines shorter and longer than the buffer, and bytes that are 0.
C == "char"
L == "newline"
Z == "nul"
SomeStreams == {<<C, L, C, C>>, <<C, C, C, L, C>>, <<C, Z, C, L, C>>, <<Z, C>>}

\* Spell checker: capitals, digits, delimiters, and words that are too long.
Lower     == "a" :> "a" @@ "A" :> "a" @@ "1" :> "1" @@ "," :> ","
Documents3 == {<<l, x>> : l \in BoundedSeq(DOMAIN Lower, 3), x \in {<<>>, <<",", "a", "a", "a", ",">>}}
WordLists == {{}, {<<"A">>, <<"a", "a">>}}

UdpQuestions == 1 :> "DATE" @@ 2 :> "UPTIME"
==============================================================================
