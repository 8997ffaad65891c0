-------------------------------- MODULE MCFind --------------------------------
\* A small tree for Find.
EXTENDS Find, TLC

NotGiven == -1000
Useless  == -1001

\* top: a/ (b/ (c)), d/ (e, a link)
TreeParent == "a" :> "top" @@ "b" :> "a" @@ "c" :> "b" @@ "d" :> "top" @@ "e" :> "d"
TreeKind == [n \in {"top", "a", "b", "c", "d", "e"} |->
                CASE n = "e" -> "link" [] n = "c" -> "other" [] OTHER -> "dir"]

\* User 2, who has no name, owns a directory and a link.
TreeUid == [n \in {"top", "a", "b", "c", "d", "e"} |-> IF n \in {"b", "e"} THEN 2 ELSE 1]
TreeAge == "top" :> 3 @@ "a" :> 2 @@ "b" :> 5 @@ "c" :> 2 @@ "d" :> 1 @@ "e" :> 3

\* Of the arguments of -m, 2 and -2 are the age of some files exactly.
SomeUsers == {NotGiven, Useless, 0, 1}
SomeTimes == {NotGiven, Useless, 2, -2, 3}
==============================================================================
