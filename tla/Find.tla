--------------------------------- MODULE Find ---------------------------------
(***************************************************************************)
(* Operating Systems/Project2-Find/myfind.c: the options -u and -m, and    *)
(* the recursive walk.  stack is the stack of calls of find; the files do  *)
(* not change during the walk.                                             *)
(***************************************************************************)
EXTENDS Integers, Sequences, FiniteSets, SequencesExt

CONSTANTS Top,        \* the starting path
          Below,      \* the nodes below it
          Parent,     \* the directory each of them is in
          Kind,       \* per node: "dir", "link" or "other"
          Uid, Age,   \* per node: st_uid, and the seconds since st_mtime
          Anonymous,  \* the uids or gids without a name
          NoArg,      \* an option that is not given
          BadArg,     \* a user without a passwd entry, or a time that is no number
          Users, Times   \* the arguments of -u and of -m

Nodes == {Top} \cup Below

\* The files are a tree: of any nodes one is in a directory that is not one
\* of them.
ASSUME TreeAssumption == /\ Top \notin Below
                         /\ Nodes \cap {".", ".."} = {}
                         /\ Parent \in [Below -> Nodes]
                         /\ \A S \in SUBSET Below : S # {} => \E n \in S : Parent[n] \notin S
                         /\ Kind \in [Nodes -> {"dir", "link", "other"}]
                         /\ \A n \in Below : Kind[Parent[n]] = "dir"
                         /\ Uid \in [Nodes -> Nat] /\ Age \in [Nodes -> Nat]

ASSUME ArgAssumption == Times \ {NoArg, BadArg} \subseteq Int

VARIABLES user, mtime,   \* the arguments of -u and -m
          walk,          \* "options", "call", "walking", "ended"
          stack,         \* per call of find: its directory, whether it has the
                         \* name of rootname, and the entries readdir will return
          listing,       \* the nodes printed so far
          failed,        \* history: an argument was bad or a system call failed
          fell           \* history: a call has returned 0 from its last line

findVars == <<user, mtime, walk, stack, listing, failed, fell>>

FindIdle == /\ user = NoArg /\ mtime = NoArg /\ walk = "idle" /\ stack = <<>>
            /\ listing = <<>> /\ failed = FALSE /\ fell = FALSE

FindInit == /\ user \in Users /\ mtime \in Times /\ walk = "options" /\ stack = <<>>
            /\ listing = <<>> /\ failed = FALSE /\ fell = FALSE

uvalue == IF user = NoArg THEN 0 ELSE user
mvalue == IF mtime = NoArg THEN 0 ELSE mtime

\* Every return 0 ends the caller's call as well, up to main.
ReturnZero == walk' = "ended" /\ stack' = <<>>

BadOption == /\ walk = "options" /\ BadArg \in {user, mtime}
             /\ ReturnZero
             /\ failed' = TRUE
             /\ UNCHANGED <<user, mtime, listing, fell>>

\* What opendir and readdir give of a directory.
Entries(d) == {".", ".."} \cup {n \in Below : Parent[n] = d}
Frame(d, isroot) == [dir |-> d, isroot |-> isroot, left |-> Entries(d)]

\* find(argv[optind],argv[optind],...)
StartWalk == /\ walk = "options" /\ BadArg \notin {user, mtime}
             /\ walk' = "walking"
             /\ stack' = <<Frame(Top, TRUE)>>
             /\ UNCHANGED <<user, mtime, listing, failed, fell>>

here == Last(stack)

\* opendir, lstat or readlink fails, or a uid has no name while errno still
\* holds the error of some earlier call.
CallFails == /\ walk \in {"options", "walking"} /\ BadArg \notin {user, mtime}
             /\ walk = "walking" => here.left # {}
             /\ ReturnZero
             /\ failed' = TRUE
             /\ UNCHANGED <<user, mtime, listing, fell>>

\* Fault: "." is listed in every directory.
SkippedNot(e) == e = ".."

\* ".." is never listed, and "." only as the starting path.
Skipped(e) == e = ".." \/ (e = "." /\ ~here.isroot)

\* The node pathname names.
Named(e) == IF e = "." THEN here.dir ELSE e

\* Fault: a file that is exactly as old as -m asks is not listed.
FilteredOutEdge(n) == \/ uvalue # 0 /\ Uid[n] # uvalue
                      \/ mvalue > 0 /\ Age[n] < mvalue
                      \/ mvalue < 0 /\ -mvalue <= Age[n]

\* The two continues; a node they skip is not descended into either.
FilteredOut(n) == \/ uvalue # 0 /\ Uid[n] # uvalue
                  \/ mvalue > 0 /\ Age[n] < mvalue
                  \/ mvalue < 0 /\ -mvalue < Age[n]

isdir(e) == Kind[Named(e)] = "dir" /\ e # "."

\* One turn of the loop over readdir.
Entry ==
    /\ walk = "walking" /\ here.left # {}
    /\ \E e \in here.left :
          LET rest == [stack EXCEPT ![Len(stack)].left = @ \ {e}] IN
          IF Skipped(e) \/ FilteredOut(Named(e))
          THEN stack' = rest /\ UNCHANGED listing
          ELSE /\ listing' = Append(listing, Named(e))
               /\ stack' = IF isdir(e) THEN Append(rest, Frame(Named(e), Named(e) = here.dir)) ELSE rest
    /\ UNCHANGED <<user, mtime, walk, failed, fell>>

\* A uid or gid without a name while errno is not 0: the line is cut off.
NoName ==
    /\ walk = "walking"
    /\ \E e \in here.left : /\ ~Skipped(e) /\ ~FilteredOut(Named(e))
                            /\ Uid[Named(e)] \in Anonymous
    /\ ReturnZero
    /\ failed' = TRUE
    /\ UNCHANGED <<user, mtime, listing, fell>>

\* find has no return after closedir: the caller gets what the register
\* holds, and gives up if that is 0.
FallsOff ==
    /\ walk = "walking" /\ here.left = {}
    /\ \/ Len(stack) = 1 /\ ReturnZero /\ UNCHANGED fell
       \/ /\ Len(stack) > 1
          /\ stack' = Front(stack)
          /\ UNCHANGED <<walk, fell>>
       \/ Len(stack) > 1 /\ ReturnZero /\ fell' = TRUE
    /\ UNCHANGED <<user, mtime, listing, failed>>

FindNext == BadOption \/ StartWalk \/ CallFails \/ Entry \/ NoName \/ FallsOff

FindSpec == FindInit /\ [][FindNext]_findVars

------------------------------------------------------------------------------
\* What the options ask for: the user's nodes, and those at least m old, or at
\* most -m.
Wanted(n) == /\ user = NoArg \/ Uid[n] = user
             /\ mvalue > 0 => Age[n] >= mvalue
             /\ mvalue < 0 => Age[n] <= -mvalue

\* The nodes S have, up to the starting path, the directories they are in.
Upward(S) == \A n \in S : Parent[n] \in S \cup {Top}

\* The directories between the starting path and a node.
Between(n) == {d \in Below \ {n} :
                  \A S \in SUBSET Below : Upward(S) /\ n \in S \cup {Top} => d \in S}

\* -u 0, or -u root, is taken for no -u at all, and everybody's nodes are
\* listed (myfind.c:136): what is said of -u below leaves it out.
UserHeeded == user # 0

\* Nothing is listed that the options exclude, but for -u 0; nothing twice, and
\* no node before the directories that lead to it (myfind.c:105-138, 251-258).
ListedRight ==
    \A i \in 1..Len(listing) :
        /\ UserHeeded => Wanted(listing[i])
        /\ \A k \in 1..(i - 1) : listing[k] # listing[i]
        /\ \A d \in Between(listing[i]) : \E k \in 1..(i - 1) : listing[k] = d

\* A walk in which nothing failed and every call came back with something
\* other than 0 (ExploresAll is about one that does not) has listed every node
\* it should, except those below a directory that is itself excluded
\* (myfind.c:136-138).
WalkComplete ==
    (walk = "ended" /\ ~failed /\ ~fell /\ UserHeeded) =>
        ToSet(listing) = {n \in Nodes : Wanted(n) /\ \A d \in Between(n) : Wanted(d)}

\* The listing has what the options ask for, unless the user is 0, and all of
\* it if nothing failed and no call came back with 0.
ListingRight == ListedRight /\ WalkComplete

\* Exploring recursively (pset-w02.ps:250-255): a walk without options in which
\* nothing failed has listed every node.
ExploresAll == (walk = "ended" /\ ~failed /\ user = NoArg /\ mtime = NoArg) =>
                   ToSet(listing) = Nodes
==============================================================================
