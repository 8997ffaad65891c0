\* A walk through six nodes.
CONSTANTS
    Top = "top"
    Below = {"a", "b", "c", "d", "e"}
    Parent <- TreeParent
    Kind <- TreeKind
    Uid <- TreeUid
    Age <- TreeAge
    NoArg <- NotGiven
    BadArg <- Useless
    Anonymous = {2}
    Users <- SomeUsers
    Times <- SomeTimes
SPECIFICATION FindSpec
INVARIANT ExploresAll
CHECK_DEADLOCK FALSE
