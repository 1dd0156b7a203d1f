SPECIFICATION Spec
CONSTANTS
    Files = {"f", "g"}
    Messages = {"root", "one", "two", "main", "user", "other"}
    Starts <- AllStarts
    Commands = {"rebase", "histedit", "update", "commit"}
    EditCmds = {"pick", "edit", "fold", "drop"}
    UserActs = {"drop", "revert"}
    MaxStarts = 1
    MaxOthers = 1
    Faults = {"kill", "error"}
    MaxFaults = 1
INVARIANTS HeadRefExists ConflictCanBeAborted ReplayedAsIs NothingLeftBehind
PROPERTIES AbortReturnsHome RebaseKeepsChanges RebaseEnds
CHECK_DEADLOCK FALSE
