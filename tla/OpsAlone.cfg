CONSTANTS
    f = f  g = g  a = a  b = b  d = d  u = u
    Regions = {1}
    Vals = {a, b, u, Cut}
    Commits = {1, 2, 3}
    None = None  Dir = Dir  Cut = Cut
    PathSeq <- FilePaths
    InitTree <- OneFile
    Side <- SideChange
    Others = {}
    MaxOthers = 0
    MaxCommits = 3
    Commands = {"add", "remove", "revert", "stage", "unstage", "commit", "cherrypick",
                "backout", "update"}
    RemoveFlags = {"f", "k"}
    UserActs = {"edit", "create"}
    EditVals = {u}
    EditPoints = {"editor"}
    MaxEdits = 1
    MaxCrashes = 0
SPECIFICATION Spec
INVARIANT CommitRecordsChanges
INVARIANT IndexMatchesCommit
