CONSTANTS
    f = f  g = g  a = a  b = b  d = d  u = u
    Regions = {1}
    Vals = {a, b, u, Cut}
    Commits = {1, 2, 3}
    None = None  Dir = Dir  Cut = Cut
    PathSeq <- FilePaths
    InitTree <- OneFile
    Side <- SideChange
    Others <- DeletedFile
    MaxOthers = 1
    MaxCommits = 3
    Commands = {"add", "remove", "stage", "unstage", "commit", "cherrypick", "backout",
                "update"}
    RemoveFlags = {"f"}
    UserActs = {"edit", "chmod", "remove"}
    EditVals = {u}
    EditPoints = {"editor"}
    MaxEdits = 1
    MaxCrashes = 1
SPECIFICATION Spec
INVARIANT LocalChangesSurvive
INVARIANT FreshMeansUnmodified
