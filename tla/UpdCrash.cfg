CONSTANTS
    f = f  g = g  a = a  b = b  u = u  v = v
    Regions = {1,2,3}
    Vals = {a, b, u, v, Cut}
    Commits = {0, 1, 2, 3}
    None = None  Dir = Dir  Cut = Cut
    PathSeq <- FilePaths
    Tree <- StableTree
    InitCommit = 0
    Targets = {0, 1, 2}
    Backwards = FALSE
    UserActs = {"edit", "remove", "obstruct"}
    EditVals = {u}
    EditRegions = {1, 3}
    MaxEdits = 3
    Crashes = {"between"}
    MaxCrashes = 3
SPECIFICATION Spec
INVARIANT IncomingChangesArrive
INVARIANT IndexMatchesCommit
