CONSTANTS
    f = f  g = g  a = a  b = b  u = u  v = v
    Regions = {1, 2}
    Vals = {a, b, u, v, Cut}
    Commits = {0, 1, 2, 3}
    None = None  Dir = Dir  Cut = Cut
    PathSeq <- FilePaths
    Tree <- NoAddTree
    InitCommit = 0
    Targets = {0, 1, 2}
    Backwards = TRUE
    UserActs = {"edit", "chmod", "remove", "create", "obstruct"}
    EditVals = {u}
    EditRegions = {1, 2}
    MaxEdits = 3
    Crashes = {"between", "install"}
    MaxCrashes = 1
SPECIFICATION Spec
VIEW LocalView
INVARIANT LocalChangesSurvive
INVARIANT FreshMeansUnmodified
