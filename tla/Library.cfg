SPECIFICATION Spec
CONSTANTS
    Branch = {1, 2}
    Tag = {3}
    Other = {4}
    Commits = {1, 2, 3}
    ServerCommits = {1, 2}
    Anc <- MCAnc
    MaxPushes = 2
    MaxRuns = 2
    NObj = 3
    Obj = {1, 2, 3, 4}
    TypeOf <- MCTypeOf
    Pack = {"p1", "p2", "p3"}
    InPack <- MCInPack
    Loose = {2, 3, 4}
    Late = {"p3"}
    TooLarge = {4}
    PackidxCacheSize = 2
    PackCacheSize = 2
    ObjectCacheSize = 1
    MaxOpens = 2
    Writer = {w1, w2}
    Dirs <- MCDirs
    Ignored = {"i"}
    Edits <- MCEdits
    RefNames = {"m", "t"}
    MaxWrites = 2
    MaxKills = 1
    NCommits = 5
    RootDags <- MCRootDags
    PathDags <- MCPathDags
    LinesOf <- MCLinesOf
    Chars <- MCChars
    Trees <- MCTrees
    Indexes <- MCIndexes
    PathArgs <- MCPathArgs
    IgnoreFiles <- MCIgnoreFiles
INVARIANTS
    IndexIsComplete
    HeldObjectsAreLive
    ReadsReturnTheObject
    HistoryIsTraversed
    BlameNamesTheOrigin
    EachPathReportedOnce
PROPERTIES
    FetchImplementsStore
    LocalRefsKept
    WritersImplementStore
CHECK_DEADLOCK FALSE
