SPECIFICATION Spec
CONSTANTS
    Totals = {0, 1, 4}
    Sizes = {3, 4}
    Patterns <- MCPatterns
    KeySets <- MCKeySets
    MaxKeys = 3
    MaxNeeded = 5
    MayFail = FALSE
    MaxViews = 6
    WideScreens = {TRUE, FALSE}
    Kinds = {"diff", "blame", "tree", "ref"}
    Heights = {5, 6}
    Lengths = {1, 5}
    Matches <- MCMatches
    MaxListKeys = 4
    MaxDepth = 1
INVARIANTS
    SelectedCommitIsHighlighted
    FocusIsUnique
    PointersAreLive
    SelectionExists
    SearchTerminates
PROPERTIES
    MainReturns
CHECK_DEADLOCK FALSE
