CONSTANTS
    Proc = {p1, p2}
    Branch = {main, dev, topic}
    Platforms = {TRUE, FALSE}
    PackedTips = {2}
    MaxCommits = 3
    MaxRuns = 2
SYMMETRY Symmetric
SPECIFICATION Spec
INVARIANT CachedMetaIsCurrent
PROPERTIES IndexUpdatesNotLost IntegrateKeepsHistory
CHECK_DEADLOCK FALSE
