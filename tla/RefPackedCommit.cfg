CONSTANTS
    c0 = c0  c1 = c1  c2 = c2
    p1 = p1  p2 = p2  p3 = p3
    Proc = {p1, p2}
    Commits = {c0, c1, c2}
    Attempts = 2
    NSubdirs = 3
    MayCrash = FALSE
    Scenes <- PackedCommits
    None = None  Empty = Empty  Free = Free  Stale = Stale
SPECIFICATION Spec
SYMMETRY Symm
INVARIANT CommitReplacesCheckedHead
