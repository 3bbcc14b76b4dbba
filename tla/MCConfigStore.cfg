SPECIFICATION MCSpec
CONSTANTS
    r1 = r1
    r2 = r2
    d1 = d1
    d2 = d2
    Roots = {r1, r2}
    Dirs = {d1, d2}
    RootOf <- MCRootOf
    Tasks = {t1, t2}
    Watcher = Watcher
    NoTask = NoTask
    Values = {1, 2}
    MaxSteps = 3
    Ids = {j1}
    Names = {n1, n2}
INVARIANT ServedIsSaved
PROPERTY EventuallyDone
CHECK_DEADLOCK FALSE
