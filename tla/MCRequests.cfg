SPECIFICATION MCSpec
CONSTANTS
    Parts = {"sites", "settings", "versions"}
    Names = {"a", "b", "p"}
    Extra = {"x"}
    Wild = {"w"}
    Docroots = {"d1", "d2", "d3"}
    Roots = {"r1", "r2"}
    None = None
    WildcardOf <- MCWildcardOf
    ParentOf <- MCParentOf
    Under <- MCUnder
    SlugOf <- MCSlugOf
    InitialStates <- SiteStarts
    SetTasks = {s1, s2}
    ExtTasks = {e1, e2}
    Exts = {ext}
    Values = {u1, u2}
    NotStarted = NotStarted
    StartFailed = StartFailed
    NoTask = NoTask
    Kinds = {"version_settings", "pool"}
    Versions = {v1, v2}
    MaxRequests = 3
    Installers = {i1}
    Updaters = {i2}
    Removers = {i3}
    Minors = {v1, v2, l1}
    Legacy = {l1}
    Sites = {site}
    Unset = Unset
    MaxPatch = 2
    MaxAsked = 3
SYMMETRY Symmetry
INVARIANTS  SettingsInEffect UpdatedRuns
 
CHECK_DEADLOCK FALSE
