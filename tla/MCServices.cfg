SPECIFICATION MCSpec
CONSTANTS
    Components = {"engine", "start", "databases", "create", "mail", "dumps", "jobs", "prune", "file"}
    Tasks = {t1, t2}
    AutoStart = auto
    Versions = {1, 2}
    Engines <- AllEngines
    Nil = Nil
    MaxRequests = 3
    MaxBoots = 1
    Ids = {t1, t2}
    Names = {n1, n2}
    Dbs = {"d"}
    Steps = 1
    SqlEngines = {"mysql", "postgres"}
    DbClients = {t1, t2}
    DbPaths = {"p"}
    MaxDbRequests = 2
    MaxDbEvents = 1
SYMMETRY Symmetry
INVARIANTS  StartIsSafe BackupIsWhole CreateRollsBack 
PROPERTIES DataKept SavedIsKept
CHECK_DEADLOCK FALSE
