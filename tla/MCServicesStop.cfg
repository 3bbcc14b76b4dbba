SPECIFICATION MCSpec
CONSTANTS
    Components = {"engine"}
    Tasks = {t1}
    AutoStart = auto
    Versions = {1}
    Engines <- OneEngine
    Nil = Nil
    MaxRequests = 2
    MaxBoots = 1
    Ids = {t1}
    Names = {n1, n2}
    Dbs = {"d"}
    Steps = 1
    SqlEngines = {"mysql", "postgres"}
    DbClients = {t1}
    DbPaths = {"p"}
    MaxDbRequests = 2
    MaxDbEvents = 1
INVARIANT StopSurvivesBoot
CHECK_DEADLOCK FALSE
