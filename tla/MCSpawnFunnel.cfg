SPECIFICATION Spec
CONSTANTS
    t1 = t1
    t2 = t2
    None = None
    Tasks = {t1, t2}
    Cluster = "home"
    RunUntagged = FALSE
    StageFilter = TRUE
    Branch = "prod"
    AcceptedVaults <- MCVaults
    Configs <- MCConfigs
    Edits <- MCEdits
    Starts <- MCStarts
    MaxJobs = 2
    MaxBusy = 2
INVARIANTS TypeOK CapRespected OneJobPerTask
PROPERTIES EvictionBeatsReplay
SYMMETRY Symmetry
CHECK_DEADLOCK FALSE
