SPECIFICATION FairSpec
CONSTANTS
    None = None
    Cluster = "home"
    RunUntagged = FALSE
    StageFilter = TRUE
    Branch = "prod"
    AcceptedVaults <- MCVaults
    Configs <- MCConfigs
    FirstRecord <- MCFirst
    Crashes = {"pod_crash_no_stdout"}
    Budgets <- MCBudgets
    MaxCmds = 2
    MaxTopic = 2
INVARIANTS TypeOK BudgetHolds FiltersAgree PlaceKept
PROPERTIES RoutingSettles RefusalRecorded
CHECK_DEADLOCK FALSE
