SPECIFICATION Spec
CONSTANTS
    Namespaces = {"home", "other"}
    Home = "home"
    Failures <- MCFailures
    Window = 2
    Ttl = 3
    Keep = 2
    ArmWindow = 1
    Deadline = 2
    MaxJobs = 2
    Budgets <- MCBudgets
PROPERTIES RunningJobTracked
CHECK_DEADLOCK FALSE
