SPECIFICATION QueueSpec
CONSTANTS
    Roles = {"worker", "scribe"}
    Claimers = {"n"}
    NoClaimer = NoClaimer
    MaxMessages = 4
    Workers = {w1, w2}
    Name <- MCName
    Panel = "n"
    Role = "worker"
    MaxTasks = 3
    MaxFailures = 2
    MaxDeaths = 1
INVARIANTS
    OneOutcome
PROPERTIES
    EveryTaskSettles
CHECK_DEADLOCK FALSE
