SPECIFICATION FairSpec
CONSTANTS
    template = template
    slot = slot
    container = container
    h1 = h1
    h2 = h2
    u1 = u1
    NoHost = NoHost
    Nothing = Nothing
    Ops = {template, slot, container}
    Hosts = {h1, h2}
    Sessions = {u1}
    LockNames = {"catalog", "environment"}
    Plan <- MCPlan
    Deps <- MCDeps
    Locks <- MCLocks
    Class <- MCClass
    Created <- MCCreated
    MaxWorkers = 1
    SingleHost = TRUE
    Commands = {"Confirm", "Probe", "Queue", "Suspend", "Resume"}
    MaxCommands = 2
    MaxAborts = 1
    MaxErrors = 0
INVARIANT StepsInOrder
INVARIANT DependenciesFirst
INVARIANT WorkerLimit
PROPERTY ImplementsStepLog
PROPERTY ComesToRest
