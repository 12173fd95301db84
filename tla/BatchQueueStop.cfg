SPECIFICATION Spec
CONSTANTS
    template = template
    slot = slot
    container = container
    h1 = h1
    u1 = u1
    NoHost = NoHost
    Nothing = Nothing
    Ops = {template, slot, container}
    Hosts = {h1}
    Sessions = {u1}
    LockNames = {"catalog", "environment"}
    Plan <- MCPlan
    Deps <- MCDeps
    Locks <- MCLocks
    Class <- MCClass
    Created <- MCCreated
    MaxWorkers = 2
    SingleHost = TRUE
    Commands = {"Stop"}
    MaxCommands = 1
    MaxAborts = 0
    MaxErrors = 0
PROPERTY StopHonoured
