SPECIFICATION Spec
CONSTANTS
    template = template
    slot = slot
    container = container
    h1 = h1
    h2 = h2
    h3 = h3
    NoHost = NoHost
    Nothing = Nothing
    Ops = {template, slot, container}
    Hosts = {h1, h2, h3}
    Sessions = {}
    LockNames = {"catalog", "environment"}
    Plan <- MCPlan
    Deps <- MCDeps
    Locks <- MCLocks
    Class <- MCClass
    Created <- MCCreated
    MaxWorkers = 2
    SingleHost = FALSE
    Commands = {}
    MaxCommands = 0
    MaxAborts = 1
    MaxErrors = 0
INVARIANT Exclusion
INVARIANT RunningIsOwned
PROPERTY ProgressKept
PROPERTY TerminalKept
