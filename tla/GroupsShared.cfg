SPECIFICATION Spec
CONSTANTS
    a = a
    b = b
    NoProc = NoProc
    NoGroup = NoGroup
    Groups = {a, b}
    Runs = {1, 2}
    Procs = {p1, p2}
    Memberships <- MCMemberships
    Commands = {"Start", "Stop", "StartRun", "StopRun", "Remove", "Restart", "AddMember", "RemoveMember", "NewGroup", "RemoveGroup"}
    MaxChanges = 1
SYMMETRY Processes
INVARIANT TypeOK
INVARIANT RegistryValid
INVARIANT OneOperation
INVARIANT DemandHonoured
CHECK_DEADLOCK FALSE
