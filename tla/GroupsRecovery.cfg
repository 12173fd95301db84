SPECIFICATION FairSpec
CONSTANTS
    a = a
    b = b
    NoProc = NoProc
    NoGroup = NoGroup
    Groups = {a, b}
    Runs = {1, 2}
    Procs = {p1, p2}
    Memberships <- MCMemberships
    Commands = {"Start", "Stop"}
    MaxChanges = 1
PROPERTY RecoversUnlessBlocked
CHECK_DEADLOCK FALSE
