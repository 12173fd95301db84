SPECIFICATION FairSpec
CONSTANTS
    Grants = {g1}
    Bodies = {secretA}
    Jobs = {j1}
    Cards = {c1, c2}
    Tickets = {1, 2}
    NoGrant = NoGrant
    NoJob = NoJob
    Nobody = Nobody
    NoCard = NoCard
    KeyOf <- MCKeyOf
    Unusable = TRUE
    Quota = 1
    MaxPages = 2
    MaxCloses = 1
INVARIANT AnswersAreTrue
PROPERTY EndIsLearnt
