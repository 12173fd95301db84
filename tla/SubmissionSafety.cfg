SPECIFICATION Spec
CONSTANTS
    Grants = {g1, g2}
    Bodies = {secretA}
    Jobs = {j1, j2}
    Cards = {c1, c2}
    Tickets = {1, 2}
    NoGrant = NoGrant
    NoJob = NoJob
    Nobody = Nobody
    NoCard = NoCard
    KeyOf <- MCKeyOf
    Unusable = TRUE
    Quota = 2
    MaxPages = 2
    MaxCloses = 1
INVARIANT TypeOK
INVARIANT OneLiveJobPerKey
INVARIANT ShownEndIsTrue
INVARIANT OneJobPerSubmission
INVARIANT AnswersAreTrue
PROPERTY ShownEndStays
