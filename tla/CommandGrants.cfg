SPECIFICATION GrantSpec
CONSTANTS
    Grants = {g1, g2, g3}
    Bodies = {b1, b2}
    Jobs = {j1, j2, j3}
    NoGrant = NoGrant
    NoJob = NoJob
    Nobody = Nobody
    Quota = 2
INVARIANT GrantTypeOK
INVARIANT OneJobPerGrant
INVARIANT ReceiptIsTrue
INVARIANT QuotaKept
PROPERTY ImplementsAcceptOnce
