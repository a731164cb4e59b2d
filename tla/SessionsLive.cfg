CONSTANTS
    Users = {u1}
    Rows = {r1, r2, r3}
    Reqs = {q1, q2}
    NoUser = NoUser
    NoRow = NoRow
    AccessTTL = 1
    RefreshTTL = 2
    FamilyTTL = 3
    MaxTime = 3
    TurnstileEnabled = TRUE
    SecretSet = TRUE
SPECIFICATION FairSpec
PROPERTY ReplayEndsFamily
PROPERTY SessionsEnd
