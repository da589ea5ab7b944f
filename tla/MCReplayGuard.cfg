SPECIFICATION GuardSpec
CONSTANTS
    s1 = s1
    s2 = s2
    s3 = s3
    k1 = k1
    k2 = k2
    Nothing = Nothing
    Statements <- MCStatements
    Keys = {k1, k2}
    KeyOf <- MCKeyOf
    Until <- MCUntil
    Ahead = 2
    Requests = {r1, r2}
    MaxTime = 4
    MaxUses = 2
INVARIANTS AcceptedOnceWhileKept GuardInv
