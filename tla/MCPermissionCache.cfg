SPECIFICATION FairSpec
CONSTANTS
    u1 = u1
    u2 = u2
    r1 = r1
    r2 = r2
    None = None
    Users <- MCUsers
    FirstAdmins <- MCFirstAdmins
    Requests <- MCRequests
INVARIANTS OnlyHoldersChange StaleOnlyByRace CacheInv
PROPERTY RevocationTakesEffect
