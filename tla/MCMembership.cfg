SPECIFICATION FairSpec
CONSTANTS
    u1 = u1
    r1 = r1
    r2 = r2
    r3 = r3
    None = None
    Users <- MCUsers
    Founders = {}
    Requests <- MCRequests
INVARIANTS NobodyInUnasked RightsOnlyForMembers MemberInv SuspensionReachesTokens
PROPERTY ConsoleCloses
CHECK_DEADLOCK FALSE
