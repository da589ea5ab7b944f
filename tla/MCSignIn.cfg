SPECIFICATION Spec
CONSTANTS
    u1 = u1
    u2 = u2
    s1 = s1
    s2 = s2
    r1 = r1
    r2 = r2
    f1 = f1
    f2 = f2
    f3 = f3
    Users = {u1, u2}
    Flows = {f1}
    Sids = {s1, s2}
    Requests = {r1, r2}
    TotpUsers = {u1, u2}
    Reissued = {}
    Decided = {"mfa"}
    Silent = {}
    Forced = {}
    ConsentPrompt = {}
    Scopes = {"profile", "email"}
    Asks <- OneFlowAsks
    None = None
SYMMETRY Symmetry
INVARIANTS AuthMatchesSession SignInInv
CHECK_DEADLOCK FALSE
