SPECIFICATION Spec
CONSTANTS
    u1 = u1
    u2 = u2
    s1 = s1
    s2 = s2
    r1 = r1
    r2 = r2
    f1 = f1
    f2 = f2
    f3 = f3
    Users = {u1}
    Flows = {f1, f2, f3}
    Sids = {s1}
    Requests = {r1}
    TotpUsers = {}
    Reissued = {u1}
    Decided = {"allow", "deny", "webauthn"}
    Silent = {f2}
    Forced = {f3}
    ConsentPrompt = {f1}
    Scopes = {"profile", "email"}
    Asks <- ThreeFlowsAsk
    None = None
SYMMETRY Symmetry
INVARIANTS PolicyHonoured ConsentBeforeCode PromptHonoured SignInInv
CHECK_DEADLOCK FALSE
