CONSTANTS
    Users = {u1, u2}
    Enrollments = {e1, e2}
    PublicKeys = {p1}
    Keys = {k1, k2}
    Requests = {q1}
    Sessions = {s1, s2}
    Calls = {c1, c2}
    MaxFaults = 1
    None = None
SPECIFICATION Spec
SYMMETRY Symmetry
INVARIANTS SessionsEndWithKey OneSignInPerApproval KeyAsConfirmed
