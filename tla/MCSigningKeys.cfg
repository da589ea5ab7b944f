CONSTANTS
    NKeys = 5
    Loops = {l1}
    Admins = {a1, a2}
    Settings <- MCSettings
    Validity = 7
    Interval = 1
    Delay = 1
    TokenTtl = 2
    CacheTtl = 2
    MaxEvents = 2
    MaxFaults = 1
    None = None
SPECIFICATION Spec
SYMMETRY Symmetry
INVARIANTS RelyingPartyVerifies TokenOutlivedByKey SignerStays SignerReturns
