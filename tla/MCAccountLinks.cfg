CONSTANTS
  c1 = c1
  c2 = c2
  l1 = l1
  l2 = l2
  k1 = k1
  k2 = k2
  Calls = {c1, c2}
  Links = {l1, l2}
  Passkeys = {k1, k2}
  None = None
  Threshold = 2
  MaxCalls = 5
  MaxStops = 2
  MaxFaults = 1
SPECIFICATION Spec
SYMMETRY Symmetric
CHECK_DEADLOCK FALSE
INVARIANT OneLiveLink
