SPECIFICATION Spec
CONSTANTS
  Codes = {k1}
  Tokens = {t1, t2, t3}
  Requests = {r1, r2}
  Clients = {app}
  Users = {ann}
  Sids = {s1}
  Keys = {}
  Legacy = {}
  CodeTtl = 1
  RefreshTtl = 1
  MaxTime = 1
  None = None
INVARIANT StoppedFamilyStaysStopped
