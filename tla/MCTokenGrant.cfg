SPECIFICATION Spec
CONSTANTS
  Codes = {k1}
  Tokens = {t1, t2, t3}
  Requests = {r1, r2}
  Clients = {app}
  Users = {ann}
  Sids = {s1}
  Keys = {key}
  Legacy = {}
  CodeTtl = 1
  RefreshTtl = 1
  MaxTime = 1
  None = None
SYMMETRY Symmetry
INVARIANTS OneLiveTokenPerFamily NoFork FamilyInv ChainInherits
PROPERTIES ImplementsGrantFamily WithoutKeyNothingChanges
