SPECIFICATION FairSpec
CONSTANTS
  stop = stop  c1 = c1  c2 = c2  w1 = w1  w2 = w2
  Stops <- MCStops
  Clients <- MCClients
  Internal <- MCInternal
  Workers <- MCWorkers
  MaxAttempts = 3
  BatchSize = 2
  Base = 2
  Cap = 4
  Retention = 1
  MaxFaults = 1
INVARIANTS HeldByOne NoAttemptLost NoNeedlessPost
PROPERTIES EventuallySettled
