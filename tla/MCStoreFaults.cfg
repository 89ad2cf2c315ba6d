\* Requests to the claim store and to Kubernetes fail or lose their answer.
SPECIFICATION Spec
CONSTANTS
  c1 = c1
  c2 = c2
  k1 = k1
  k2 = k2
  t1 = t1
  t2 = t2
  Free = Free
  NotHeld = NotHeld
  NoTask = NoTask
  NoKey = NoKey
  Clusters = {c1, c2}
  Keys = {k1}
  Tasks = {t1}
  KeyOf <- OneKey
  Tokens = {0, 1, 2, 3}
  LeaseDuration = 5
  RenewInterval = 2
  FenceMargin = 1
  FenceLead = 1
  TakeoverGrace = 1
  JoblessGrace = 2
  JoblessCheckInterval = 1
  SuccessGracePeriod = 0
  TickGap = 2
  OpTime = 1
  SpawnTime = 1
  Faults = {"readFails", "acquireFails", "acquireLost", "renewFails", "renewLost", "releaseFails", "spawnFails", "spawnLost"}
  RerunOnLostClaim = {}
  ClaimMode = "on"
  RecoverFirst = TRUE
SYMMETRY Symmetry
VIEW View
INVARIANTS
  LiveLeaseIsExclusive
  RunningJobCovered
  NoDoubleRun
PROPERTIES
  NoEarlyTakeover
