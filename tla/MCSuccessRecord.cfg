\* Two pods record, prune, suppress and park while requests fail and pods are replaced.
SPECIFICATION Spec
CONSTANTS
  p1 = p1
  p2 = p2
  planning = planning
  execution = execution
  Pods = {p1, p2}
  Phases = {planning, execution}
  HumanReview = "human_review"
  NoJob = NoJob
  NoCompletion = NoCompletion
  NoPark = NoPark
  RespawnGrace = 2
  Cadence = 2
  Retention = 3
  JobTTL = 2
  WriteBackTime = 1
  MaxTime = 4
  MaxSuccesses = 2
  Faults = {"putFails", "putLost", "listFails", "deleteFails", "readFails", "publishFails", "crash"}
SYMMETRY Symmetry
INVARIANTS
  NewestRecordSurvives

  
  
