CONSTANTS
  Requests = {r1, r2}
  IdemKeys = {"k1"}
  Contents = {"f1"}
  Kinds = {"odoo"}
  MAX_AGENT_QUEUED_JOBS = 1
  max_concurrent_jobs = 2
  max_prints_per_period = 3
  MaxPeriod = 0
  SweepOverlaps = TRUE
SPECIFICATION CreationSpec
INVARIANT OneJobPerKey

CHECK_DEADLOCK FALSE
