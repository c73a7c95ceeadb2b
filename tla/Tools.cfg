SPECIFICATION Spec
CONSTANTS
  Place <- MCPlace
  Meters <- MCMeters
  Worker = {w1, w2}
  MaxKills = 2
INVARIANTS
  QueriesRoutable
  StressVerdict
  BenchVerdict
  CampaignVerdict
  ReplayVerdict
CHECK_DEADLOCK FALSE
