CONSTANTS
  NEvents = 2
  PartitionOf <- OneRoom
  KindOf <- AllRepeat
  Poison = {}
  Job = job
  Wakes = {wake}
  BatchSize = 2
  MaxAttempts = 2
  MaxMishaps = 0
SPECIFICATION OutboxSpec
INVARIANTS OrderPerKey
CHECK_DEADLOCK FALSE
