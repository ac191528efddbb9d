CONSTANTS
  NEvents = 2
  PartitionOf <- TwoRooms
  KindOf <- AllRepeat
  Poison = {1}
  Job = job
  Wakes = {}
  BatchSize = 2
  MaxAttempts = 3
  MaxMishaps = 0
SPECIFICATION OutboxFairSpec
PROPERTY EveryEventShips
CHECK_DEADLOCK FALSE
