CONSTANTS
  Host = host
  Guests = {g1}
  Nobody = nobody
  SeatCapacity = 2
  Requests = {r1, r2}
  Taps = {r1}
  MaxWebhooks = 2
  MaxMishaps = 1
SPECIFICATION FairSpec
INVARIANTS TypeOK SeatsAddUp SessionTellsHost
PROPERTIES LateStretchCloses SeatsComeFree
CHECK_DEADLOCK FALSE
