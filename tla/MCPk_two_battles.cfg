CONSTANTS
  Hosts = {h1, h2, h3}
  Taps = {t1, t2}
  Matcher = matcher
  StartOnAir = {h1, h2, h3}
  Closers = {}
  MaxShows = 1
  MaxDrafts = 1
  MaxInvites = 2
  MaxBattles = 2
  MaxGifts = 0
  Queuers = {}
  Gifted = {}
  CanCrash = FALSE
  Random = {h1, h2, h3}
SYMMETRY Interchangeable
SPECIFICATION PkSpec
INVARIANTS OneBattlePerHost
CHECK_DEADLOCK FALSE
