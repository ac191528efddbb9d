CONSTANTS
  Hosts = {h1, h2, h3, c1, c2}
  Taps = {t1}
  Matcher = matcher
  StartOnAir = {h1, h2, h3, c1}
  Closers = {c2}
  MaxShows = 1
  MaxDrafts = 1
  MaxInvites = 1
  MaxBattles = 2
  MaxGifts = 1
  Queuers = {h1, h2, h3}
  Gifted = {c1, c2}
  CanCrash = TRUE
  Random = {h1, h2, h3}
SYMMETRY Interchangeable
SPECIFICATION ScenesSpec
INVARIANTS StartsAreSound
PROPERTIES AnswerIsFinal ResultIsFinal
CHECK_DEADLOCK FALSE
