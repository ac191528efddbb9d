CONSTANTS
  r1 = r1
  r2 = r2
  r3 = r3
  r4 = r4
  u1 = u1
  u2 = u2
  c1 = c1
  c2 = c2
  small = small
  big = big
  Requests = {r1, r2, r3, r4}
  Users = {u1, u2}
  Receipts = {c1, c2}
  Packs = {small, big}
  UserOf <- TheUserOf
  ReceiptOf <- TheReceiptOf
  PackOf <- ThePackOf
  Coins <- TheCoins
  Once = {big}
  Levels = {1, 2}
  MaxTries <- TheMaxTries
  MaxCrashes = 1
  Devices = {"phone", "tablet"}
  NCalls = 2
  MaxTokens = 3
  MaxLosses = 1
  MaxOrders = 1
  Gifters = {"small", "large"}
  Cost <- TheCost
  Setters = {"first", "second"}
  Asks <- TheAsks
  NoCap = 9
  Delay = 1
  Short = 1
  Long = 2
  MaxAsks = 3
  MaxNow = 2
  Acts <- TheActs
  Deed <- TheDeed
  Casts <- TheCasts
  Reports = {1, 2}
  AboutRoom = {2}
  PhotoNeeded = TRUE
  MaxLog = 4
  Gifts = {"rose", "kite"}
  Price <- ThePrice
  Purse = 3
  MaxTaps = 3
  MaxSends = 3
  People = {"ann", "ben", "cat"}
  Phone <- ThePhone
  Bannable = {"ann"}
  Claimers <- TheClaimers
  Wants <- TheWants
  Scenes <- TheScenes
  Ladder = 2
  WatchCap = 2
  TaskTarget = 2
  Sockets <- TheSockets
  OwnerOf <- TheOwnerOf
  Guests = {}
  Rooms <- TheRooms
  HostOf <- TheHostOf
  Places = {1, 2}
  Handlers <- TheHandlers
  Messages <- TheMessages
  Episodes <- TheEpisodes
  HistorySize = 1
  MaxRepaid = 1
  Interval = 2
  Accrual = 2
  DayLength = 4
  Items <- TheItems
  Kind <- TheKind
  Days <- TheDays
  Bundle <- TheBundle
  LevelItems = {"elm"}
  Leaving = {"gold"}
  Orders <- TheOrders
  Wish <- TheWish
  LastWear = 2
SPECIFICATION ServicesSpec
INVARIANTS TypeOK OneReceiptOneCredit CountersFollowLedger
  NobodyStuck GiftsHold OvershootBounded
  RewardsHold GatewayHolds
PROPERTIES SessionsHold BrakesHold WardrobeHolds StandingHolds
CHECK_DEADLOCK FALSE
