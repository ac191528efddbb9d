CONSTANTS
  r1 = r1
  r2 = r2
  r3 = r3
  r4 = r4
  u1 = u1
  u2 = u2
  c1 = c1
  c2 = c2
  small = small
  big = big
  Requests = {r1}
  Users = {u1, u2}
  Receipts = {c1, c2}
  Packs = {small, big}
  UserOf <- Account
  ReceiptOf <- Receipt
  PackOf <- OnePack
  Coins <- CoinsOf
  Once = {}
  Levels = {1, 2}
  MaxTries <- R1Twice
  MaxCrashes = 1
SPECIFICATION Spec
INVARIANTS RetryCompletes
CHECK_DEADLOCK FALSE
