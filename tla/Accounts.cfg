CONSTANTS
  u1 = u1
  u2 = u2
  k1 = k1
  k2 = k2
  k3 = k3
  Members = {u1, u2}
  Creators = {k1, k2, k3}
  UserOf <- MCUserOf
  Tiers = {"starter", "team"}
  Starter = "starter"
  UserLimit <- MCUserLimit
  OrgLimit <- MCOrgLimit
  Retention <- MCRetention
  PerSeat = 1
  SeatCap = 1
  MaxAge = 1
  Window = 3
  Limit = 2
  TicksPerSecond = 2
  Draws = {1}
  MaxTime = 7
  Tabs = {"t1", "t2"}
  MaxPassword = 3
  Admins = {"a1", "a2"}
  People = {"a1", "a2", "m"}
  Servers = {"s1", "s2"}
  Legacy = "s1"
  MaxLogins = 2
  MaxBuilds = 4
  Runs = {1, 2}
  MaxTokens = 2
  Ttl = 2
  Renewal = 1
  MaxTicks = 4
  Base = 4
  MaxId = 6
  MaxCols = 20
  MaxRows = 13
  Letters = {1}
  Mark <- MCMark
  Ids <- MCIds
  Payloads <- MCPayloads
  Sizes <- MCSizes
SPECIFICATION Spec
INVARIANTS WindowKept KeysFollowPassword GrantedKeysAgree OneLogin SocketsFollowTab AccessFollowsLogin FramesSurvive
PROPERTIES LimitsKept KeptForRetention
CHECK_DEADLOCK FALSE
