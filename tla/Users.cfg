\* Each part with its own actors.  Updates, changes, rows and deaths run out, so the
\* system may stop.
SPECIFICATION UsersSpec
CONSTANTS
  r1 = r1
  r2 = r2
  s1 = s1
  g1 = g1
  g2 = g2
  Bot = Bot
  o1 = o1
  o2 = o2
  o3 = o3
  a = a
  b = b
  user1 = user1
  user2 = user2
  Updates = {"u1", "u2"}
  BotUsers = {user1, user2}
  Handlers = {"u1", "u2"}
  NoAnswer = NoAnswer
  Lifetime <- CacheLifetime
  BotCasts <- CacheCasts
  MaxVersion = 1
  MaxTokens = 2
  MaxNow = 2
  Messages = {"m1", "m2"}
  None = None
  IntegrationIds = {1}
  Casts <- ChatCasts
  Services = {s1}
  TxService <- OneService
  Generators = {g1, g2}
  OutboxCasts <- NotificationCasts
  Unset = Unset
  Limit = 1
  MaxItems = 2
  MaxChanges = 4
  Organizations = {o1, o2, o3}
  Redeemers = {r1, r2}
  NoOrganization = NoOrganization
  MaxRedemptions = 2
  Accounts = {a, b}
  RowIds = {1, 2, 3, 4}
  Creators = {r1, r2}
  Absent = Absent
  Limits = {1, 2}
  Users = {user1, user2}
  SignIns = {r1, r2}
  NoUser = NoUser
  MaxDeaths = 1
CHECK_DEADLOCK FALSE
INVARIANTS
  ShownIsCurrent InputWhenAsked ActedOnce
  NothingPassedOver LastWord DeliveredOnce
  RewardedOnce
  WithinLimit
  Consistent
  
PROPERTIES NoOldNews
