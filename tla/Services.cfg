SPECIFICATION ServicesSpec
CONSTANTS
  \* signing
  SignRequests = {r1}
  Operators = {u1, u2, u3}
  Requesters = {u1}
  SignCalls = {c1, c2}
  KeyIds = {k1, k2}
  NewKeyIds = {k2}
  NoKey = NoKey
  NoRequest = NoRequest
  HsmBackend = TRUE
  SignAmounts = {2, 4}
  maxAmountPerTx = 3
  maxAmountPerWindow = 3
  windowSeconds = 2
  requiredApprovals = 2
  MaxSignClock = 0
  \* sessions
  SessionIds = {s1, s2, s3}
  AuthCalls = {c1, c2}
  NoSession = NoSession
  maxFailedLoginAttempts = 1
  \* members and API keys
  AccUsers = {u1, u2}
  FirstOwner = u1
  ApiKeyIds = {k1}
  AccCalls = {c1, c2}
  \* idempotency keys
  IdemKeys = {k1}
  IdemBodies = {"x", "y"}
  IdemCalls = {c1, c2, c3}
  MaxRuns = 2
  \* rate limiter
  rateLimit = 2
  windowTicks = 2
  MaxRateClock = 4
  MaxHits = 4
  \* chain adapters
  HasFallback = TRUE
  Polls = {p1, p2}
  MaxBlocks = 4
  MaxRpcFaults = 1
  \* exchange rates
  RATE_SCALE = 2
  FxCalls = {c1, c2}
  exchangeRateProviders <- MCProviders
  rateMaxAge = 1
  rateCacheTtl = 3
  Prices <- MCPrices
  Amounts <- MCAmounts
  currencyDecimals = 2
  assetDecimals = 1
  MaxFxClock = 4
  \* ledger
  Credits = {p1, p2}
  Grosses = {1}
  feeBps = 5000
  LedgerWorkers = {w1}
  maxRetries = 0
  MaxSequence = 6
  MaxAlterations = 1
  MaxLedgerRuns = 2
  \* back office
  Merchants = {m1, m2}
  Pagers = {p1}
  DecisionCalls = {c1}
  Admins = {u1}
  DEFAULT_PAGE_LIMIT = 1
  MAX_PAGE_LIMIT = 2
  NoLimit = NoLimit
  NoFilter = NoFilter
  MaxRows = 3
  \* processes
  WatchedNetworks = {"ethereum", "bitcoin"}
  HttpRequests = {p1, p2}
INVARIANTS
  ServicesTypeOK
  SignatureHasQuorum
  SignedIsAccounted
  CookieIsLive
  OwnerRemains
  OneEffectPerKey
  BurstBounded
  AnswersAreTrue
  DiscoveryComplete
  PriceIsFresh
  PricedInFull
  AlarmsAreExact
  PagesComplete
PROPERTIES
  SuspensionBites
  PromotedByOwner
  RevocationBites
  KeyIsReleased
  RetryAfterKept
  PollingCatchesUp
  DrainsCleanly
CHECK_DEADLOCK FALSE
