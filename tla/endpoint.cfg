SPECIFICATION Spec
CONSTANTS
  Parts = {"recv", "acks", "rate", "keys", "mtu", "moving", "ecn", "idle", "pacing"}
  MaxOffset = 3
  Window = 2
  SessionWindow = 2
  Errors = {1, 2}
  MaxTokens = 1
  MaxTokenLosses = 1
  MAX_TRACKED_RANGES = 2
  MaxNumber = 5
  MaxFrames = 1
  Frequencies <- SmallFrequencies
  Rates <- SmallRates
  InitialRate <- SmallRate
  MaxRequests = 4
  WriteLimit = 3
  ReadLimit = 9
  UPDATE_WRITE_KEYS_AT = 1
  Pto <- SmallPto
  ZeroRtt = {"server"}
  MaxKeyPn = 3
  MaxEpoch = 5
  MaxTime = 2
  SEARCH_TABLE_LEN = 4
  MAX_PROBES = 2
  Limits = {2, 3, 4}
  LoneMtu = 3
  MaxSentAlone = 5
  Paths = {1, 2}
  PathMtu <- SmallPathMtu
  MaxSent = 3
  TEST_COUNT = 2
  TEST_COUNT_INITIAL_PHASE = 2
  Modes = {"keeps", "clears", "changes", "drops"}
  MaxPn = 3
  MaxAcks = 2
  MaxMigrations = 1
  Timeouts = {3, 12, 13}
  IdlePto = 3
  Delay = 1
  MaxLosses = 3
  Mtus = {2, 3, 5}
  Burst = 2
  Rtts = {2, 5}
  Cwnds = {10, 16}
  GRANULARITY = 2
  MaxElapsed = 5
INVARIANTS ReaderIsTold AcksReachThePeer   EcnVerdictIsRight KeptAlive  DebtIsBounded
PROPERTY FinalSizeStays
CHECK_DEADLOCK FALSE
