SPECIFICATION TLiveSpec
CONSTANTS
  MaxBytes = 1
  MaxSize = 3
  StreamLimits = {3}
  ConnLimits = {3}
  Others = 0
  Watermarks = {1}
  Priorities <- OnePriority
  Commits = TRUE
  ZeroRtt = FALSE
  MaxPackets = 1
  MaxLosses = 1
  MaxTokens = 1
  RecvWindow = 8
  MaxTokenLosses = 1
CHECK_DEADLOCK FALSE
PROPERTY BothEnd
