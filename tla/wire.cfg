SPECIFICATION WireSpec
CONSTANT Parts = {"packets", "parameters", "pieces", "sections", "crypto", "versions", "resumption", "early"}
INVARIANTS  PromisesKept  SectionsRoundTrip HelloIsWhole  ResumptionSound
CHECK_DEADLOCK FALSE
