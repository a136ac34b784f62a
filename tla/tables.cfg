SPECIFICATION TablesSpec
CONSTANT Parts = {"bidi", "committed", "uni", "calls", "turns", "groups"}
INVARIANT StreamsKept
 
CHECK_DEADLOCK FALSE
