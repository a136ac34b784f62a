SPECIFICATION TablesSpec
CONSTANT Parts = {"groups"}
INVARIANT GroupsTakeTurns
CHECK_DEADLOCK FALSE
