SPECIFICATION Spec
CONSTANT Parts = {"tracker", "orderer", "data", "credit"}
INVARIANT NothingForgotten
PROPERTIES RangesImplementBytes StreamSteps
CHECK_DEADLOCK FALSE
