SPECIFICATION ConnectionSpec
CONSTANT Parts = {}
INVARIANT HandshakeSafe
PROPERTY ConnectionProgresses
CHECK_DEADLOCK FALSE
