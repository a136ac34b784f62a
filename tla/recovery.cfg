SPECIFICATION Spec
CONSTANT Parts = {"loss", "paths", "spaces", "migration", "rotation", "preferred", "datagrams", "sessions"}
INVARIANTS PacketsAccounted CidsAreAccepted DatagramsAccounted
PROPERTY OneReductionPerRecovery
CHECK_DEADLOCK FALSE
