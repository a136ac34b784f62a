SPECIFICATION ProgramsSpec
CONSTANT Parts = {"sockets", "network", "served", "fetching", "window"}
INVARIANTS LoopIsLive SimulationIsExact  
PROPERTY WindowFollows
CHECK_DEADLOCK FALSE
