SPECIFICATION HttpSpec
CONSTANT Parts = {"messages", "http", "session", "writer", "events"}
INVARIANTS MessagesArrive  
CHECK_DEADLOCK FALSE
