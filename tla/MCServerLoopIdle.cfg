CONSTANT MaxConn = 2
SPECIFICATION LoopSpec
PROPERTY IdleServerExits
CHECK_DEADLOCK FALSE
