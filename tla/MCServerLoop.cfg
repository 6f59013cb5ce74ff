CONSTANT MaxConn = 4
SPECIFICATION LoopSpec
INVARIANTS LoopTypeOK ActiveExact GracefulExitIsQuiet ServedInOrder
PROPERTY DoneOnLastConnEnds
CHECK_DEADLOCK FALSE
