SPECIFICATION TcpSpec
INVARIANT AcceptGivesNewSocket
CHECK_DEADLOCK FALSE
