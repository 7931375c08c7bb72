CONSTANTS
    Callers = {main, reader, p1, p2}
    Runners = {main}
    ApiOps = {"run", "suspend", "resume"}
    MaxCreate = 1
    Main = main
    Reader = reader
    Posters = {p1, p2}
    Handlers = {1, 2}
    MaxPost = 3
SPECIFICATION HubFairSpec
INVARIANTS NoLostWakeup
PROPERTIES ImplementsChannel
CHECK_DEADLOCK FALSE
