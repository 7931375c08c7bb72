CONSTANTS
    Callers = {owner, peer}
    Runners = {owner}
    ApiOps = {"run", "exit", "exitAndJoin", "suspend", "resume"}
    MaxCreate = 3
SPECIFICATION FairSpec
PROPERTIES ExitEnds
CHECK_DEADLOCK FALSE
