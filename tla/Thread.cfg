CONSTANTS
    Callers = {owner, peer}
    Runners = {owner}
    ApiOps = {"run", "exitAndJoin", "destroy", "suspend", "resume"}
    MaxCreate = 3
SPECIFICATION FairSpec
INVARIANTS OneBody NoLoopAfterDestroy OnceRunsOnce
PROPERTIES JoinReturns ResumeStarts
CHECK_DEADLOCK FALSE
