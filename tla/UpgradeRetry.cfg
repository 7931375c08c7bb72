CONSTANTS
    Callers = {c1, c2}
    Runners = {c1, c2}
    ApiOps = {"run"}
    MaxCreate = 2
    Drivers = {"Gd32f305rb", "RkGd32f310g8"}
    Clients = {c1, c2}
    Paces = {"any"}
    MaxRequests = 2
SPECIFICATION UpgradeSpec
PROPERTIES Answered
CHECK_DEADLOCK FALSE
