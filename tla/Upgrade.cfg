CONSTANTS
    Callers = {c1, c2}
    Runners = {c1, c2}
    ApiOps = {"run"}
    MaxCreate = 3
    Drivers = {"Gd32f305rb", "RkGd32f310g8", "Gd32f330r8", "mtGd32f310g8", "At32f407rc"}
    Clients = {c1, c2}
    Paces = {"any", "rested"}
    MaxRequests = 3
SPECIFICATION UpgradeSpec
INVARIANTS PatientNotLost RunningOnlyInBody OneWriter
PROPERTIES PatientAnswered
CHECK_DEADLOCK FALSE
