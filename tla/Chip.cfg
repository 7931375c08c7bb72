CONSTANTS
    Callers = {app}
    Runners = {app}
    ApiOps = {"run"}
    MaxCreate = 3
    Chips = {"Rts5450M", "Cs5803aq", "Csv5363", "Ite6563", "Ap8224", "Ap8232", "Hl817", "Gsv2712"}
    Paces = {"any", "rested"}
    MaxRequests = 3
SPECIFICATION ChipSpec
INVARIANTS LastIsTried SoundRunning Undisturbed
PROPERTIES CallReturns
CHECK_DEADLOCK FALSE
