CONSTANTS
    NModules = 2
    Circumstances = {
        {"auto", "start", "eager", "byPower"},
        {"auto", "start", "brief", "stale", "byPlug"},
        {"start", "client", "byPlug"},
        {"auto", "client", "eager", "brief", "byPower"}}
    MaxChanges = 3
SPECIFICATION Spec
INVARIANTS StartedAtBoot
PROPERTIES EmptySlotIsCut PowerIsReported PlugIsReported ChargeFollows
