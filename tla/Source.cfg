CONSTANTS
    Android = android
    Inputs = {hdmi, ops, dp}
    SwitchPorts = {hdmi, ops}
    Unset = unset
    Junk = junk
    Circumstances = {{"overlap"}, {"boot", "stack"}}
    MaxRequests = 3
SPECIFICATION Spec
INVARIANTS LastIsFollowed PortIsSelectedOnceUp Rx5vIsUp
PROPERTIES Settles
CHECK_DEADLOCK FALSE
