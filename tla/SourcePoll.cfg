CONSTANTS
    dp = dp
    usbc = usbc
    ops = ops
    Android = android
    Inputs = {dp, usbc, ops}
    SwitchPorts = {dp}
    Unset = unset
    Junk = junk
    Circumstances = {{}}
    MaxRequests = 3
    Dp1 = dp
    Cables = {dp}
    TypeC = {usbc}
    Ops = {ops}
    Delay = 1
    BootDelay = 2
    Worlds <- MCWorlds
    MaxChanges = 1
SPECIFICATION PollSpec
PROPERTIES Rx5vSettles SignalReported UacSettles UacNotEarly
CHECK_DEADLOCK FALSE
