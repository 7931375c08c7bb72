CONSTANTS
    Callbacks = {1, 2, 3}
    Processes = {p, q}
    MaxEvents = 2
SPECIFICATION Spec
INVARIANTS WalkIsSound
PROPERTIES DeadForgotten NobodyWaits
CHECK_DEADLOCK FALSE
