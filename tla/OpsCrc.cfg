CONSTANTS
    Limit = 1
    Halvings = {{1}, {1, 2}}
    Silences = {{}, {2}}
    Queries = {2}
    Wakings = {0, 1}
    MaxMoves <- Moves
SPECIFICATION CrcSpec
INVARIANTS EachOnce SuccessIsShown
PROPERTIES Decided GoneIsForgotten
