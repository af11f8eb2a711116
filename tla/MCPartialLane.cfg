SPECIFICATION BoardSpec
CONSTANTS
    LaneJob = {1, 2}
    Item = {"c1", "l1", "l2"}
    SourceOf <- MCSourceOf
    KeysOf <- MCKeysOf
    BoardQuotas <- MCQuotas
INVARIANT
    PartialStaysVisible
CHECK_DEADLOCK FALSE
