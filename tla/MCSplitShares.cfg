SPECIFICATION SplitSpec
CONSTANTS
    Members = {1, 2, 3}
    Outsiders = {4}
    Calls <- SmallCalls
INVARIANTS
    SharesAddUp
    RoundingIsFair
    StoredSplitReplays
CHECK_DEADLOCK FALSE
