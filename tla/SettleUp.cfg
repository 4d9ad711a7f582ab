SPECIFICATION SettleSpec
CONSTANTS
    Users = {1, 2, 3, 4}
    MaxBalance = 6
INVARIANTS
    SuggestionsArePlan
    OnlySmallChangeLeft
PROPERTIES
    EveryPaymentSettles
    SettlesInTheEnd
CHECK_DEADLOCK FALSE
