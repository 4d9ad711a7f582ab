SPECIFICATION FairSpec
CONSTANTS
    NoDelivery = NoDelivery
    Mails = {"invitation", "reminder"}
    Workers = {"w1", "w2"}
    MaxRetries = 1
    BatchSize = 1
    MaxFaults = 1
INVARIANTS
    CopiesArePaidFor
PROPERTIES
    SentIsFinal
    NoMailIsLost
