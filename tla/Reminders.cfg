SPECIFICATION FairSpec
CONSTANTS
    Users = {"ann", "bob"}
    Debtors = {"ann"}
    Things = {"long"}
    LongTitles = {"long"}
    Reminders = {"r1", "r2"}
    Procs = {"p1"}
    BatchSize = 1
    MaxTime = 2
    MaxQueued = 1
    Unscheduled = Unscheduled
    Deleted = Deleted
    NoNotice = NoNotice
INVARIANTS
    StatusTellsTruth
PROPERTIES
    NoticesOnlySettle
    NeverEarly
    
