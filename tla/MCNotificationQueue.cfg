SPECIFICATION FairSpec
CONSTANTS
    web = web
    web2 = web2
    Subjects = {web}
    NoSubject = NoSubject
    Like <- LikeSelf
    Recipients = {1, 2}
    MaxRetry = 2
    MaxEvents = 1
    MaxDoubts = 2
    MaxFaults = 1
INVARIANTS
    TypeOK
    NoNeedlessDuplicate
    SummaryIsTrue
    InFlight
PROPERTIES
    ImplementsOutbox
    DeliveriesSettle
CHECK_DEADLOCK FALSE
