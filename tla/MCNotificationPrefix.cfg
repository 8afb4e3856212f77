SPECIFICATION Spec
CONSTANTS
    web = web
    web2 = web2
    Subjects = {web, web2}
    NoSubject = NoSubject
    Like <- LikePrefix
    Recipients = {1}
    MaxRetry = 1
    MaxEvents = 3
    MaxDoubts = 0
    MaxFaults = 0
PROPERTY RecoveriesIndependent
CHECK_DEADLOCK FALSE
