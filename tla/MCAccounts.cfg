SPECIFICATION FairSpec
CONSTANTS
    Request = {r1, r2}
    Conn = {c1}
    Roles = {"admin", "viewer"}
    Name = {"anna", "boris"}
    NameOf <- Names
    Founders = 2
    MaxUsers = 3
    MaxSessions = 2
    MaxChanges = 2
INVARIANTS
    TypeOK
    AdminRemains
    SessionsAreCurrent
PROPERTY AccessLostIsNoticed
CHECK_DEADLOCK FALSE
