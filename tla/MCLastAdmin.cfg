SPECIFICATION Spec
CONSTANTS
    Request = {r1, r2}
    Conn = {c1}
    Roles = {"admin", "viewer"}
    Name = {"anna", "boris"}
    NameOf <- Names
    Founders = 2
    MaxUsers = 3
    MaxSessions = 2
    MaxChanges = 2
INVARIANT LastAdminProtected
CHECK_DEADLOCK FALSE
