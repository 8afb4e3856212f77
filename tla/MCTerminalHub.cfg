SPECIFICATION FairSpec
CONSTANTS
    Users = {u1, u2}
    Shells = {s1, s2}
    Creators = {p1, p2}
    Closers = {q1}
    Nobody = Nobody
    NoShell = NoShell
    MaxSessions = 1
INVARIANTS
    TypeOK
    NoOrphan
    LimitWithRacers
PROPERTIES
    CloseReturns
    DisallowedLoseShells
