SPECIFICATION Spec
CONSTANTS
    Conns = {c1, c2}
    NoConn = NoConn
    Scrollback = 1
    BufCap = 1
    MaxOut = 2
INVARIANTS
    TypeOK
    AttachedOpen
    NoGap
    CodeIsTrue
    LastOutputShown
PROPERTIES
    ImplementsFeed
    ShellLeavesHub
    ConnectionEnds
CHECK_DEADLOCK FALSE
