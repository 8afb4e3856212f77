SPECIFICATION Spec
CONSTANTS
    web = web
    db = db
    v = v
    Requests = {h1, h2}
    Refs <- MCRefs
    NoTag = NoTag
    Latest = Latest
    Bodies <- MCBodies
    Volumes = {v}
    Networks = {"bridge"}
    Nothing = Nothing
    Limit = 2
    MaxPulls = 4
    MaxFaults = 1
INVARIANTS
    RegistryIsTrue
    ChangesAreAudited
PROPERTY
    PullsFinish
CHECK_DEADLOCK FALSE
