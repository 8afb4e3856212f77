SPECIFICATION Spec
CONSTANTS
    root = root
    d = d
    f = f
    secrets = secrets
    old = old
    new = new
    h1 = h1
    h2 = h2
    h3 = h3
    Helpers = {h1, h2, h3}
    Root = root
    Paths = {d, f, secrets}
    Parent <- MCParent
    Secrets = secrets
    Files0 = {secrets}
    Tokens = {old, new}
    Texts = {"lines", "other"}
    Start <- MCStart
    Written <- MCWritten
    MaxFaults = 1
    MaxLosses = 1
SYMMETRY Symmetry
INVARIANTS
    WholeContents
    AnsweredIsDurable
CHECK_DEADLOCK FALSE
