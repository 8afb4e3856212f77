SPECIFICATION Spec
CONSTANTS
    Container = {web}
    Unit = {nginx}
    Disk = {}
    Host = {cpu}
    MaxRestarts = 1
    MaxFaults = 1
INVARIANTS
    TypeOK
    OpenAlertsKnown
PROPERTY WellIsResolved
