SPECIFICATION FairSpec
CONSTANTS
    Interval = {500, 30000}
    Workers = {2, 7}
    Timeout = {60}
    MaxExits = 2
CHECK_DEADLOCK FALSE
INVARIANTS
    TypeOK
    ReadyMeansServing
    WorksAsConfigured
PROPERTY
    StandbyBecomesReady
