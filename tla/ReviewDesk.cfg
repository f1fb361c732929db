SPECIFICATION FairSpec
CONSTANTS
    MaxActs = 2
    MaxOthers = 1
    MaxFaults = 1
CHECK_DEADLOCK FALSE
INVARIANTS TypeOK ConfirmedOnly
PROPERTIES Converges
