SPECIFICATION FairSpec
CONSTANTS
    Page = {p1}
    MaxToken = 2
    MaxFaults = 1
    MaxReloads = 1
CHECK_DEADLOCK FALSE
INVARIANTS TypeOK SessionKept NoTokenLeft
PROPERTY CallsEnd
