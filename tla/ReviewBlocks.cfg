SPECIFICATION Spec
CONSTANTS
    Worker = {w1, w2}
    Issue = {"issue1", "issue2"}
    TypeOf <- MCTypeOf
    HarveyReports <- MCHarveyReports
    KiraReports <- MCKiraReports
    MaxRounds = 2
    MaxExecutions = 3
CHECK_DEADLOCK FALSE
INVARIANTS TypeOK PeerApproved NeverZeroed OutputsRecorded
