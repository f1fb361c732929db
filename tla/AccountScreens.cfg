SPECIFICATION AccountSpec
CONSTANTS
    MaxActs = 3
    MaxLoads = 2
CHECK_DEADLOCK FALSE
INVARIANTS AccountTypeOK RowsMatch FormTruthful
