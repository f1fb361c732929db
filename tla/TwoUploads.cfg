SPECIFICATION Spec
CONSTANTS
    MaxUploads = 2
    MaxTurns = 1
CONSTRAINT NoneReviewed
CHECK_DEADLOCK FALSE
INVARIANTS ShownTruthfully 
