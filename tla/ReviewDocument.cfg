SPECIFICATION Spec
CONSTANTS
    Client = {c1, c2}
    Uid = {"clause1", "clause2"}
    Finding = {"row", "copy", "merged"}
    Recorded = {"row", "copy"}
    Merged = {"row", "merged"}
    IssueOf <- MCIssueOf
    ClauseOf <- MCClauseOf
    Suggests = {"row", "copy", "merged"}
    NoOne = NoOne
    Ops <- AllOps
    MaxCalls = 5
CHECK_DEADLOCK FALSE
SYMMETRY Symmetry
INVARIANTS TypeOK EditsKept VerdictKept DecidedInReview
