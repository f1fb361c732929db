SPECIFICATION FairSpec
CONSTANTS
    Worker = {w1, w2}
    Doc <- MCDoc
    Hash = {"h1", "h2"}
    HashOf <- MCHashOf
    NoDoc = NoDoc
    MaxFaults = 2
CHECK_DEADLOCK FALSE
INVARIANTS TypeOK CorpusComplete OneIngestion
PROPERTY JobsEndOrLost
