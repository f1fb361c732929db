SPECIFICATION FairSpec
CONSTANTS
    Txn = {t1, t2, t3}
    Reader = {r1}
    Batches <- MCBatches
    Terminal <- MCTerminal
    NoRow = NoRow
    MaxWork = 3
    MaxRestarts = 1
CHECK_DEADLOCK FALSE
INVARIANTS TypeOK NothingSkipped
PROPERTIES ImplementsLog Delivered
