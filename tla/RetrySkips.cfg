SPECIFICATION FairSpec
CONSTANTS
    Paths = {1, 2, 3}
    RetryLimit = 1
    None = None
    MaxChanges = 2
INVARIANTS TypeOK EveryFileAccounted BoundedDelay
PROPERTY EventuallyCovered
