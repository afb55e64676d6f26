CONSTANTS
    collection = collection
    poller = poller
    Callers = {collection, poller}
    Credentials = TRUE
    Unsupported <- NoDigest
    MaxNonce = 3
SPECIFICATION FairSpec
INVARIANTS
    RunsAtMostOnce
PROPERTIES
    RefusedOnlyAfterChange
    CallReturns
