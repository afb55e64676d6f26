CONSTANTS
    soap = soap
    query = query
    Collectors = {soap}
    Definitions <- OneDefinition
    PollerQuery = poller
    Causes = {a}
    Lines = {l}
    None = None
    MaxRows = 3
    Retention = 1
    MaxLog = 1
    MaxTime = 3
    MaxCommits = 3
    MaxId = 6
SPECIFICATION Spec
INVARIANTS
    LinesAreKeptSinceLastObservation
