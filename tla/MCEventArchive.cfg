CONSTANTS
    soap = soap
    query = query
    Collectors = {soap}
    Definitions <- OneDefinition
    PollerQuery = poller
    Causes = {a, b}
    Lines = {l}
    None = None
    MaxRows = 2
    Retention = 1
    MaxLog = 2
    MaxTime = 2
    MaxCommits = 3
    MaxId = 8
    Capacity = 2
    MaxReports = 3
SPECIFICATION ArchiveSpec
SYMMETRY Symmetry
INVARIANTS
    CommittedIsReported
    ArchiveAgreesWithLastReport
PROPERTIES
    ImplementsStore
