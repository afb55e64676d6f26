CONSTANTS
    soap = soap
    query = query
    Collectors = {soap}
    Definitions <- OneDefinition
    PollerQuery = poller
    Causes = {a, b}
    Lines = {l}
    None = None
    MaxRows = 2
    Retention = 1
    MaxLog = 2
    MaxTime = 3
    MaxCommits = 4
    MaxId = 8
SPECIFICATION Spec
SYMMETRY Symmetry
INVARIANTS
    KeysAreUnique
    OpenIncidentsAreTrue
    FailuresAreOpen
    RecoveriesAreReal
    CommittedLogIsArchived
    LastPollIsTrue
