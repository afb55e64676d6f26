CONSTANTS
    hosts = hosts
    active = active
    entries = entries
    x = x
    lan = lan
    Def <- SharedHosts
    Names = {h1, h2}
    Values = {x}
    Missing = Missing
    Budget = 2
    MaxTime = 2
    MaxRows = 2
    MaxChanges = 3
    MaxScrapes = 2
SPECIFICATION FairSpec
INVARIANTS
    SeriesAreUnique
PROPERTIES
    StableListIsShown
    WholeListOrNothing
    RefusedOnlyAfterShrink
    DataIsFresh
    ScrapeEnds
