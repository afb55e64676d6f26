CONSTANTS
    overview = overview
    energy = energy
    N = 3
    Page <- SharedPage
    TTL <- MixedTTL
    Budget = 2
    MaxTime = 3
    MaxSid = 3
    MaxScrapes = 2
SPECIFICATION FairSpec
INVARIANTS
    LoadIsBounded
PROPERTIES
    ForgottenSessionIsRenewed
    DataIsFresh
    ScrapeEnds
