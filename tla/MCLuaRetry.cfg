CONSTANTS
    overview = overview
    energy = energy
    N = 3
    Page <- SharedPage
    TTL <- MixedTTL
    Budget = 2
    MaxTime = 3
    MaxSid = 2
    MaxScrapes = 2
SPECIFICATION Spec
INVARIANTS
    UnexpectedErrorIsRetried
