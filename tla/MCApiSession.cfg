CONSTANTS
    box = box
    wlan = wlan
    N = 3
    Endpoint <- SharedEndpoint
    TTL <- MixedTTL
    Budget = 2
    MaxTime = 4
    MaxSid = 4
    MaxScrapes = 2
SPECIFICATION FairSpec
INVARIANTS
    LoginsAreNeeded
    CacheIsOfThisSession
    ForgottenSessionIsRenewed
    OneLoadPerScrape
PROPERTIES
    DataIsFresh
    ScrapeEnds
