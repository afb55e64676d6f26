CONSTANTS
    soap = soap
    api = api
    a = a
    b = b
    c = c
    Collectors = {soap, api}
    LinesOf <- TwoAndOne
    None = None
    Limit = 2
    MaxCalls = 3
SPECIFICATION FairSpec
INVARIANTS
    NothingIsForgotten
    OncePerWindow
PROPERTIES
    RepeatsAreSummarised
