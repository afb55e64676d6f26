CONSTANTS
    Collectors = {c1, c2, c3}
    Poller = poller
    Capacity = 2
    MaxJobs = 1
SPECIFICATION FairSpec
INVARIANTS
    NoSendOnClosedChannel
    AcceptedIsTried
    PollsAreNeverDiscarded
PROPERTIES
    ImplementsBuffer
    StopTerminates
    AcceptedIsHandled
    EnqueueReturns
