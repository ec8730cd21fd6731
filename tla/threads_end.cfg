\* A host that connects, flushes its queue and is destroyed at any moment.
CONSTANTS
    RetryCount = 2
    MaxAttempts = 2
SPECIFICATION FairSpec
INVARIANTS
    TypeOK
    ListenerUsesLive
    PoolsOutliveThreads
    
PROPERTIES
    WorkersEnd
    EndsUnlessMissed
\* the host is gone, or its destructor waits for a thread that never ends
CHECK_DEADLOCK FALSE
