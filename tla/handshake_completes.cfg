\* Nothing is lost or late: every attempt to connect succeeds.
CONSTANTS
    h1 = h1
    h2 = h2
    h3 = h3
    Hosts <- ThreeHosts
    Links <- OneWay
    RetryCount = 3
    Faults = {}
    Calls = {}
    MaxAttempts = 2
    MaxPeid = 4
SPECIFICATION FairSpec
PROPERTY HandshakeCompletes
\* connected hosts wait
CHECK_DEADLOCK FALSE
