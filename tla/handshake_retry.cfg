\* A datagram is lost while the Connecter waits.
CONSTANTS
    h1 = h1
    h2 = h2
    h3 = h3
    Hosts <- TwoHosts
    Links <- ThereOnly
    RetryCount = 3
    Faults = {"lose"}
    Calls = {}
    MaxAttempts = 1
    MaxPeid = 2
SPECIFICATION FairSpec
PROPERTY AttemptResolved
CHECK_DEADLOCK FALSE
