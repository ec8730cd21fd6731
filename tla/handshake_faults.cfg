\* Two hosts that connect to each other; datagrams come late or never, pre-peers
\* time out, and the applications accept, decline, remove and flush.
CONSTANTS
    h1 = h1
    h2 = h2
    h3 = h3
    Hosts <- TwoHosts
    Links <- BothWays
    RetryCount = 2
    Faults = {"lose", "delay", "age", "wakeup"}
    Calls = {"accept", "remove", "flush"}
    MaxAttempts = 1
    MaxPeid = 2
SPECIFICATION Spec
CONSTRAINT FewInFlight
SYMMETRY Swap
INVARIANTS
    TypeOK
    HandshakeOrder
    RolesComplementary
    PeidsMatchPeers
    
\* hosts without datagrams and retries wait
CHECK_DEADLOCK FALSE
