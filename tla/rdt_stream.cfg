\* Two uploads over a network that delays, repeats and reorders.
CONSTANTS
    SeqSpace = 64
    MaxUB = 2
    NodeSize = 3
    DataSize = 2
    WindowSize = 4
    LostSpace = 4
    Leftovers = {0, 62}
    OldCounts = {1, 3}
    MaxUploads = 2
    MaxUpload = 4
    Lengths = {1, 4}
SPECIFICATION FairSpec
INVARIANTS
    TypeOK
    DeliveredIntact
    
    NeverAheadOfSender
PROPERTY FirstUploadArrives
\* everything was sent and read
CHECK_DEADLOCK FALSE
