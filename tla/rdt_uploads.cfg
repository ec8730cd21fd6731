\* Two short uploads, one after the other; they fit into the first node.
CONSTANTS
    SeqSpace = 64
    MaxUB = 2
    NodeSize = 5
    DataSize = 2
    WindowSize = 3
    LostSpace = 4
    Leftovers = {0}
    OldCounts = {5}
    MaxUploads = 2
    MaxUpload = 2
    Lengths = {1, 2}
SPECIFICATION FairSpec
PROPERTY UploadArrives
CHECK_DEADLOCK FALSE
