\* One stream, a file longer than a node.
CONSTANTS
    Streams = {s1}
    MaxNode = 5
    Nodes <- MCNodes
    SeqSpace = 64
    MaxUB = 2
    NodeSize = 5
    MaxNodes = 3
    PacketSize = 2
    FileSize = 7
    MaxArrivals = 4
    MaxLives = 1
    MaxFinals = 2
    MaxPool = 3
SPECIFICATION Spec
PROPERTY FinalizeFlushesAll
CHECK_DEADLOCK FALSE
