\* Two streams that are made, filled in any order, finalized and destroyed.
CONSTANTS
    Streams = {s1, s2}
    MaxNode = 5
    Nodes <- MCNodes
    SeqSpace = 64
    MaxUB = 2
    NodeSize = 5
    MaxNodes = 3
    PacketSize = 2
    FileSize = 7
    MaxArrivals = 4
    MaxLives = 3
    MaxFinals = 2
    MaxPool = 3
SPECIFICATION Spec
SYMMETRY AnyStream
INVARIANTS
    TypeOK
    PopFindsNode
    OneOwner
    PlainInPlace
    FileIsPrefix
\* the Listener died and the streams are destroyed
CHECK_DEADLOCK FALSE
