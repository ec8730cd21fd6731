\* Two windows, created and freed, that share the pool of recycled nodes.
CONSTANTS
    Windows = {w1, w2}
    MaxNode = 8
    Nodes <- MCNodes
    SeqSpace = 12
    MaxUB = 1
    NodeSize = 2
    WindowSize = 3
    MaxLen = 2
    MaxPos = 5
SPECIFICATION Spec
VIEW Contents
INVARIANTS
    NodesOwnedOnce
    BytesInPlace
\* a stray write ends the exploration, and a host that freed its pool is done
CHECK_DEADLOCK FALSE
