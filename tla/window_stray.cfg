CONSTANTS
    Windows = {w1}
    MaxNode = 8
    Nodes <- MCNodes
    SeqSpace = 16
    MaxUB = 2
    NodeSize = 2
    WindowSize = 4
    MaxLen = 3
    MaxPos = 18
SPECIFICATION Spec
VIEW Contents
INVARIANT NoStrayWrite
\* a stray write ends the exploration, and a host that freed its pool is done
CHECK_DEADLOCK FALSE
