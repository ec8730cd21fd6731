\* One window, numbers that wrap round, gaps, duplicates, a list that is full.
CONSTANTS
    Windows = {w1}
    MaxNode = 8
    Nodes <- MCNodes
    SeqSpace = 16
    MaxUB = 2
    NodeSize = 2
    WindowSize = 4
    MaxLen = 3
    MaxPos = 18
SPECIFICATION Spec
VIEW Contents
INVARIANTS
    TypeOK
    CountsExact
    BytesInPlace
    UBCanonical
    NodeBound
PROPERTY ImplementsReassembly
\* a stray write ends the exploration, and a host that freed its pool is done
CHECK_DEADLOCK FALSE
