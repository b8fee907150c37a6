SPECIFICATION HeapSpec
CONSTANTS
    HeapStart = 8
    HeapSize = 12
    NodeSize = 4
    NodeAlign = 2
    Layouts <- MCLayouts
    BlockSizes <- MCBlockSizes
INVARIANTS
    RegionsApart
    OnlyGapsAreLost
    NodesFit
    BlocksPartitionHeap
PROPERTY ImplementsGlobalAlloc
CHECK_DEADLOCK FALSE
