SPECIFICATION Spec
CONSTANTS
    Root <- MCRoot
    Records <- MCRecords
    Names <- MCNames
    NewNames = {"a", "e"}
    NameLen <- MCNameLen
    NameBytes <- MCNameBytes
    Shown <- MCShown
    Fold <- MCFold
    Payloads <- MCPayloads
    Volumes <- MCVolumes
    MftCluster = 4
    BytesPerCluster = 512
    Paths <- MCPaths
    FsAt <- MCFsAt
    Begins <- MCBegins
    ReadSizes = {600}
    MaxFds = 1
INVARIANTS
    NoDanglingEntry
    NoForeignTail
    LookupFindsCreated
    HandleFitsFile
PROPERTIES
    FilesKept
    ImplementsFileTree
CHECK_DEADLOCK FALSE
