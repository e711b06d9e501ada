SPECIFICATION FairSpec
CONSTANTS
    None = None
    Workers = {w1, w2}
    a = a
    b = b
    l = l
    Paths <- MCPaths
    Info <- MCInfo
    KnownArchs = {"qwen2vl", "llama"}
    RequiresVision = {"qwen2vl"}
    MayHaveVision = {"gemma3"}
    RequiresNothing = {"llama"}
    Runtimes <- MCRuntimes
    Beneath <- MCBeneath
    Listed <- MCListed
    Operations <- MCOperations
    InitialDisk <- MCDisk
    Changing = {a, b}
    MaxOperations = 3
    MaxIncidents = 1
INVARIANTS
    FreshVerdictsAreOfRuntime
PROPERTIES
    MissingHasReason
    CompleteScanIsTruth
    BusyEnds
CHECK_DEADLOCK FALSE
