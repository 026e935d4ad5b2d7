SPECIFICATION MCSpec
CONSTANTS
    Window = 16
    AddressSpace = 64
    Files <- MCFiles
    Options <- MCOptions
    Stores <- MCStores
    Cycles = 3
    ChBase = 32
    ChWords = 4
    Arguments <- MCArguments
    Unset = Unset
    Word = 1024
    ElfBase = 512
    Corpus <- MCCorpus
    Builds <- MCBuilds
    Exceptions <- MCExceptions
    Jobs = 2
    Fresh = TRUE
    Nothing = Nothing
    Units = {"host", "config", "gate"}
INVARIANTS
    MemoryIsFlat
    ExitMatchesMemory
    SameImage
    NothingIsIgnored
    BuiltAsAsked
    VerdictIsTrue
    FaultIsError
    ExitTellsAll
PROPERTIES
    GateReturns
\* A run of a program or of a runner that has ended stays ended.
CHECK_DEADLOCK FALSE
