SPECIFICATION MCSpec
CONSTANTS
    Window = 16
    AddressSpace = 64
    Files <- MCFiles
    Options <- MCOptions
    Stores <- MCStores
    Cycles = 3
    ChBase = 32
    ChWords = 4
    Arguments <- MCArguments
    Unset = Unset
    Word = 1024
    ElfBase = 512
    Corpus <- MCCorpus
    Builds <- MCBuilds
    Exceptions <- MCExceptions
    Jobs = 1
    Fresh = FALSE
    Nothing = Nothing
    Units = {"gate"}
INVARIANTS
    FaultIsError
CHECK_DEADLOCK FALSE
