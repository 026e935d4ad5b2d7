SPECIFICATION FairSpec
CONSTANTS
    WordCount = 4
    RegCount = 3
    DivSteps = 2
    NThreads = 1
    MulImpl = "FSM"
    AluFn <- MCAluFn
    Alu <- MCAlu
    MulDiv <- MCMulDiv
    Programs <- AllPrograms
    StageOrder <- Order7
INVARIANTS
    FrozenWhileBusy
PROPERTIES
    ImplementsIsa
    MOpCompletes
