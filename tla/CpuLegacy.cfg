SPECIFICATION Spec
CONSTANTS
    WordCount = 4
    RegCount = 3
    DivSteps = 2
    NThreads = 1
    MulImpl = "LEGACY"
    AluFn <- MCAluFn
    Alu <- MCAlu
    MulDiv <- MCMulDiv
    Programs <- DataPrograms
    StageOrder <- Order5
INVARIANT MOpResult
