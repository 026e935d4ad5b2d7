SPECIFICATION Spec
CONSTANTS
    WordCount = 4
    RegCount = 2
    BtbEntries = 2
    EnableBp = TRUE
    BpUncond = TRUE
    AluFn <- MCAluFn
    Alu <- MCAlu
    MulDiv <- MCMulDiv
    Programs <- MCPrograms
    Zicsr <- MCZicsr
    Funct12 <- MCFunct12
INVARIANTS
    BtbTruthful
PROPERTIES
    ImplementsIsa
    OneBubble
    OnlyExecutedBranchesTrain
    SteadyIsLearned
