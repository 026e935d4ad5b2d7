SPECIFICATION MCSpec
\* A word ends in the circuits' result, a builder in an elaborated circuit.
CHECK_DEADLOCK FALSE
CONSTANTS
    Parts = {"datapath", "divider", "tlb", "builder"}
    Funct7s = {0, 1, 2, 32}
    XLEN = 4
    Pow <- MCPow
    BitAnd <- MCAnd
    BitOr <- MCOr
    BitXor <- MCXor
    MaxBits = 2
    Operands <- MCOperands
    Width = 3
    Pow2 <- MCPow2
    Depth = 2
    Ways <- TwoLevels
    ShadowFill = TRUE
    Pages = {1, 2}
    PagesPerTag = 2
    Asids = {0, 1}
    Frames = {f1, f2}
    NoFrame = NoFrame
    NoEntry = NoEntry
    hazard = hazard
    link = link
    alu = alu
    Plugins <- MCPlugins
    SetupOf <- MCSetupOf
    BuildOf <- MCBuildOf
    HaltsOf <- MCHaltsOf
    HasHook <- MCHasHook
    Provides <- MCProvides
    Requires <- MCRequires
    Threads = 2
    MaxBuilds = 2
INVARIANTS
    PluginsAgree
    DecodersAgree
    AluComputes
    BranchDecides
    DivisionCorrect
    OneClockBehind
    LevelsAgree
    PassIsWhole
    CircuitIsComplete
PROPERTIES
    ImplementsCache
    StallIsFresh
