SPECIFICATION MCSpec
CHECK_DEADLOCK FALSE
\* Pages 0 and 1 share a tag, as 512 neighbours do in the code.
CONSTANTS
    Parts = {"tlb"}
    Funct7s = {0, 1, 2, 32}
    XLEN = 4
    Pow <- MCPow
    BitAnd <- MCAnd
    BitOr <- MCOr
    BitXor <- MCXor
    MaxBits = 1
    Operands <- MCOperands
    Width = 3
    Pow2 <- MCPow2
    Depth = 2
    Ways <- TwoLevels
    ShadowFill = TRUE
    Pages = {0, 1, 2}
    PagesPerTag = 2
    Asids = {0, 1}
    Frames = {f1, f2}
    NoFrame = NoFrame
    NoEntry = NoEntry
    hazard = hazard
    link = link
    alu = alu
    Plugins <- MCPlugins
    SetupOf <- MCSetupOf
    BuildOf <- MCBuildOf
    HaltsOf <- MCHaltsOf
    HasHook <- MCHasHook
    Provides <- MCProvides
    Requires <- MCRequires
    Threads = 2
    MaxBuilds = 2
PROPERTIES
    ImplementsCache
