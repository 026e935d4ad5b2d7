\* Three plugins in any order, built a second time.
CONSTANTS
    hazard = hazard
    link = link
    alu = alu
    Plugins <- MCPlugins
    SetupOf <- MCSetupOf
    BuildOf <- MCBuildOf
    HaltsOf <- MCHaltsOf
    HasHook <- MCHasHook
    Provides <- MCProvides
    Requires <- MCRequires
    Threads = 2
    MaxBuilds = 2

SPECIFICATION PipeSpec

PROPERTY BuildIsIdempotent

CHECK_DEADLOCK FALSE
