SPECIFICATION Spec
CONSTANTS
    Length = 5
    Words = 2
    Regs <- MCRegs
    Programs <- MCPrograms
    CountBound = 3
INVARIANTS
    LoadsInOrder
    SameFinalMemory
PROPERTIES
    ExecutesProgram
