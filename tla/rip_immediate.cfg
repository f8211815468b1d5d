SPECIFICATION ListingSpec
CONSTANTS
    A = A
    B = B
    C = C
    D = D
    E = E
    NoName = NoName
    StartName = A
    Names = {A, B, C, D, E}
    Programs <- RipPrograms
    BaseAddress = 4194304
    MaxSymbols = 8
    MaxLineMap = 8
    TextCapacity = 1000
    DataCapacity = 1000
    RelaxLimit = 8
    PassLimit = 6
INVARIANT RipFieldsFromInstructionEnd
