SPECIFICATION ListingFairSpec
CONSTANTS
    A = A
    B = B
    C = C
    D = D
    E = E
    NoName = NoName
    StartName = B
    Names = {A, B, C, D, E}
    Programs <- PassPrograms
    BaseAddress = 4194304
    MaxSymbols = 4
    MaxLineMap = 5
    TextCapacity = 160
    DataCapacity = 64
    RelaxLimit = 8
    PassLimit = 6
INVARIANTS
    TypeOK
    HashArrayAgree
    ConvergedBranchesLand
    FixedFieldsLand
    LabelsLandInSection
    LineMapSorted
    ListingMatchesImage
    WithinCapacity
    FixupsInBounds
PROPERTIES
    TextFrozen
    Terminates
