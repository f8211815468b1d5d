SPECIFICATION Spec
CONSTANTS
    Programs <- SectionPrograms
    Bases = {"f", "l", "m", "long", "data", "text"}
    Fits <- MCFits
    MAX_SYMBOLS = 8
    MaxLines = 2
INVARIANTS
    SectionOperandsKept
