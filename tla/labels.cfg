SPECIFICATION Spec
CONSTANTS
    Programs <- LabelPrograms
    Bases = {"f", "l", "m", "long", "data", "text"}
    Fits <- MCFits
    MAX_SYMBOLS = 3
    MaxLines = 4
INVARIANTS
    LocalReferencesResolve
    AnonymousReferencesResolve
    DefinitionsStayDistinct
    RejectsExactly
