SPECIFICATION Spec
CONSTANTS
    InfoCapacity = 400
    LineCapacity = 300
    StrCapacity = 200
    MaxDefines = 2
    Sessions <- MCSessions
    Contexts <- MCContexts
INVARIANTS
    TypeOK
    ContextReleased
    HeadersMatchFile
    LineProgramDecodes
    FunctionsTileText
    ReadableIffDebug
    SuccessMeansWritten
    OldFilesKept
PROPERTY SessionEnds
