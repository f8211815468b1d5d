SPECIFICATION Spec
CONSTANTS
    Sources <- AllTexts
    Words = {"X", "Y", "D", "M", "p", "0", "1", "long"}
    Malformed = "malformed"
    Parameter = "#p"
    Numbers = {"0", "1"}
    FalseWords = {"0"}
    LongWords = {"long"}
    CliDefines <- OneDefine
    PP_MAX_DEFINES = 3
    PP_MAX_COND_DEPTH = 2
    MAX_MACROS = 2
    MAX_MACRO_BODY_LINES = 2
    MaxLines = 5
INVARIANTS
    TypeOK
    TwoPassesAsOne
