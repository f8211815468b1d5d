SPECIFICATION Spec
CONSTANTS
    Sources <- Texts
    MaxLines = 3
    MaxTimesCount = 50
INVARIANTS
    TypeOK
    SmallTextsComeOutWhole
