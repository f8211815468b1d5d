SPECIFICATION FairSpec
CONSTANTS
    a = a
    b = b
    c = c
    Names <- ThreeNames
    Hash <- Collide
    Addresses = {10, 20}
    MaxSymbols = 2
    HashTableSize = 2
INVARIANTS
    TableMatchesArray
PROPERTIES
    ImplementsMap
    CallsReturn
