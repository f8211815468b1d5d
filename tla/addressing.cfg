SPECIFICATION Spec
CONSTANTS
    Operands <- AllOperands
    RegOpcode = 11
INVARIANTS
    EncodesWhatIsWritten
    EncoderChecksUnreachable
