SPECIFICATION Spec
CONSTANTS
    BytesPerWord = 2
    Addr <- MCAddr
    Chain <- MCChain
    ByteSize = 5
    Radix = 3
    Offset = 1
    PatternWord = 2
    Table <- MCTables
    DigitTable <- MCDigits
    Missing <- MCMissing
    Nothing <- MCNothing
    Starts <- MCZeros
INVARIANT AllAtOnce
CHECK_DEADLOCK FALSE
