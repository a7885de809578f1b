SPECIFICATION FairSpec
CONSTANTS
    BytesPerWord = 2
    Addr <- MCAddr
    Chain <- MCChain
    ByteSize = 5
    Radix = 3
    Offset = 1
    PatternWord = 2
    Table <- MCTables
    DigitTable <- MCDigits
    Missing <- MCMissing
    Nothing <- MCNothing
    Starts <- MCStarts
INVARIANTS TypeOK Resumable AllAtOnce
PROPERTIES Advances Finishes
CHECK_DEADLOCK FALSE
