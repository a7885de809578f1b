SPECIFICATION FairSpec
CONSTANTS
    done = done
    wake = wake
    Dev <- MCDev
    Sig <- MCSig
    SigOf <- MCSigOf
    SigList <- MCSigList
    RegList <- MCRegList
    Polled <- MCPolled
    AtomicSwap = TRUE
INVARIANTS TypeOK BreakPending EventCarried
PROPERTIES EventHandled
