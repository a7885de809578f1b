SPECIFICATION Spec
CONSTANTS
    done = done
    wake = wake
    Dev <- MCDev
    Sig <- MCSig
    SigOf <- MCSigOf
    SigList <- MCSigList
    RegList <- MCRegList
    Polled <- MCPolled
    AtomicSwap = FALSE
INVARIANTS BreakPending
