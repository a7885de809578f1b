SPECIFICATION FairSpec
CONSTANTS
    a0 = a0
    a1 = a1
    Adr = {a0}
    Cmds = {"SND"}
    MaxQ = 1
    MaxStarts = 1
    Locks = {}
    Patient = TRUE
PROPERTIES CommandServed
CHECK_DEADLOCK FALSE
