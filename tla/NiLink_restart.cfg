SPECIFICATION FairSpec
CONSTANTS
    a0 = a0
    a1 = a1
    Adr = {a0}
    Cmds = {"SND"}
    MaxQ = 1
    MaxStarts = 2
    Locks = {}
    Patient = TRUE
PROPERTIES StartCompletes
CHECK_DEADLOCK FALSE
