SPECIFICATION Spec
CONSTANTS
    a0 = a0
    a1 = a1
    Adr = {a0, a1}
    Cmds = {"WSI"}
    MaxQ = 1
    MaxStarts = 2
    Locks = {"free"}
    Patient = TRUE
INVARIANTS TypeOK SleepersWake PacketRemembered
PROPERTIES ToOwned FrOwned
SYMMETRY Addresses
CHECK_DEADLOCK FALSE
