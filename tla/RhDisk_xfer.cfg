SPECIFICATION FairSpec
CONSTANTS
    FillWds = 1
    NWds = 2
    TotSecs = 2
    BufSecs = 1
    Setups <- MCSetups
    Addresses = {1, 2}
    Request <- MCRequest
    Cmds = {"CLR", "SEK", "RDP"}
    Conos <- MCConos
    Patient = TRUE
    Waits = TRUE
INVARIANTS TypeOK SlaveQuiescent NoPanic TransferCarried RightPlace Announced
PROPERTIES KeepsPromise TransferEnds
