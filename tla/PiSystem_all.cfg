SPECIFICATION Spec
CONSTANTS
    NLev = 2
    rh0 = rh0
    ni0 = ni0
    dte0 = dte0
    Rh = {rh0, ni0}
    Rh20 = {rh0}
    Dte = {dte0}
    PIA <- Channels
    Selections = {{1}, {2}}
    CpuPIA = {0, 1}
    DiagSkip = FALSE
INVARIANTS TypeOK RequestsAgree NoLostInterrupt NoSpuriousPanic
PROPERTIES Nests OnlyUnmasking

