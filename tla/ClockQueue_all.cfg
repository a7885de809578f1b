SPECIFICATION FairSpec
CONSTANTS
    c = c
    chk = chk
    ec = ec
    kal = kal
    None = None
    Timer = {chk, ec, kal, c}
    Intervals <- MCIntervals
    TickLens = {1, 3}
    Nested <- MCNested
    Forever = {kal}
INVARIANTS TypeOK Linked HeadDue
PROPERTIES KeepsPromise KeepsFiring
