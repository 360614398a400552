CONSTANTS
    Recovery = recovery
    Nobody = nobody
    NoRec = norec
    Main = main
    Trigger = trigger
    Recording = {r1}
    Thread = {main, trigger, web}
    Worker = {w1}
    DrawActive = TRUE
    MaxBuffer = 2
    MaxMessages = 2
    MaxOutages = 1
    MaxLocks = 1
SPECIFICATION Spec
INVARIANTS
    RowsConserved
    CountIsTrue
    SilentOnceEnded
    ActiveIsHeard
    FreshIsWhole
    StoppedHasNoOrphan
