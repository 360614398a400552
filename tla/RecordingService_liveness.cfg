CONSTANTS
    Recovery = recovery
    Nobody = nobody
    NoRec = norec
    Main = main
    Trigger = trigger
    Recording = {r1}
    Thread = {main, trigger, web}
    Worker = {w1}
    DrawActive = FALSE
    MaxBuffer = 2
    MaxMessages = 1
    MaxOutages = 1
    MaxLocks = 0
SPECIFICATION FairSpec
PROPERTIES
    StopEndsIt
    InterruptedIsTakenUp
