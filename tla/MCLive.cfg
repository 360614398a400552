SPECIFICATION Spec
CONSTANTS
    Parts = {"derived", "cache", "supply", "counter", "bridge", "lines"}
    None = None
    Day = 4
    Window = 3
    CONFIRM = 3
    MaxGap = 2
    Power = 1
    MaxLive = 4
    MaxStarts = 2
    MaxInflight = 1
    LIVE_S = 1
    PUBLISH = FALSE
    Screen = {s1, s2, s3}
    Locked = TRUE
    DayLength = 3
    TTL = 1
    NoDoc = NoDoc
    MaxNow = 5
    MaxEnergy = 3
    MaxSlices = 2
    MaxCount = 9
    MaxReading = 30
    MaxDays = 1
    RestartFrom = 7
    MaxGained = 1
    Spacing = 3
INVARIANTS
    TotalsAreOfTheirPeriods
    SliceBalances
    CountsTheDay
    LinesAreTold
PROPERTY AnswersAreShared
\* A site without feeds to read, a day that is over: the bounds stop
CHECK_DEADLOCK FALSE
