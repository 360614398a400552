SPECIFICATION PositionSpec
CONSTANTS
    Place <- Line
    NoPlace = NoPlace
    NoTime = NoTime
    Dist <- AlongTheLine
    Mooring = 0
    Config <- Configs
    Gap <- Gaps
    Jump <- PutRight
    MaxJumps = 2
    MaxOutages = 2
    Dated <- TwoDates
    LastDate = 3
    Clock <- Clocks
    DAY = 3
    SCAN_SECONDS = 1
    MaxNow = 4
    MaxSaves = 2
    MaxSets = 1
    MaxBoots = 1
    Null = Null
    Spot <- TwoApart
    TRAIL_MIN_MOVE = 2
    TRAIL_MIN_INTERVAL = 1
    TRAIL_MAX_POINTS = 2
    DayLong = 2
    MaxTime = 2
    MaxSeq = 4
    MaxRestarts = 1
    Reported <- SomeReadings
    RPM_DEADBAND = 5
    MOTOR_HOLD_S = 2
    RECORDING_STALE_S = 1
    POSITION_STALE_S = 1
    MaxHudTime = 2
    MaxBetween = 1
INVARIANTS
    TriggersAreSustained
    ShownIsCurrent
PROPERTIES
    OutingsAreRecorded
    ConfigIsInForce
    PageIsTheTrack
