SPECIFICATION RecorderSpec
CONSTANTS
    Recording <- ThreeRecordings
    NoRec = 0
    Locks = TRUE
    MaxOutages = 2
    None = none
    Offset <- Offsets
    CLOCK_STEP_THRESHOLD_SECONDS = 3
    REFRESH_SECONDS = 1
    MaxNow = 2
    MaxFixes = 3
    MaxSteps = 2
    MaxRestarts = 1
    Device = {d1, d2}
    Field = {title, story}
    Through = {title}
    MaxEdits = 3
    Entry <- TwoEntries
    Published <- Levels
    Filters <- Patterns
    MaxLosses = 2
    MaxBegun = 3
    Version <- TwoDrawings
    Size <- Lengths
    NoFile = nofile
    MaxTries = 2
    MaxUploads = 3
    Kept = {k1}
    Ghost = {g1}
    AnyMoment = TRUE
    MaxStarts = 3
    MaxNames = 4
    Listed = {1, 2}
    Default = {1}
    Request = {1, 2}
    Id = {0, 1, 2}
    SAME_OUTING = 1
    PICKER_DAYS = 2
    PICKER_MAX = 2
    COMPUTED_SECONDS = 1
    MaxPassed = 2
    MaxRows = 1
    MaxMoves = 1
CHECK_DEADLOCK FALSE
INVARIANT NothingIsLost
