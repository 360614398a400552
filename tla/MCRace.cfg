SPECIFICATION PartsSpec
CONSTANTS
    None = None
    Device = {d1}
    inner <- Inner
    outer <- Outer
    MarkAt <- Marks
    Legs <- RaceLegs
    noCrossLines <- NoCross
    Position <- Places
    Course <- CourseIds
    Hooter <- Hooters
    NudgeStep <- Nudges
    arming_radius = 1
    arrival_radius = 0
    astern_fixes = 2
    suppress_after_advance = 1
    position_stale = 0
    early_start_warning = 1
    breach_end_margin = 1
    Fixes <- FixesSeen
    MaxTime = 2
    Tablet = {d1, d2}
    Water <- Spots
    Heading <- Headings
    Thread = {loop, request}
    PENDING_EVENTS_MAX = 2
    MaxEvents = 4
    MaxBurst = 2
    Documents <- TwoCourses
    series = {"club"}
    tolerance = 0
    Fault <- Slips
    MaxEdits = 2
INVARIANTS
    CoursesAreRaceable
    CourseIsTheOneChosen
    EventsAreConserved
PROPERTIES
    EndsAreEarned
    StartIsNotMissed
    EventsGoOut
    WaypointIsReached
