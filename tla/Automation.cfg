SPECIFICATION FairSpec
CONSTANTS
    Calendar <- SmallCalendar
    SearchLimit = 6
    NoTime = NoTime
    Schedulers = {s1, s2}
    Manual = Manual
    Plans <- SmallPlans
    Horizon = 4
    Patience = 1
INVARIANTS
    ScheduleCovered
    AnnouncedOnce
PROPERTIES
    PauseHolds
    OccurrencesRun
    WaitsEnd
    HistoryAgrees
