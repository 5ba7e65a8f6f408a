\* Two applications beside the overlay itself; signals of one start and more queued.
CONSTANTS
    App = {a, b}
    Unknown = unknown
    Self = self
    MaxFaults = 1
    PostedFirst = TRUE
    MaxQueued = 4
SPECIFICATION FairSpec
INVARIANTS
    TypeOK
    ActiveLooksActive
    FailureIsExplained
    MonitorsAreRecorded
PROPERTIES
    NeverArmedDeaf
    EndIsShown
CHECK_DEADLOCK FALSE
