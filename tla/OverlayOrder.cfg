\* One application is enough; signals are delivered before the next click.
CONSTANTS
    App = {a, b}
    Unknown = unknown
    Self = self
    MaxFaults = 1
    PostedFirst = TRUE
    MaxQueued = 4
SPECIFICATION Spec
INVARIANTS
    ShownIsCurrent
CHECK_DEADLOCK FALSE
