\* Two callers against a press and a release.
CONSTANTS
    a = a
    bs = bs
    w1 = w1
    w2 = w2
    c1 = c1
    c2 = c2
    Key = {a}
    Worker = {w1, w2}
    Caller = {c1, c2}
    NoThread = NoThread
    Plans <- OneKeyPlan
    TextKeys = {a}
    Backspace = bs
    MaxTicks = 1
    JoinTimesOut = TRUE
SPECIFICATION Spec
SYMMETRY Symmetric
INVARIANTS
    OneJob
    NothingLeftDown
    AtMostOneMoreEvent
PROPERTIES
    RunsJobs
