\* What must happen once a request is made, for a plan with a delay.
CONSTANTS
    a = a
    bs = bs
    w1 = w1
    w2 = w2
    c1 = c1
    c2 = c2
    Key = {bs}
    Worker = {w1}
    Caller = {c1, c2}
    NoThread = NoThread
    Plans <- DelayPlan
    TextKeys = {a}
    Backspace = bs
    MaxTicks = 1
    JoinTimesOut = FALSE
SPECIFICATION FairSpec
INVARIANTS
    TypeOK
    AbortWithinOneTick
    DelayInFull
PROPERTIES
    AbortEndsRun
    PauseTakesHold
    LeftAloneFinishes
