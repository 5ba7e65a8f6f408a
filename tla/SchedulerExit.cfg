\* The claim that every exit path releases held keys, with a join that never gives up.
CONSTANTS
    a = a
    bs = bs
    w1 = w1
    w2 = w2
    c1 = c1
    c2 = c2
    Key = {a}
    Worker = {w1, w2}
    Caller = {c1, c2}
    NoThread = NoThread
    Plans <- OneKeyPlan
    TextKeys = {a}
    Backspace = bs
    MaxTicks = 1
    JoinTimesOut = FALSE
SPECIFICATION Spec
SYMMETRY Symmetric
INVARIANT EveryExitReleases
