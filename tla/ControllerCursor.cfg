\* An editor whose cursor can be read, another application whose cursor cannot.
CONSTANTS
    editor = editor
    mail = mail
    p1 = p1
    p2 = p2
    c1 = c1
    c2 = c2
    t1 = t1
    t2 = t2
    m1 = m1
    m2 = m2
    w1 = w1
    w2 = w2
    App = {editor, mail}
    Reporting = {editor}
    NoApp = NoApp
    Plan = {p1}
    NoPlan = NoPlan
    Caret = {c1, c2}
    Watcher = {t1}
    Monitor = {m1}
    Worker = {w1}
    MainThread = MainThread
    NoThread = NoThread
    Lengths = {1}
    MaxPolls = 2
    SlowWatcher = FALSE
    SlowWorker = FALSE
SPECIFICATION Spec
PROPERTIES
    MovedCursorStays
