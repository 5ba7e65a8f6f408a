\* Runs one after another, each monitored, one leaving while the next begins.
CONSTANTS
    editor = editor
    mail = mail
    p1 = p1
    p2 = p2
    c1 = c1
    c2 = c2
    t1 = t1
    t2 = t2
    m1 = m1
    m2 = m2
    w1 = w1
    w2 = w2
    App = {editor, mail}
    Reporting = {}
    NoApp = NoApp
    Plan = {p1}
    NoPlan = NoPlan
    Caret = {c1}
    Watcher = {t1}
    Monitor = {m1, m2}
    Worker = {w1, w2}
    MainThread = MainThread
    NoThread = NoThread
    Lengths = {1, 2}
    MaxPolls = 2
    SlowWatcher = FALSE
    SlowWorker = FALSE
SPECIFICATION Spec
SYMMETRY Symmetric
INVARIANTS
    TypeOK
    NothingTypesUnseen
    StateMatchesRequests
    TypingIsWatched
PROPERTIES
    NothingOutlivesTheWindow
    ImplementsRunLifecycle
