\* Texts of up to five characters and one over, mistakes two characters apart;
\* every sequence of up to five presses and releases before the gate; a backend
\* with and without an event source of its own.
CONSTANTS
    Char <- Supported
    Symbol <- Strings
    Backspace = "BACKSPACE"
    Shift = "SHIFT"
    Tab = "TAB"
    Asks <- AllAsks
    WpmMin = 20
    WpmMax = 120
    TypoRateMax = 50
    Cooldown = 2
    Given <- AnyPlans
    Sources = {"private", "null"}
    MaxTextLength = 5
SPECIFICATION PathSpec
INVARIANTS
    TypeOK
    PlansPassTheGate
    MistakesAreShallow
    LinesAreFinal
    GateIsExact
    ArrivesAsAsked
    NoSelfHotkey
PROPERTIES
    OfferedMeansAccepted
