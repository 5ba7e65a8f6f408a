\* As a bundle and from source, with and without the preflight calls, restarts
\* that may fail, a virtualenv on one interpreter or another, with or without
\* its packages, and a checkout that moves.
CONSTANTS
    Interpreters = {"3.12", "3.13"}
    Places = {"here", "there"}
    SiteLists = {{}, {"packages"}}
SPECIFICATION FairSpec
INVARIANTS
    TypeOK
    NoRestartLoop
    NoEmptyPromise
    RebuildKeepsGrant
PROPERTIES
    GrantIsPickedUp
    ClearingLeadsToAPrompt
