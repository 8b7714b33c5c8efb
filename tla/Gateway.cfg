CONSTANTS
    Requests = {r1, r2}
    MaxInflight = 1
SPECIFICATION FairSpec
INVARIANTS
    TypeOK
    SlotsAreHeld
    CountedAsAnswered
    OnlyAuthorizedRun
PROPERTIES
    NobodyWaits
