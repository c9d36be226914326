\* No beaconing.
CONSTANTS
    Duplex = 2
    ToTime = 3
    HangTime = 2
    IdTime = 3
    PoliteId = 1
    TailTime = 0
    SquashTime = 1
    Beaconing = FALSE
    IdTalkover = TRUE
    CourtesyTone = TRUE
    TotDisable = FALSE
SPECIFICATION Spec
INVARIANT CleanUpId
