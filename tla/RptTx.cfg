\* A full duplex repeater.
CONSTANTS
    Duplex = 2
    ToTime = 2
    HangTime = 2
    IdTime = 3
    PoliteId = 1
    TailTime = 0
    SquashTime = 1
    Beaconing = FALSE
    IdTalkover = TRUE
    CourtesyTone = TRUE
    TotDisable = FALSE
SPECIFICATION FairSpec
INVARIANTS TypeOK NotRelayedUntilReleased MarksOfTimeOut
PROPERTIES TimeOutSilences  BusyEnds QuietInTheEnd
