\* Everybody gets a turn, and an ID that was cut off is made good: three blocks,
\* channels and conferences may fail.  When rpt() has ended nothing moves.
CONSTANTS
    Tele = {t1, t2, t3}
    None = None
    Ordered = {"COURTESY", "ID", "PAGE"}
    IdTalkover = TRUE
    Flushes = FALSE
    Faults = {"channel", "conference"}
SPECIFICATION FairSpec
PROPERTIES OnlyFirstStarves Drains CutIdIsMadeGood
CHECK_DEADLOCK FALSE
