\* Safety: three blocks of all kinds, with failures, flushes and restarts.
\* A flush may crash the program, which ends it.
CONSTANTS
    Tele = {t1, t2, t3}
    None = None
    Ordered = {"COURTESY", "ID", "TAILMSG", "PAGE", "OTHER"}
    IdTalkover = TRUE
    Flushes = TRUE
    Faults = {"thread", "channel", "conference"}
SPECIFICATION Spec
SYMMETRY Blocks
INVARIANTS TypeOK ActiveIsLive OneVoice RadioHeld
PROPERTY NotOvertaken
CHECK_DEADLOCK FALSE
