\* All telemetry is flushed.
CONSTANTS
    Tele = {t1, t2}
    None = None
    Ordered = {"OTHER"}
    IdTalkover = TRUE
    Flushes = TRUE
    Faults = {}
SPECIFICATION Spec
INVARIANT FlushIsSafe
CHECK_DEADLOCK FALSE
