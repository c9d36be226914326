\* Two threads that share a channel.  ast_hangup can stop the threads for good.
CONSTANTS
    Users = {u, v}
    Chans = {a}
    Serves <- Shared
    Entries = {e1, e2}
    Nobody = Nobody
    MaxMons = 2
    StateWrap = 3
    MaxDepth = 1
    MaxSignals = 1
    Talks = {a}
    Hangs = {a}
    ThreadFails = TRUE
SPECIFICATION FairSpec
CHECK_DEADLOCK FALSE
INVARIANTS TypeOK NoUseAfterFree SignalsKept HangupWakes FlagKept NotAsleepOnWork
PROPERTIES StopReturns Serviced DeadlockLasts
