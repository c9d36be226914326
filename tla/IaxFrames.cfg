\* A call between two hosts on a network that may do anything with two packets
\* one way and one the other.  When both hosts have left nothing moves.
CONSTANTS
    a = a
    b = b
    Hosts = {a, b}
    Wrap = 4
    MaxRetries = 2
    Window = 1
    Plans <- Scenes
    Start <- Exchanged
    InFlight <- OnTheirWay
SPECIFICATION FairSpec
INVARIANTS TypeOK NothingForgotten
PROPERTIES Reliable EndsTogether HeardOrEnded
CHECK_DEADLOCK FALSE
