SPECIFICATION GateLiveSpec
CONSTANTS
    w1 = w1
    w2 = w2
    w3 = w3
    Writers <- ThreeWriters
    Remakes = FALSE
CHECK_DEADLOCK FALSE
INVARIANTS
    NoEarlyWrite
PROPERTIES
    WaitingIsReleased
