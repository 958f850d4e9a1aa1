CONSTANTS
    P = 5
    Channels = {1, 2}
    T = 3
    Slots = {s1, s2}
    NoSlot = none
    Workloads <- Narrow
    Calls <- CallsOf
SPECIFICATION Spec
INVARIANT
    StateIsSerial
\* It stops after the last round.
CHECK_DEADLOCK FALSE
