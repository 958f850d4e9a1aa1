CONSTANTS
    P = 5
    Channels = {1, 2}
    T = 3
    Slots = {s1, s2}
    NoSlot = none
    Workloads <- Served
    Calls <- CallsOf
SPECIFICATION Spec
INVARIANTS
    OutputsAreSerial
    StateIsSerial
    FastIsGeneral
\* It stops after the last round.
CHECK_DEADLOCK FALSE
