CONSTANTS
    Streams = {s1, s2}
    KeyStream <- Swapped
    CTAs = {c1,c2,c3}
    Owner = c1
    Warps = {w0, w1}
    Leader = w0
    Resident = 2
    MaxLaunches = 2
SPECIFICATION FairSpec
INVARIANTS ReadsLastHistory RolledOnce
PROPERTIES LaunchesEnd
CHECK_DEADLOCK FALSE
