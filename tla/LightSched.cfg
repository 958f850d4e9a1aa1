\* Two blocks race on the global counter, which runs on to use each slot twice.
CONSTANTS
    CTAs = {c1, c2}
    Lanes = {l1}
    Leader = l1
    Consumers = {t1, t2}
    TotalWork = 4
SPECIFICATION FairSpec
INVARIANTS EndsComplete ReadsOwnRound
PROPERTIES ImplementsDispatch EventuallyExits
