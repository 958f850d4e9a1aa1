\* One CTA reuses each slot three times, so that the parities come round.
CONSTANTS
    CTAs = {c1}
    Lanes = {l1, l2}
    Leader = l1
    Consumers = {t1, t2, t3}
    TotalWork = 5
SPECIFICATION FairSpec
INVARIANTS TypeOK ReadsOwnRound NeverLapped
PROPERTIES OverwriteAfterRead EventuallyExits
