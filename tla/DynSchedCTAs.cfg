\* Two CTAs race on the global counter, with every split of the work between them.
CONSTANTS
    CTAs = {c1, c2}
    Lanes = {l1}
    Leader = l1
    Consumers = {t1}
    TotalWork = 4
SPECIFICATION Spec
INVARIANTS HandledOnce EndsComplete
PROPERTIES ImplementsDispatch
