CONSTANTS
    Units <- EmptyBetween
    CCs = {c1, c2}
    Stages <- ShortStages
    UseGk = TRUE
    UseInitialState = TRUE
    StoreFinalState = TRUE
    SaveVNew = TRUE
    Persistent = TRUE
SPECIFICATION Spec
INVARIANTS
    TypeOK
    StagesHeld
    FullOrEmpty
    GatesScaledOnce
    DrainedAtExit
    NeverStuck
    AllWrittenAtExit
PROPERTIES
    ImplementsSerial
SYMMETRY CCSymmetry
