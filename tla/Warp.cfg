CONSTANT Kernels <- AllKernels
SPECIFICATION Spec
INVARIANTS
    ReadsOwn
    FullOrEmpty
    PeeksNothingLater
    NeverStuck
    LeavesNothing
