CONSTANT Kernels <- PrefillKernel
SPECIFICATION Spec
INVARIANTS
    PeeksOwn
