SPECIFICATION Spec
CONSTANTS
    Threads = {t1, t2}
    Addrs = {a1, a2}
    Tensors = {n1, n2, n3, n4}
    NoTensor = NoTensor
    Shapes <- SomeShapes
    MaxSize = 2
INVARIANTS
    TypeOK
    UsesOwnPlan
    UsesFittingPlan
PROPERTIES
    StoredIsKept
SYMMETRY Alike
