SPECIFICATION Spec
CONSTANTS
    Layers <- AllLayers
    u1 = u1
    u2 = u2
    Users = {u1, u2}
    Blocks = 4
    BlockSize = 2
    WidestStep = 2
    MaxRare = 1
INVARIANTS
    AttendsOwn
    CachesHold
    Coherent
SYMMETRY UserNames
CHECK_DEADLOCK FALSE
