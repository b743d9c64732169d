SPECIFICATION Spec
CONSTANTS
    None = None
    Nodes <- FreezingNodes
INVARIANT
    FreezesNothing
