SPECIFICATION Spec
CONSTANTS
    None = None
    Nodes <- AllNodes
INVARIANTS
    TypeOK
    IndexExact
    LayoutExact
    ExtentExact
    ReduceExact
    ArithmeticExact
    WindowExact
    AttentionExact
    QuantExact
    NeverOutside
    ReplaysAlike
