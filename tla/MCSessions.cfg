SPECIFICATION Spec
CONSTANTS
    Sessions <- AllSessions
    MaxRewinds = 1
INVARIANTS
    AttendsExact
    CacheHolds
    RefusesOnlyOverflow
CHECK_DEADLOCK FALSE
