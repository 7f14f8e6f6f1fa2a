SPECIFICATION FairSpec
CONSTANTS
    Addr = {a1, a2, a3, a4}
    Val = {1, 2}
    MaxIndex = 3
    Null = null
INVARIANTS
    SafePointers
    Linked
    NoLeak
PROPERTIES
    Implements
    CollectsExactly
CHECK_DEADLOCK FALSE
