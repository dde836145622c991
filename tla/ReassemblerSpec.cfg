CONSTANTS
    Capacity = 5
    Total = 8
    Mod64 = 64
    Int32Max = 31
SPECIFICATION Spec
INVARIANTS
    CountedOnce
    NodesApart
    EndedOnceComplete
PROPERTIES
    Implements
