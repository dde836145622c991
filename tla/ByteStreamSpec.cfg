CONSTANTS
    Capacity = 3
    MaxWrite = 4
    MaxBytes = 8
SPECIFICATION Spec
INVARIANTS
    TypeOK
    Conservation
    FIFO
