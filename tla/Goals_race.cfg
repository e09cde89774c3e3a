SPECIFICATION Spec
CONSTANTS
    Requests = {r1, r2, r3}
    Objects = {o1, o2, o3, o4}
    Nil = Nil
    MaxFaults = 1
    Contributions <- NegativeOrPositive
    PutAmounts <- Amounts
SYMMETRY Symmetry
INVARIANTS
    
    ExactWhenSequential
PROPERTIES
    DeletedStaysDeleted
CHECK_DEADLOCK FALSE
