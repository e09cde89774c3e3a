SPECIFICATION Spec
CONSTANTS
    Requests = {r1, r2, r3}
    Objects = {o1, o2, o3, o4}
    Nil = Nil
    MaxFaults = 0
    Contributions <- NegativeOrPositive
    PutAmounts <- OnlyCarry
SYMMETRY Symmetry
INVARIANTS
    ProgressIsKept
CHECK_DEADLOCK FALSE
