SPECIFICATION Spec
CONSTANTS
    Limits = {l1, l2, l3}
    Nil = Nil
    MaxMonth = 5
SYMMETRY Symmetry
INVARIANTS
    PastMonthsKeepTheirLimit
