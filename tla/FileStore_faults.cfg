SPECIFICATION Spec
CONSTANTS
    Tenants = {a, b}
    Ids = {i1, i2, i3}
    Values = {v1, v2}
    NoItem = NoItem
    Partial = Partial
    Remnants = {"old"}
    MaxFaults = 2
    MaxCrashes = 2
SYMMETRY Symmetry

    
    
PROPERTIES
    OnlyOwnItemsChange
    
CHECK_DEADLOCK FALSE
