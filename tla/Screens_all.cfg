SPECIFICATION Spec
CONSTANTS
    Digits = {1, 2}
    PIN_LENGTH = 2
    MaxKeys = 8
    MaxToasts = 2
    MaxSpends = 1
    MaxDue = 2
    MaxChanges = 1
    MaxRows = 2
    MaxScans = 2
    Rows = {a, b}
    Amounts = {1, 2}
    MaxEdits = 3
    Expense = {a, b}
    Income = {x}
    MaxForms = 4
    MaxSubmits = 4
    Targets = {x, y, z}
    Between = between
    MaxTargets = 4
    Categories = {"food", "pay"}
    Dates = {7, 8}
    Prices = {2}
    Clock <- HalfDays
    MaxTransactions = 2
    Today = 14
    Screenshots = 4
    Values <- Contributions
    MaxClicks = 3
    MaxFailures = 1
    None = None
INVARIANTS
    TypeOK
    SentAsShown
    SentOnce
    ShownIsSo
    NothingOutlivesItsUse
    
    
    
PROPERTIES
    AwareInTheEnd
    WaitsEnd
CHECK_DEADLOCK FALSE
