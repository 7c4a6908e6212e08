SPECIFICATION Spec
CONSTANTS
    None = None
    Left = Left
    c1 = c1
    c2 = c2
    Contents <- MCContents
    SizeOf <- MCLargeSizeOf
    Budgets <- MCBudgets
    Windows <- MCWindows
    Records <- MCRecords
    Entry <- MCEntry
SYMMETRY ContentSymmetry
INVARIANT OptionalNeverInTheWay
CHECK_DEADLOCK FALSE
