SPECIFICATION Spec
CONSTANTS
    None = None
    Left = Left
    c1 = c1
    c2 = c2
    Contents <- MCContents
    SizeOf <- MCSizeOf
    Budgets <- MCBudgets
    Windows <- MCWindows
    Records <- MCRecords
    Entry <- MCEntry
SYMMETRY ContentSymmetry
INVARIANTS
    TypeOK
    ProvenanceLocked
    WithinBudget
    OutputIsWhole
