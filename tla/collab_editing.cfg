SPECIFICATION CollabSpec
CONSTANTS
    E = E
    F = F
    Editors <- MCEditors
    StartText <- MCStartText
    MaxEdits = 3
    MaxTroubles = 1
    MaxJoins = 3
    MaxEvents = 5
SYMMETRY MCSymmetry
CHECK_DEADLOCK FALSE
INVARIANTS
    
    EditsKept
    
