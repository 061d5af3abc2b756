SPECIFICATION Spec
CONSTANTS
    Server = {a, b, c}
    Nil = Nil
    Linger = TRUE
    MaxAppend = 1
    MaxTerm = 2
    MaxElections = 2
    MaxLog = 2
    MaxRestarts = 1
    MaxLosses = 1
    MaxCalls = 1
SYMMETRY Symmetry
CHECK_DEADLOCK FALSE
INVARIANTS TypeOK 
  
