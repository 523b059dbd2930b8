SPECIFICATION OnceSpec
CONSTANTS
    a = a
    b = b
    c = c
    Procs <- ThreeProcs
    MaxCalls = 2
SYMMETRY Symmetry
CHECK_DEADLOCK FALSE
INVARIANTS
    DoInv
    Alternates
