SPECIFICATION Spec
CONSTANTS
    Transfers = {t1, t2}
    NoHash = NoHash
    Runs = {r1, r2}
    MaxFaults = 1
SYMMETRY Symmetry
INVARIANTS TypeOK ListIsTrue VerdictsAdvance CountsMatchRows
\* The system rests when every transfer is settled and every run has returned.
CHECK_DEADLOCK FALSE
