\* Two reshares are finalized at the same time.
SPECIFICATION Spec
CONSTANTS
    Tasks = {t1, t2}
    CeremonyIds = {c1, c2}
    Indices = {2}
    N = 2
    Seeded = TRUE
    MaxRuns = 3
    MaxCrashes = 0
SYMMETRY Symmetry
INVARIANT RecordsCoherent
CHECK_DEADLOCK FALSE
