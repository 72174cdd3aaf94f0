\* Two finalize or reload requests, two ceremonies in flight, a crash.
SPECIFICATION Spec
CONSTANTS
    Tasks = {t1, t2}
    CeremonyIds = {c1, c2}
    Indices = {2, 3}
    N = 2
    Seeded = TRUE
    MaxRuns = 4
    MaxCrashes = 1
SYMMETRY Symmetry
INVARIANTS TypeOK SerialRecordsCoherent StoredShareReadable MemoryIsStored ShareStillLoaded FilesNamedRight
PROPERTY NoRollback
CHECK_DEADLOCK FALSE
