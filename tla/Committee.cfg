SPECIFICATION Spec
CONSTANTS
    V <- MCV
    Logged <- MCLogged
    DkgIds = {d1}
    ReshareIds = {r1, r2}
    Ops = {o1, o2}
    MaxDeals = 4
    MaxFaults = 1
SYMMETRY Symmetry
VIEW View
INVARIANTS
    TypeOK
    CeremonyAgrees
    CoinsVerify
    ChainVerifies
CHECK_DEADLOCK FALSE
