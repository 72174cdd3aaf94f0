\* Two clients, two commands and one transaction of somebody else, on a bare
\* chain and on a prepared one.
SPECIFICATION DevnetSpec
CONSTANTS
    c1 = c1
    c2 = c2
    c3 = c3
    n1 = n1
    n2 = n2
    n3 = n3
    pkA = pkA
    pkB = pkB
    None = None
    Coins = {c1, c2, c3}
    Nullifiers = {n1, n2, n3}
    Nullifier <- MCNullifier
    JointKeys = {pkA, pkB}
    Offers <- OthersOffers
    Denoms = {2}
    Amounts = {2}
    Sizes = {250}
    Supply = 20
    KEYSET_REGISTRY_CAPACITY = 2
    BOOTSTRAP_MAX_SIZE = 300
    MaxCredits = 0
    Rent <- MCRent
    ClientRent <- MCClientRent
    MaxDataIncrease = 200
    U64Max = 1000
    Clients = {k1, k2}
    RegistrySize = 170
    NullifierSize = 68
    Payers = {"sponsor", "pool"}
    DemoPayers = {"ephemeral"}
    PayerLamports = 1
    PoolRent = 1
    Epochs = {1}
    DevnetInits = {"bare", "prepared"}
    PreparedKey = pkA
    PreparedCoin = c1
    MaxRuns = 2
    MaxOthers = 1
INVARIANTS DevnetTypeOK SpendReportsTrue SetupReportsTrue PreflightSound
CHECK_DEADLOCK FALSE
