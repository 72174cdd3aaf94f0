\* Two requests at a time on one session id of each kind, a crash, clients
\* that need not come back.
SPECIFICATION FairSpec
CONSTANTS
    Tasks = {t1, t2}
    SessionIds = {s1}
    Coins = {k1}
    Challenges = {x, y}
    Kappas = {1, 2}
    Shares = {A}
    None = None
    Guarded = TRUE
    Ttl = 1
    MaxNonces = 2
    MaxLives = 1
INVARIANTS TypeOK NonceUsedOnce RefreshAfterMelt
PROPERTIES SessionsKept NoncesForgotten
