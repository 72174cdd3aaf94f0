\* One coin, melted once, and two refresh sessions.
SPECIFICATION Spec
CONSTANTS
    Tasks = {t1}
    SessionIds = {s1, s2}
    Coins = {k1}
    Challenges = {x}
    Kappas = {1}
    Shares = {A}
    None = None
    Guarded = TRUE
    Ttl = 1
    MaxNonces = 2
    MaxLives = 0
INVARIANT RefreshOncePerCoin
