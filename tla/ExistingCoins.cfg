\* A keyset is revoked or superseded while coins are outstanding.
SPECIFICATION Spec
CONSTANTS
    c1 = c1
    c2 = c2
    n1 = n1
    n2 = n2
    pkA = pkA
    pkB = pkB
    Coins = {c1, c2}
    Nullifiers = {n1, n2}
    Nullifier <- MCNullifier
    JointKeys = {pkA, pkB}
    Offers <- SpendOffers
    Denoms = {2, 3}
    Amounts = {2}
    Sizes = {36, 169, 301}
    Supply = 9
    KEYSET_REGISTRY_CAPACITY = 2
    BOOTSTRAP_MAX_SIZE = 300
    MaxCredits = 1
    Rent <- MCRent
    MaxDataIncrease = 200
    U64Max = 1000
PROPERTY ExistingCoinsRemainValid
