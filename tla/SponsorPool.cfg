\* Payouts, deposits, resizes and removals of the pool over a few slots.
SPECIFICATION Spec
CONSTANTS
    Rent <- MCRent
    MaxDataIncrease = 100
    U64Max = 3
    MIN_SLOTS_BETWEEN_PAYOUTS = 5
    BOOTSTRAP_MAX_SIZE = 64
    PoolBytes = 32
    Sizes = {0, 24, 40, 65}
    Amounts = {0, 1, 2}
    Supply = 4
    FirstSlots = {1}
    MaxSlot = 11
    MaxPayouts = 3
INVARIANTS TypeOK PayoutsSpaced PoolSolvent
