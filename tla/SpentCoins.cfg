\* A peer's inbox of one message, and payments on record.
SPECIFICATION Spec
CONSTANTS
    Recipients <- MCRecipients
    Bodies = {0, 1, 2, 3, 4, 5}
    Oversized = {5}
    MaxPerRecipient = 1
    Persistent = FALSE
    MaxPosts = 3
    GuiTasks = {g1, g2}
    CliTasks = {c1}
    Names = {n1}
    Denoms = {1, 2}
    UserLabels <- MCLabels
    StartFile <- MCStartFile
    StartKeysets <- MCStartKeysets
    MaxCoins = 4
    MaxStray = 1
    MaxCrashes = 0
    MaxPending = 2
    MaxStimuli = 3
INVARIANTS SpentHasLeft
CHECK_DEADLOCK FALSE
