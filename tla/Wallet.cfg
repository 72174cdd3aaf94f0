\* Two GUI flows, one command line flow, two coins minted, three messages.
SPECIFICATION Spec
CONSTANTS
    Recipients <- MCRecipients
    Bodies = {0, 1, 2, 3, 4, 5}
    Oversized = {5}
    MaxPerRecipient = 2
    Persistent = FALSE
    MaxPosts = 3
    GuiTasks = {g1, g2}
    CliTasks = {c1}
    Names = {n1}
    Denoms = {1, 2}
    UserLabels <- MCLabels
    StartFile <- MCStartFile
    StartKeysets <- MCStartKeysets
    MaxCoins = 4
    MaxStray = 1
    MaxCrashes = 1
    MaxPending = 2
    MaxStimuli = 3
INVARIANTS TypeOK ReceivedKept RefreshAtomic BusyCovers
PROPERTIES FileMonotone BusyEnds InboxDrains
CHECK_DEADLOCK FALSE
