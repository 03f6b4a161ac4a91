\* Two callers of the colored net: move, join, renew and back.
SPECIFICATION Spec
CONSTANTS
    None = None
    Clients = {c1, c2}
    Nets <- MCNets
    InitialName = start
    InitialPlaces <- MCInitialPlaces
    Revised <- MCRevised
    ExternalValues <- MCExternalValues
    MaxFirings = 2
    inbox = inbox
    outbox = outbox
    move = move
    join = join
    renew = renew
    back = back
    varX = varX
    varY = varY
    varZ = varZ
    varV = varV
    varW = varW
SYMMETRY Symmetry
INVARIANTS
    EnablementIsComplete
    CurrentSelectionFires
    OldSelectionNeverFires
    ReplayIsExact
PROPERTIES
    ImplementsFormalNet
\* The bounded firings come to an end, and a guard may stop the net for good.
CHECK_DEADLOCK FALSE
