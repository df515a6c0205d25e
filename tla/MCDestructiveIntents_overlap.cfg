SPECIFICATION Spec
CONSTANTS
    archiving = archiving
    deleting = deleting
    prod = prod
    None = None
    Intents = {archiving, deleting}
    Target <- SameProduct
    Kind <- Kinds
    Products = {prod}
    Statuses = {"APPROVED", "PAUSED"}
    Procs = {p1, p2}
    MaxCalls = 4
    MaxEdits = 1
    MaxFaults = 1
INVARIANTS
    EffectsHappenOnce
    StatusTellsTheEffect
    UndoRestores
CHECK_DEADLOCK FALSE
