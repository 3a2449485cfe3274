CONSTANTS
    l1 = l1
    l2 = l2
    l3 = l3
    Loads = {l1, l2, l3}
    Blocks = 3
    Hole = Hole
    NoLoad = NoLoad
    MaxCrashes = 1

SPECIFICATION FairSpec

INVARIANTS NoRowMissing
PROPERTIES SettledStays EveryLoadReturns
