CONSTANTS
    l1 = l1
    l2 = l2
    l3 = l3
    Loads = {l1, l2, l3}
    Blocks = 2
    Hole = Hole
    NoLoad = NoLoad
    MaxCrashes = 0

SPECIFICATION Spec

SYMMETRY Alike
INVARIANT CachedAsFetched
