CONSTANTS
    l1 = l1
    l2 = l2
    c1 = c1
    c2 = c2
    c3 = c3
    Logins = {l1, l2}
    Callbacks = {c1, c2, c3}
    NoState = NoState
    Ttl = 2
    Accounts <- MCAccounts
    Unit = 10
    MaxTime = 4
    MaxRestarts = 1

SPECIFICATION Spec

SYMMETRY Alike
INVARIANT RedeemedOnce
INVARIANT ImportedWhole
PROPERTY RedeemedInTime
