CONSTANTS
    r1 = r1
    r2 = r2
    r3 = r3
    p1 = p1
    p2 = p2
    NoId = NoId
    UnknownId = UnknownId
    Requests = {r1, r2}
    Capacity = 1
    Portfolios = {p1}
    Answers <- ShortAnswers
    DirectTools = {}
    ScanWindow = 3
    Limits = {0, 1, 2}
    MaxTime = 1
    MaxRestarts = 0

SPECIFICATION Spec

INVARIANT ComputeBounded
