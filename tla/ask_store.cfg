CONSTANTS
    r1 = r1
    r2 = r2
    r3 = r3
    p1 = p1
    p2 = p2
    NoId = NoId
    UnknownId = UnknownId
    Requests = {r1, r2}
    Capacity = 2
    Portfolios = {p1, p2}
    Answers <- MixedAnswers
    DirectTools = {"factor_shock", "risk_drift"}
    ScanWindow = 3
    Limits = {0, 1, 2}
    MaxTime = 2
    MaxRestarts = 1

SPECIFICATION Spec

SYMMETRY AlikePair
INVARIANTS TypeOK AnsweredDurable StoredTogether FailedLeavesNothing DriftParentOK
    AnsweredDriftListed
PROPERTIES ChainedDriftHasBaseline
