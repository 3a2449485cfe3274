\* Every kind of experiment over fourteen small markets, alone and as a drift
\* after a decomposition.
SPECIFICATION Spec
CONSTANTS
  None = None
  Unset = Unset
  MaxForwardFill = 1
  WeekDays = 2
  LnFloor <- MCLnFloor
  LogWeight <- MCLogWeight
  ForecastDays = {3, 5, 10}
  KmeansRounds = 10
  MinModelWindow = 2
  MinTickerObservations = 1
  MinRegimeObservations = 2
  DailyWindow = 4
  WeeklyWindow = 2
  Unit = 8
  CoefficientBound = 3
  Whole = 4
  HistoryPoints = 4
  Scenarios <- MCScenarios
  MaxRemediations = 3
  ConfidenceStep = 100
  DefaultCap = 2
  NaN = NaN
  Slope = 5
  MaxScale = 4
  Rounds = 4
  DefaultBounds <- MCDefaultBounds
  ConcentrationStep = 5
  Markets <- MCMarkets
  Sessions <- MCSessions
INVARIANTS
  ReturnsDatedRight
  ClustersSettled
  PathIsBest
  ReestimateIsExpected
  LabelsOrderFree
  ForecastIsStepwise
  ImpliedIsNeutral
  EulerAddsUp
  RebalanceIsBest
  RemediationHonest
  RefusalIsSound
  
  HistoryKeepsDates
  DataWindowSound
  DriftIsDifference
