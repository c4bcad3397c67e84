\* The components that only compute; a request that is answered stops.
CONSTANTS
  Fact <- MCFact
  MAX_DEPTH_LIMIT = 3
  Problems <- MCProblems
  TraceId = {t1, t2, t3}
  Score = {1, 2, 3}
  MaxRecall = 2
  Limits = {0, 2}
  MAX_RETRIES = 2
  Reply <- MCBodies
  MaxLate = 1
  Events <- MCEvents
  Environments <- MCEnvironments
  Commands <- MCCommands
  Scale = 2
  Frames <- MCFrames
  MAX_QUESTIONS = 2
  MAX_STATE_CHARS = 10
  HeaderChars = 1
  EngineScores = {0, 2}
  Parts = 10
  MIN_OUTCOMES = 2
  Stores <- MCStores
SPECIFICATION ReasonSpec
INVARIANTS SearchIsRight VerdictFollows AnswersInTime PredictionsCanBeScored RecommendationHolds RequestsCoverMissing CountedOnce ThresholdIsBest
PROPERTIES FocusKeepsTheBest
CHECK_DEADLOCK FALSE
