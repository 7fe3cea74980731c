\* The daily routine, at the same time every day, and a match that ends after it.
SPECIFICATION FairSpec
CONSTANTS
  p1 = p1
  p2 = p2
  f1 = f1
  f2 = f2
  Passes = {p1}
  Watch = {}
  Fixtures = {f1}
  Kickoff <- LateOnly
  Moved <- LateOnly
  DAY = 4
  LISTED_DAYS = 1
  RunAt = {1}
  FINISHED_AFTER = 1
  Scorelines <- HomeWin
  InPlayScores <- HomeWin
  OtherPredicates <- Stranger
  OtherCloses = {0}
  MaxEvents = 1
  MaxFailures = 0
  MaxTime = 10
  Operators = {}
  CLOSE_IN_MIN = 1
  CLOSE_SOON = 1
  Prompt = TRUE
CHECK_DEADLOCK FALSE
PROPERTIES FinishedMatchesSettle
