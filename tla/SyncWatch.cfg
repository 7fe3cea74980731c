\* The loop of sync.ts, started at any time, with a tick at every tick of a day and the start of the next, each done before the next one; a match on each day.
SPECIFICATION FairSpec
CONSTANTS
  p1 = p1
  p2 = p2
  f1 = f1
  f2 = f2
  Passes = {p1}
  Watch = {p1}
  Fixtures = {f1, f2}
  Kickoff <- TodayAndTomorrow
  Moved <- TodayAndTomorrow
  DAY = 5
  LISTED_DAYS = 0
  RunAt = {0, 1, 2, 3, 4}
  FINISHED_AFTER = 1
  Scorelines <- HomeWin
  InPlayScores <- HomeWin
  OtherPredicates <- Stranger
  OtherCloses = {0}
  MaxEvents = 2
  MaxFailures = 1
  MaxTime = 7
  Operators = {}
  CLOSE_IN_MIN = 1
  CLOSE_SOON = 1
  Prompt = TRUE
CHECK_DEADLOCK FALSE
PROPERTIES ListedFixturesGetMarkets EarlyMatchesSettle
