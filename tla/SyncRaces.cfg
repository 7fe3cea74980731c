\* Two passes over one fixture, or a pass and a script by hand, a market of somebody else's, a failure, a match that may be brought forward, scores and a correction.
SPECIFICATION ScriptSpec
CONSTANTS
  p1 = p1
  p2 = p2
  f1 = f1
  f2 = f2
  Passes = {p1, p2}
  Watch = {}
  Fixtures = {f1}
  Kickoff <- SingleLater
  Moved <- Single
  DAY = 4
  LISTED_DAYS = 1
  RunAt = {0, 2}
  FINISHED_AFTER = 0
  Scorelines <- OneGoal
  InPlayScores <- HomeWin
  OtherPredicates <- Stranger
  OtherCloses = {1}
  MaxEvents = 2
  MaxFailures = 1
  MaxTime = 2
  Operators = {p2}
  CLOSE_IN_MIN = 1
  CLOSE_SOON = 1
  Prompt = FALSE
CHECK_DEADLOCK FALSE
INVARIANTS TypeOK ReportsAreTrue VerdictIsFullTime
