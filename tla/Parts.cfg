SPECIFICATION PartsSpec
CONSTANTS
  MaxLength = 21
  MaxBreaks = 2
  Limits <- MCLimits
  Words <- MCWords
  Ordinal <- MCOrdinal
  Blank = ""
  NoColon = "-"
  QuestionSets <- MCQuestionSets
  MaxSegments = 3
  Base = 4
  Modulus = 1024
  Exact <- MCExact
  Frames <- MCFrames
  Type <- MCType
  Event <- MCEvent
  Json <- MCJson
  Ok <- MCOk
  Environments <- MCEnvironments
  Files <- MCFiles
  Numeric = {"1"}
  Targets = {"", "feishu", "qq_official", "woa"}
  NoTarget = ""
  MaxLaunches = 2
  t1 = t1
  t2 = t2
  Threads = {t1, t2}
  Lives = {4, 6}
  CheckMargin = 1
  StoreMargin = 1
  Timeout = 2
  MaxTokens = 2
  MaxTime = 7
INVARIANTS PartsMakeTheText ChunksFit AnswersFitQuestions ExplicitAnswersAreUnderstood AckIsTheSameFrame StartedIsUsable OnlyIsolates CheckedStarts TokenIsValid
CHECK_DEADLOCK FALSE
