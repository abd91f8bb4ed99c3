SPECIFICATION FairStreamSpec
CONSTANTS
  Unsent = Unsent
  Newest = 2
  TailFrom = 2
  LiveFrom = 1
  QueueSize = 2
  LogSize = 1
  MaxGeneration = 3
  UnknownOutcomes = TRUE
INVARIANTS
  NothingForgotten
  SentWasShown
PROPERTIES
  ReportedIsShown
