\* One file, one server with a lifespan, four jobs.
SPECIFICATION FairSpec
CONSTANTS
  post = post
  moss = moss
  ask = ask
  look = look
  api = api
  Jobs <- HistoryJobs
  Kinds <- HistoryKinds
  RunIds = {"r1", "r2"}
  Server = api
  Lifespan = TRUE
INVARIANTS
  TypeOK
  AnswersStayTrue
  RecordedVerdictsAreTheEngines
  LifespanCreatesTables
PROPERTIES
  KeepsLedger
  JobEnds
