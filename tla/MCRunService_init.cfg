\* An app that is served without its lifespan.
SPECIFICATION Spec
CONSTANTS
  post = post
  moss = moss
  ask = ask
  look = look
  api = api
  Jobs <- InitJobs
  Kinds <- InitKinds
  RunIds = {"r1", "r2"}
  Server = api
  Lifespan = FALSE
INVARIANT
  InitIsSafeFromRequests
