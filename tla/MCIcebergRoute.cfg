CONSTANTS
  Request = {r1, r2}
  Endpoint = {minio}
  Key = {key}
  None = none
  minio = minio
  key = key
  Query <- SomeQueries
  CanReset = TRUE
  Patterns = 2
  Namespaces = 1
SPECIFICATION FairSpec
INVARIANTS ReadsItsStore RunsOnConfigured
PROPERTY EveryRequestAnswered
