CONSTANTS
  Nil = Nil
  LongIds = {"1", "2"}
  ApiSpaces <- SomeSpaces
  Ids = {"", "1", "2"}
  Docs <- SomeDocs
  MaxBatch = 2
  StrHashUint64 <- Hashes
SPECIFICATION Spec
INVARIANTS TypeOK  GetAnswersEachKey GetTriesReplicas UpsertFailureSeen 
CHECK_DEADLOCK FALSE
