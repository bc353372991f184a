\* One record with a source and remote access.
CONSTANTS
  MaxKeys = 1
  Types = {"A"}
  Plain = "A"
  Budget = 2
  RunBudget = 2
  MaxWrites = 1
  Names = {"x"}
  Dispatchers = {d1}
  Ring = 1
  QueueCap = 1
CHECK_DEADLOCK FALSE
SPECIFICATION DbSpec
INVARIANT NoProducerOverride
