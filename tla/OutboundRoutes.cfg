\* Two routes whose bits share a word; a ring of one value, so that readers
\* lag; two values on the first route, or one on each.
CONSTANTS
  N = 2
  WordSize = 2
  SkipBudget = 2
  Capacity = 1
  Kinds = {"staged", "serialize_failed"}
  MaxProduced = 2
SPECIFICATION FairSpec
INVARIANTS NoLostWake Accounting FinalMeansDrained
PROPERTIES RoundRobin HungryRouteIsPolled
