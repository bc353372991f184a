\* Three connections at most, a fourth is dropped: two that yield leave the third
\* to the next pass.
CONSTANTS
  Conns = {c1, c2, c3, c4}
  MaxConnections = 3
  MaxAccepts = 4
SPECIFICATION FairServeSpec
INVARIANT FailuresPassBy
PROPERTY WokenIsPolled
