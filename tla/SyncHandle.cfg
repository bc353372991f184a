\* Two threads that shut down, two that publish three values into a ring of
\* one, and one that reads: a shutdown meets a publish, a read and another
\* shutdown, and the reader lags.
CONSTANTS
  Closers = {c1, c2}
  Producers = {p1, p2}
  Cap = 1
  MaxSet = 3
CHECK_DEADLOCK FALSE
SPECIFICATION FairSpec
INVARIANT ChildTouchesNothing
PROPERTIES NobodyHangs DownMeansDown LatestIsNewest
