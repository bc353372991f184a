\* Three records of two types and two registrations beyond a plain buffered
\* record: conflicts, cycles with a record downstream, joins that read an
\* input twice.  Databases of one such registration are run: two writes make
\* a join lag, or wait for room in its channel of one.
CONSTANTS
  MaxKeys = 3
  Types = {"A", "B"}
  Plain = "A"
  Budget = 2
  RunBudget = 1
  MaxWrites = 2
  Names = {"x", "y"}
  Dispatchers = {d1, d2}
  Ring = 1
  QueueCap = 1
CHECK_DEADLOCK FALSE
SPECIFICATION FairDbSpec
INVARIANTS MistakesReported TasksInOrder OneKeyPerName EveryValueCounted
PROPERTY WorkedOff
