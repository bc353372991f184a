\* Two tasks share a one-slot command queue, so that commands and cancellations
\* are evicted; two ids are issued.
CONSTANTS
  Callers = {c1, c2}
  None = None
  Dropped = Dropped
  QueueCap = 1
  MaxId = 3
  Reconnect = TRUE
  MaxAttempts = 2
  AttemptTop = 2
  SendsHello = TRUE
  Keepalive = TRUE
  WireCap = 1
  MaxStray = 1
SPECIFICATION FairSpec
INVARIANTS NoLeakedCall NoCallerHangs OwnReply
PROPERTY AbandonedIsReclaimed
