\* Two sockets, three frames on the second: a channel of one slot and one more for
\* the sender takes two of them, in order, and three bytes are fewer than two
\* frames of two, so either limit may be met first; no timeout on queries.
CONSTANTS
  FrameQueueCap = 1
  MaxFrameBytes = 2
  FrameQueueBytes = 3
  ReplayReenters = FALSE
  MaxDials = 2
  MaxFrames = 3
SPECIFICATION Spec
INVARIANTS StatusIsTrue NoFreedCallback NoHole
PROPERTY GivenUpEnds
CHECK_DEADLOCK FALSE
