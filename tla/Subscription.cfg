\* Three records, each with any kind of buffer, and three values written in all,
\* rings of one, a funnel of one and a sink of three: every queue overflows, a ring
\* laps its reader twice before a value is read, and a burst of three snapshots
\* meets a sink with one slot for the body, one for the burst's end and one for the
\* terminal error.
CONSTANTS
  Records = {r1, r2, r3}
  NoRec = NoRec
  RingCap = 1
  FunnelCap = 1
  SinkCap = 3
  WireCap = 1
  MaxVal = 3
CHECK_DEADLOCK FALSE
SYMMETRY RecordSymmetry
SPECIFICATION Spec
INVARIANTS EveryLossCounted NothingInBetween
PROPERTY ReservedSlotsHold
