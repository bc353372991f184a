\* Two ids, one subscription at a time and two in all: the id of an ended or
\* cancelled subscription is used again while its update is still in the funnel,
\* and the second update of a pump finds a funnel of one full.
CONSTANTS
  SubIds = {s1, s2}
  NoGen = NoGen
  MaxSubs = 1
  FunnelCap = 1
  MaxGen = 2
  MaxVal = 2
  MaxSnaps = 1
  MaxFrames = 3
SPECIFICATION FairSpec
INVARIANT SlotsMatchPumps
PROPERTIES UpdatesInOrder EndIsReported
