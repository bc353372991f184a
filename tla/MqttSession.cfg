\* A ring of four: an empty one grants two bytes wherever its pointers are.  A
\* QoS 1 burst, a ping and a SUBSCRIBE compete for it, and a session may end at
\* any moment with the ring half full.
CONSTANTS
  RingCap = 4
  Reserve = 1
  ConnectLen = 2
  SubscribeLen = 2
  PubackLen = 1
  PingLen = 1
  FrameLens = {1, 2}
  PubackRoom = 2
  Topics = 1
  MaxBurst = 1
SPECIFICATION FairSpec
INVARIANTS ConnectFirst RingHoldsQueue
PROPERTY NoEndlessWait
