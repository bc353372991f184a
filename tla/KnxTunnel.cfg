\* Three telegrams, two pending at a time: the map is full and gives up an entry,
\* entries expire together and are repeated once.  Deadlines are short against
\* each other as in TunnelConfig::default: a keepalive's answer is due before
\* the next keepalive, an acknowledgement outlives a sweep.
CONSTANTS
  SeqSpace = 3
  PendingCap = 2
  Retransmits = 1
  AckTimeout = 1
  AckSweep = 1
  Heartbeat = 2
  HeartbeatTimeout = 1
  ConnectTimeout = 1
  Backoff = 1
  Overrun = FALSE
  MaxWrites = 3
SPECIFICATION FairKnxSpec
INVARIANT HandshakeFitsSocket
PROPERTIES EveryFateTold TunnelRecovers OutboundServed
