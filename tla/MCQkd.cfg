SPECIFICATION MCFairSpec
CONSTANTS
  Peers = {"a", "b"}
  DaemonOf <- MCDaemonOf
  MaxPubs = 2
  PrepareDepth = 2
  KeyLife = 2
  CacheSize = 1
  MaxFaults = 1
  MaxDown = 1
  MsgKeys = {"k1", "k2", "k3", "k4"}
  TableSize = 2
  MsgHash <- MCMsgHash
  MaxOpens = 2
  MaxLapses = 1
  MaxIds = 3
  MaxKeys = 3
  MaxLosses = 1
INVARIANTS SealedOnceUnlessRemoved KeysUsedUp AskedOnceUnlessFreed ActiveIsShared
PROPERTY Served
CHECK_DEADLOCK FALSE
