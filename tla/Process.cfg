CONSTANTS
  Holders = {h1, h2, h3}
  NoHolder = NoHolder
  TargetSize = 1
  MaxKeys = 6
  MaxCrashes = 2
  Miners = {"m1", "m2"}
  Startups <- MCStartups
  Patience = 0
  Processes = {p1, p2}
  NoProcess = NoProcess
  OptionSets <- MCOptionSets
  MaxStarts = 3
  RpcClients = {c1, c2}
  NoCaller = NoCaller
  RpcCalls <- MCCalls
  MaxTimeouts = 2
  MaxLost = 1
SPECIFICATION ProcessSpec
CHECK_DEADLOCK FALSE
INVARIANTS
  KeyNeverReused
  KeyPoolInv
  ShutdownIsClean
  ProcessIsSound
PROPERTIES
  EverythingEnds
