CONSTANTS
  Blocks = {"g", "c1", "c2", "a1", "a2", "a3", "b1", "b2", "b3", "b4", "b5", "b6", "b7"}
  GenesisBlock = "g"
  Prev <- ForkPrev
  DenseSteps = 10
  Peers = {"p", "q"}
  Steady = "p"
  Tips <- LineTips
  OurBlocks = {"g"}
  BlockLimit = 2
  ByteLimit = 100
  Size <- UnitSize
  Prompt = TRUE
  MaxDrops = 2
  NoBlock = "none"
SPECIFICATION DownloadSpec
CHECK_DEADLOCK FALSE
INVARIANTS
  AskedOnce
PROPERTIES
  DownloadsGoOn
